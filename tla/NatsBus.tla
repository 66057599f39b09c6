------------------------------- MODULE NatsBus -------------------------------
(***************************************************************************)
(* The NATS split: the ingress ships a turn to the graph worker with       *)
(* nats_invoke, through resilient_call (bounded retries and a circuit      *)
(* breaker per subject and tenant), and GraphWorker runs it and replies to *)
(* the inbox of that one request.                                          *)
(*                                                                         *)
(* asyncio is cooperative: before_call, the connection check, the send and *)
(* the bookkeeping of record never suspend (the lock is never held across  *)
(* an await), so one attempt up to its wait, and one answer with its       *)
(* record, are single steps.                                               *)
(***************************************************************************)
EXTENDS Integers, Sequences, FiniteSets

CONSTANTS
    Calls,          \* turns the ingress sends
    Tenants,
    TenantOf,       \* [Calls -> Tenants]
    MaxAttempts,    \* NATS_RETRY_MAX_ATTEMPTS
    MinRequests,    \* NATS_BREAKER_MIN_REQUESTS
    FailurePercent, \* NATS_BREAKER_FAILURE_RATIO, in percent
    WindowLen,      \* NATS_BREAKER_WINDOW_SECONDS, in ticks
    Cooldown,       \* NATS_BREAKER_COOLDOWN_SECONDS, in ticks
    MaxTime         \* bound: the last tick of the clock

ASSUME BusAssumption ==
    /\ TenantOf \in [Calls -> Tenants]
    /\ {MaxAttempts, MinRequests, WindowLen, Cooldown} \subseteq Nat \ {0}
    /\ FailurePercent \in 1..100 /\ MaxTime \in Nat

VARIABLES
    call,       \* per turn: where resilient_call is, attempt, result
    breaker,    \* CircuitBreaker._states, per breaker key
    job,        \* per turn and attempt: the message on oneops.request.chat
    runs,       \* how often a worker has run a turn
    failures,   \* failures recorded per turn, a history variable
    link,       \* NATSClient.is_connected
    listening,  \* the worker's subscription
    now

busVars == <<call, breaker, job, runs, failures, link, listening, now>>

States == {"closed", "open", "half_open"}
Attempts == 0..(MaxAttempts - 1)

Fresh == [state |-> "closed", openedAt |-> 0, window |-> <<>>]
NotCalled == [pc |-> "idle", attempt |-> 0, result |-> "none"]

\* Mutant: the breaker keyed by the subject alone.
BreakerKeySubject(c) == CHOOSE k \in Tenants : TRUE

\* The breaker is kept per subject and tenant; there is one subject.
BreakerKey(c) == TenantOf[c]

\* _Window.record and _Window.stats pop events from the left while the
\* oldest one is older than the window.
Stale(e) == e.at < now - WindowLen

Popped(window) == CHOOSE n \in 0..Len(window) :
    /\ \A i \in 1..n : Stale(window[i])
    /\ n < Len(window) => ~Stale(window[n + 1])

Pruned(window) == SubSeq(window, Popped(window) + 1, Len(window))

Failed(window) == Cardinality({i \in 1..Len(window) : ~window[i].ok})

TooManyFailures(window) ==
    /\ Len(window) >= MinRequests
    /\ Failed(window) * 100 >= FailurePercent * Len(window)

\* CircuitBreaker.record: a half-open breaker obeys the answer, a closed one
\* the failure ratio of its window; an open one only keeps the event.
Record(b, ok) ==
    LET w == Pruned(Append(b.window, [at |-> now, ok |-> ok]))
        opens == CASE b.state = "half_open" -> ~ok
                   [] b.state = "closed" -> TooManyFailures(w)
                   [] OTHER -> FALSE
    IN  [state |-> IF opens THEN "open"
                   ELSE IF b.state = "half_open" THEN "closed" ELSE b.state,
         openedAt |-> IF opens THEN now ELSE b.openedAt,
         window |-> w]

\* CircuitBreaker.before_call: an open breaker whose cooldown is over turns
\* half-open; a half-open one lets every caller through.
CooldownOver(b) == now - b.openedAt >= Cooldown

BeforeCall(b) ==
    IF b.state = "open" /\ CooldownOver(b) THEN [b EXCEPT !.state = "half_open"] ELSE b

Admits(b) == BeforeCall(b).state # "open"

End(c, result) == call' = [call EXCEPT ![c].pc = "done", ![c].result = result]

\* _retry_or_exhaust: the failure is recorded, then the last attempt raises
\* and an earlier one sleeps for its backoff.
RetryOrExhaust(c, b) ==
    /\ breaker' = [breaker EXCEPT ![BreakerKey(c)] = Record(b, FALSE)]
    /\ failures' = [failures EXCEPT ![c] = @ + 1]
    /\ IF call[c].attempt >= MaxAttempts - 1
       THEN End(c, "unavailable")
       ELSE call' = [call EXCEPT ![c].pc = "backoff"]

\* nats_invoke: the envelope goes to resilient_call.
Invoke(c) ==
    /\ call[c].pc = "idle"
    /\ call' = [call EXCEPT ![c].pc = "attempt"]
    /\ UNCHANGED <<breaker, job, runs, failures, link, listening, now>>

\* _check_breaker raises out of resilient_call: a refusal is not retried.
FailFast(c) ==
    /\ call[c].pc = "attempt"
    /\ ~Admits(breaker[BreakerKey(c)])
    /\ End(c, "unavailable")
    /\ UNCHANGED <<breaker, job, runs, failures, link, listening, now>>

\* _run_one_attempt without a connection, or with nobody subscribed.
NotSent(c) ==
    /\ call[c].pc = "attempt"
    /\ Admits(breaker[BreakerKey(c)])
    /\ ~link \/ ~listening
    /\ RetryOrExhaust(c, BeforeCall(breaker[BreakerKey(c)]))
    /\ UNCHANGED <<job, runs, link, listening, now>>

\* NATSClient.request: the message is out and the caller waits on its inbox.
Send(c) ==
    /\ call[c].pc = "attempt"
    /\ Admits(breaker[BreakerKey(c)])
    /\ link /\ listening
    /\ breaker' = [breaker EXCEPT ![BreakerKey(c)] = BeforeCall(@)]
    /\ job' = [job EXCEPT ![c][call[c].attempt] = "queued"]
    /\ call' = [call EXCEPT ![c].pc = "wait"]
    /\ UNCHANGED <<runs, failures, link, listening, now>>

\* The reply on the inbox of this attempt; a late one has no reader.
Reply(c) ==
    /\ call[c].pc = "wait"
    /\ job[c][call[c].attempt] = "replied"
    /\ breaker' = [breaker EXCEPT ![BreakerKey(c)] = Record(@, TRUE)]
    /\ End(c, "reply")
    /\ UNCHANGED <<job, runs, failures, link, listening, now>>

\* Mutant: a message a worker has taken is waited for without a timeout.
RequestTimeoutQueued(c) ==
    /\ call[c].pc = "wait"
    /\ job[c][call[c].attempt] = "queued"
    /\ RetryOrExhaust(c, breaker[BreakerKey(c)])
    /\ UNCHANGED <<job, runs, link, listening, now>>

\* No reply within turn_timeout_seconds: the worker may still be running it.
RequestTimeout(c) ==
    /\ call[c].pc = "wait"
    /\ job[c][call[c].attempt] # "replied"
    /\ RetryOrExhaust(c, breaker[BreakerKey(c)])
    /\ UNCHANGED <<job, runs, link, listening, now>>

\* Any other exception of the request: recorded, not retried.
RequestRaises(c) ==
    /\ call[c].pc = "wait"
    /\ ~link
    /\ breaker' = [breaker EXCEPT ![BreakerKey(c)] = Record(@, FALSE)]
    /\ failures' = [failures EXCEPT ![c] = @ + 1]
    /\ End(c, "error")
    /\ UNCHANGED <<job, runs, link, listening, now>>

\* asyncio.sleep(delay_for(attempt)), jittered from zero.
Sleep(c) ==
    /\ call[c].pc = "backoff"
    /\ call' = [call EXCEPT ![c].pc = "attempt", ![c].attempt = @ + 1]
    /\ UNCHANGED <<breaker, job, runs, failures, link, listening, now>>

\* The outer wait_for of _run cancels the call wherever it waits; the
\* cancellation is no Exception, so nothing is recorded.
OuterTimeout(c) ==
    /\ call[c].pc \in {"wait", "backoff"}
    /\ End(c, "degraded")
    /\ UNCHANGED <<breaker, job, runs, failures, link, listening, now>>

\* GraphWorker._handle: run_turn on the thread of the request.
WorkerTakes(c, a) ==
    /\ listening
    /\ job[c][a] = "queued"
    /\ job' = [job EXCEPT ![c][a] = "running"]
    /\ runs' = [runs EXCEPT ![c] = @ + 1]
    /\ UNCHANGED <<call, breaker, failures, link, listening, now>>

\* Whatever run_turn does (result, timeout, exception), _publish_reply sends
\* one envelope; publishing needs the connection.
WorkerReplies(c, a) ==
    /\ job[c][a] = "running"
    /\ job' = [job EXCEPT ![c][a] = IF link THEN "replied" ELSE "lost"]
    /\ UNCHANGED <<call, breaker, runs, failures, link, listening, now>>

\* GraphWorker.start and stop; stop drains, so messages already taken finish.
WorkerStart ==
    /\ ~listening
    /\ listening' = TRUE
    /\ UNCHANGED <<call, breaker, job, runs, failures, link, now>>

WorkerStop ==
    /\ listening
    /\ \A c \in Calls, a \in Attempts : job[c][a] # "queued"
    /\ listening' = FALSE
    /\ UNCHANGED <<call, breaker, job, runs, failures, link, now>>

\* The connection drops and nats-py reconnects for ever.
LinkChanges ==
    /\ link' = ~link
    /\ UNCHANGED <<call, breaker, job, runs, failures, listening, now>>

Tick ==
    /\ now < MaxTime
    /\ now' = now + 1
    /\ UNCHANGED <<call, breaker, job, runs, failures, link, listening>>

BusInit ==
    /\ call = [c \in Calls |-> NotCalled]
    /\ breaker = [k \in Tenants |-> Fresh]
    /\ job = [c \in Calls |-> [a \in Attempts |-> "none"]]
    /\ runs = [c \in Calls |-> 0] /\ failures = [c \in Calls |-> 0]
    /\ link = TRUE /\ listening = TRUE /\ now = 0

Caller(c) == FailFast(c) \/ NotSent(c) \/ Send(c) \/ Reply(c) \/ RequestTimeout(c)
             \/ RequestRaises(c) \/ Sleep(c)

BusNext ==
    \/ \E c \in Calls : Invoke(c) \/ Caller(c) \/ OuterTimeout(c)
    \/ \E c \in Calls, a \in Attempts : WorkerTakes(c, a) \/ WorkerReplies(c, a)
    \/ WorkerStart \/ WorkerStop \/ LinkChanges \/ Tick

\* The event loop runs what is ready; the clocks of request and of the
\* backoff run out.  Nothing is assumed of the worker, of the connection or
\* of the outer timeout.
BusSpec == BusInit /\ [][BusNext]_busVars /\ \A c \in Calls : WF_busVars(Caller(c))

-----------------------------------------------------------------------------
(* nats_resilience.py, resilient_call: "a noisy tenant cannot trip the     *)
(* breaker for every other tenant".  A breaker that is not closed has seen *)
(* its threshold of failures from the calls of its own tenant, whatever    *)
(* the calls of the others did meanwhile.                                  *)
FailuresOf(k) ==
    {f \in Calls \X (1..MaxAttempts) : TenantOf[f[1]] = k /\ f[2] <= failures[f[1]]}

OwnFailuresOpen ==
    \A k \in Tenants : breaker[k].state # "closed" =>
        Cardinality(FailuresOf(k)) * 100 >= FailurePercent * MinRequests

(* nats_invoker.py: "No silent failure".  A call that was sent ends: with  *)
(* a reply, with NATSUnavailableError or with an error, after at most      *)
(* MaxAttempts attempts, even when the worker or the link never answers.   *)
EveryCallEnds == \A c \in Calls : call[c].pc # "idle" ~> call[c].pc = "done"

=============================================================================
