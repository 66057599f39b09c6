---------------------------- MODULE SessionStore ----------------------------
(***************************************************************************)
(* The conversation history of one session: SessionEventStore over a cold  *)
(* event log, the system of record, and a hot window that caches its end.  *)
(*                                                                         *)
(* Writers append the events of their exchange one after another, readers  *)
(* ask for the recent window, the retention job prunes, and the window's   *)
(* key expires.  One action is one command or MULTI block of Dragonfly, or *)
(* one statement of Postgres: nothing else is atomic.  The in-memory       *)
(* backends never suspend, so their calls do not interleave.               *)
(***************************************************************************)
EXTENDS Integers, Sequences, FiniteSets

CONSTANTS
    Writers,     \* append_turn_events calls on the session
    PerWriter,   \* events each of them appends: the question, the answer
    Readers,     \* recent calls that can be in flight at once
    Backends,    \* cold logs that are tried
    MaxWindow,   \* hot_window_events
    LogCap,      \* max_events_per_session of the Dragonfly log, 0 for none
    MayAge       \* events that can pass the retention horizon

ASSUME BackendAssumption == Backends \subseteq {"dragonfly", "postgres"}
ASSUME SizeAssumption == PerWriter \in Nat /\ MaxWindow \in Nat \ {0} /\ LogCap \in Nat

VARIABLES
    backend,   \* the cold log in use
    cold,      \* its events, oldest first
    hot,       \* the window; Redis has no empty list, so <<>> is a missing key
    aged,      \* events past the retention horizon
    stored,    \* events the cold log ever took
    acked,     \* events whose append returned
    writer,    \* append calls: [pc, n], n events appended before
    reader,    \* recent calls: [pc, got], got the window they have, or served
    pruner     \* apply_retention: [pc, kept]

storeVars == <<backend, cold, hot, aged, stored, acked, writer, reader, pruner>>

Elems(s) == {s[i] : i \in 1 .. Len(s)}

\* s[-n:], and LTRIM key -n -1.
Newest(s, n) == SubSeq(s, IF Len(s) > n THEN Len(s) - n + 1 ELSE 1, Len(s))

\* [e for e in s if e is younger than the cutoff]: the kept positions in order.
Kept(s) ==
    LET keep == {i \in 1 .. Len(s) : s[i] \notin aged}
        nth(k) == CHOOSE i \in keep : Cardinality({j \in keep : j <= i}) = k
    IN  [k \in 1 .. Cardinality(keep) |-> s[nth(k)]]

------------------------------------------------------------------------------
(* append: the cold log first, then the hot window                         *)

Event(w) == <<w, writer[w].n + 1>>

Goto(w, l) == writer' = [writer EXCEPT ![w].pc = l]

\* The call returns its sequence number and the caller goes on.
Return(w) ==
    /\ acked' = acked \cup {Event(w)}
    /\ writer' = [writer EXCEPT ![w] = [pc |-> "cold", n |-> @.n + 1]]

\* Fault: an error of the cold log is logged and the window is still extended.
ColdAppendSwallows(w) ==
    /\ writer[w].pc = "cold" /\ writer[w].n < PerWriter
    /\ \/ /\ cold' = Append(cold, Event(w))
          /\ stored' = stored \cup {Event(w)}
       \/ UNCHANGED <<cold, stored>>
    /\ Goto(w, "exists")
    /\ UNCHANGED <<backend, hot, aged, acked, reader, pruner>>

\* RPUSH with its cap in one MULTI, or INSERT.
ColdAppend(w) ==
    /\ writer[w].pc = "cold" /\ writer[w].n < PerWriter
    /\ cold' = IF backend = "dragonfly" /\ LogCap > 0
                 THEN Newest(Append(cold, Event(w)), LogCap)
                 ELSE Append(cold, Event(w))
    /\ stored' = stored \cup {Event(w)}
    /\ Goto(w, "exists")
    /\ UNCHANGED <<backend, hot, aged, acked, reader, pruner>>

\* push extends a window that exists and builds none.
HotExists(w) ==
    /\ writer[w].pc = "exists"
    /\ IF hot = <<>> THEN Return(w) ELSE Goto(w, "push") /\ UNCHANGED acked
    /\ UNCHANGED <<backend, cold, hot, aged, stored, reader, pruner>>

\* Fault: the event goes to the wrong end of the list.
HotPushLeft(w) ==
    /\ writer[w].pc = "push"
    /\ hot' = Newest(<<Event(w)>> \o hot, MaxWindow)
    /\ Return(w)
    /\ UNCHANGED <<backend, cold, aged, stored, reader, pruner>>

\* RPUSH, LTRIM, EXPIRE in one MULTI, on whatever the key holds by now.
HotPush(w) ==
    /\ writer[w].pc = "push"
    /\ hot' = Newest(Append(hot, Event(w)), MaxWindow)
    /\ Return(w)
    /\ UNCHANGED <<backend, cold, aged, stored, reader, pruner>>

\* A backend raises or the process dies: the exchange ends here.
AppendFails(w) ==
    /\ writer[w].pc # "failed" /\ writer[w].n < PerWriter
    /\ Goto(w, "failed")
    /\ UNCHANGED <<backend, cold, hot, aged, stored, acked, reader, pruner>>

------------------------------------------------------------------------------
(* recent                                                                  *)

Read(r, l, s) == reader' = [reader EXCEPT ![r] = [pc |-> l, got |-> s]]

WindowExists(r) ==
    /\ reader[r].pc = "idle"
    /\ Read(r, IF hot = <<>> THEN "cold" ELSE "range", <<>>)
    /\ UNCHANGED <<backend, cold, hot, aged, stored, acked, writer, pruner>>

\* A hit is served as it is, also when the key has expired since EXISTS.
WindowRange(r) ==
    /\ reader[r].pc = "range"
    /\ Read(r, "idle", hot)
    /\ UNCHANGED <<backend, cold, hot, aged, stored, acked, writer, pruner>>

ReadCold(r) ==
    /\ reader[r].pc = "cold"
    /\ Read(r, "replace", Newest(cold, MaxWindow))
    /\ UNCHANGED <<backend, cold, hot, aged, stored, acked, writer, pruner>>

\* The cache is rebuilt from what was read, and that is served.
Replace(r) ==
    /\ reader[r].pc = "replace"
    /\ hot' = reader[r].got
    /\ Read(r, "idle", reader[r].got)
    /\ UNCHANGED <<backend, cold, aged, stored, acked, writer, pruner>>

------------------------------------------------------------------------------
(* apply_retention, and time                                               *)

\* Fault: the statement deletes what is younger than the cutoff.
PruneRowsInverted ==
    /\ backend = "postgres" /\ Kept(cold) # cold
    /\ cold' = SelectSeq(cold, LAMBDA e : e \in aged)
    /\ UNCHANGED <<backend, hot, aged, stored, acked, writer, reader, pruner>>

\* Postgres: one DELETE.
PruneRows ==
    /\ backend = "postgres" /\ Kept(cold) # cold
    /\ cold' = Kept(cold)
    /\ UNCHANGED <<backend, hot, aged, stored, acked, writer, reader, pruner>>

\* Dragonfly: LRANGE, then DEL and RPUSH of what is kept in one MULTI.
PruneRead ==
    /\ backend = "dragonfly" /\ pruner.pc = "idle" /\ cold # <<>>
    /\ pruner' = [pc |-> "rewrite", kept |-> Kept(cold)]
    /\ UNCHANGED <<backend, cold, hot, aged, stored, acked, writer, reader>>

PruneRewrite ==
    /\ pruner.pc = "rewrite"
    /\ cold' = pruner.kept
    /\ pruner' = [pc |-> "idle", kept |-> <<>>]
    /\ UNCHANGED <<backend, hot, aged, stored, acked, writer, reader>>

Age(e) ==
    /\ e \in stored \ aged
    /\ aged' = aged \cup {e}
    /\ UNCHANGED <<backend, cold, hot, stored, acked, writer, reader, pruner>>

\* The window's TTL, or evict.
ExpireWindow ==
    /\ hot # <<>>
    /\ hot' = <<>>
    /\ UNCHANGED <<backend, cold, aged, stored, acked, writer, reader, pruner>>

StoreInit ==
    /\ backend \in Backends
    /\ cold = <<>> /\ hot = <<>>
    /\ aged = {} /\ stored = {} /\ acked = {}
    /\ writer = [w \in Writers |-> [pc |-> "cold", n |-> 0]]
    /\ reader = [r \in Readers |-> [pc |-> "idle", got |-> <<>>]]
    /\ pruner = [pc |-> "idle", kept |-> <<>>]

AppendEvent(w) == ColdAppend(w) \/ HotExists(w) \/ HotPush(w) \/ AppendFails(w)

Recent(r) == WindowExists(r) \/ WindowRange(r) \/ ReadCold(r) \/ Replace(r)

StoreNext ==
    \/ \E w \in Writers : AppendEvent(w)
    \/ \E r \in Readers : Recent(r)
    \/ PruneRows \/ PruneRead \/ PruneRewrite
    \/ \E e \in MayAge : Age(e)
    \/ ExpireWindow

StoreSpec == StoreInit /\ [][StoreNext]_storeVars

------------------------------------------------------------------------------
(* Properties                                                              *)

(* The Postgres log is the system of record: an event whose append returned*)
(* stays in it until it is past the retention horizon, whatever the window,*)
(* the readers and the retention job do meanwhile.                         *)
AckedIsKept == backend = "postgres" => acked \subseteq Elems(cold) \cup aged

(* Durable first: what the window holds, and what any reader is served, was*)
(* taken by the cold log before, also when an append fails half-way.       *)
StoredBeforeShown ==
    \A s \in {hot} \cup {reader[r].got : r \in Readers} : Elems(s) \subseteq stored

(* An answer is never shown before its question: the events of an exchange *)
(* keep their order in the log, in the window and in what is served, even  *)
(* when a slow rebuild overwrites a window that was extended meanwhile.    *)
ShownInOrder ==
    \A s \in {cold, hot} \cup {reader[r].got : r \in Readers} :
        \A i, j \in 1 .. Len(s) : i < j /\ s[i][1] = s[j][1] => s[i][2] <= s[j][2]
=============================================================================
