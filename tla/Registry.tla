----------------------------- MODULE Registry -----------------------------
(***************************************************************************)
(* The versioned registry of agent cards (registry/store.py, service.py).  *)
(* A record is an envelope: its versions, each with a lifecycle status,    *)
(* and the number of the active one.  Every operation loads the envelope,  *)
(* changes it and writes it back whole; the lock is per process, so two    *)
(* operators in two processes may work from the same load.                 *)
(***************************************************************************)
EXTENDS Integers, Sequences, FiniteSets

CONSTANTS
  Agents,      \* record ids
  Operators,   \* processes that edit the registry
  Card,        \* Card[a][v]: what version v of a's card says
  Installed,   \* the envelopes on disk when the process starts
  Edited,      \* bound: the cards the operators work on
  ActiveTools, \* tools with an active version
  Given,       \* the statuses a caller writes: the records' default is draft
  MaxEvents    \* bound: edits, expiries and turns after start-up

Statuses == {"draft", "active", "deprecated", "retired"}

(* given is a history field: the versions whose status is still the one    *)
(* the caller of create or update wrote.                                   *)
Absent == [st |-> <<>>, active |-> 0, given |-> {}]
Envelopes == [st : Seq(Statuses), active : Nat, given : SUBSET Nat]

(* The pointer names a version the store made live, and no other version   *)
(* it made active still is.                                                *)
Coherent(e) ==
  /\ e.active \in {0} \cup DOMAIN e.st
  /\ e.active # 0 => e.active \notin e.given /\ e.st[e.active] \in {"active", "deprecated"}
  /\ \A v \in DOMAIN e.st \ e.given : e.st[v] = "active" => v = e.active

ASSUME RegistryAssumption ==
  /\ MaxEvents \in Nat /\ Edited \subseteq Agents /\ Given \subseteq Statuses
  /\ "none" \notin Agents
  /\ Installed \in [Agents -> Envelopes]
  /\ \A a \in Agents : Coherent(Installed[a])

VARIABLES
  env,      \* the envelope file of each agent
  loaded,   \* what an operator has read and not yet written back
  events,   \* events left
  memo      \* routing_fingerprint, once it has been computed

regVars == <<env, loaded, events, memo>>
NotLoaded == [agent |-> "none", e |-> Absent]
NoMemo == {"none"}

(* get: the active version, 0 when there is none (a draft or retired). *)
Get(e) == IF e.active \in DOMAIN e.st THEN e.active ELSE 0
GetOptional(a) == Get(env[a])
Reg == [a \in {b \in Agents : GetOptional(b) # 0} |-> Card[a][GetOptional(a)]]
StatusOf(a) == env[a].st[GetOptional(a)]

(* A deprecated record can still be read but is no longer listed. *)
ListActive == {a \in Agents : GetOptional(a) # 0 /\ StatusOf(a) = "active"}
ListIds == {a \in Agents : env[a] # Absent}

(* routing_fingerprint: computed from the active cards once, then kept. *)
Fingerprint == {<<a, GetOptional(a)>> : a \in ListActive}
RoutingFingerprint == IF memo = NoMemo THEN Fingerprint ELSE memo

-----------------------------------------------------------------------------
(* check_integrity, which load_registry runs at start-up. *)

Refs(a) == {Card[a][GetOptional(a)].deps[i] : i \in DOMAIN Card[a][GetOptional(a)].deps}
Excluded(a) == {x[1] : x \in Card[a][GetOptional(a)].excludes}
AgentViolations(a) ==
  \/ ~(Card[a][GetOptional(a)].tools \subseteq ActiveTools)
  \/ ~(Refs(a) \cup Excluded(a) \cup Card[a][GetOptional(a)].members \subseteq ListActive)
  \/ \E x, y \in Card[a][GetOptional(a)].excludes : x # y /\ x[2] = y[2]
DependencyCycle == \E c \in SUBSET ListActive \ {{}} : \A a \in c : Refs(a) \cap c # {}
CheckIntegrity == ~DependencyCycle /\ \A a \in ListActive : ~AgentViolations(a)

RegInit ==
  /\ env = Installed /\ events = MaxEvents /\ memo = NoMemo
  /\ loaded = [o \in Operators |-> NotLoaded]
  /\ CheckIntegrity

-----------------------------------------------------------------------------
(* The operations: o has loaded the envelope e and writes the new one. *)

Load(o, a) ==
  /\ loaded[o] = NotLoaded /\ events > 0
  /\ events' = events - 1
  /\ loaded' = [loaded EXCEPT ![o] = [agent |-> a, e |-> env[a]]]
  /\ UNCHANGED <<env, memo>>

Write(o, e) ==
  /\ loaded[o] # NotLoaded
  /\ env' = [env EXCEPT ![loaded[o].agent] = e]
  /\ loaded' = [loaded EXCEPT ![o] = NotLoaded]
  /\ UNCHANGED <<events, memo>>

Create(o, status) ==
  /\ loaded[o].e = Absent /\ loaded[o].agent \in Agents
  /\ Write(o, [st |-> <<status>>, active |-> 0, given |-> {1}])

Update(o, status) ==
  LET e == loaded[o].e
  IN /\ e # Absent /\ Len(e.st) < Len(Card[loaded[o].agent])
     /\ Write(o, [e EXCEPT !.st = Append(@, status), !.given = @ \cup {Len(e.st) + 1}])

(* Mutant: the version that was active keeps its status. *)
ActivateBeside(o, v) ==
  LET e == loaded[o].e
  IN /\ v \in DOMAIN e.st
     /\ Write(o, [st |-> [e.st EXCEPT ![v] = "active"], active |-> v, given |-> e.given \ {v}])
Activate(o, v) ==
  LET e == loaded[o].e
      prior == IF e.active \in DOMAIN e.st /\ e.active # v
               THEN [e.st EXCEPT ![e.active] = "retired"] ELSE e.st
  IN /\ v \in DOMAIN e.st
     /\ Write(o, [st |-> [prior EXCEPT ![v] = "active"], active |-> v, given |-> e.given \ {v}])

Deprecate(o, v) ==
  LET e == loaded[o].e
  IN /\ v \in DOMAIN e.st
     /\ Write(o, [st |-> [e.st EXCEPT ![v] = "deprecated"], active |-> e.active, given |-> e.given \ {v}])

Retire(o, v) ==
  LET e == loaded[o].e
  IN /\ v \in DOMAIN e.st
     /\ Write(o, [st |-> [e.st EXCEPT ![v] = "retired"], active |-> IF e.active = v THEN 0 ELSE e.active,
                  given |-> e.given \ {v}])

Delete(o) == loaded[o].agent \in ListIds /\ Write(o, Absent)

(* The operation refuses: nothing is written. *)
Refuse(o) ==
  /\ loaded[o] # NotLoaded
  /\ loaded' = [loaded EXCEPT ![o] = NotLoaded]
  /\ UNCHANGED <<env, events, memo>>

Edit(o) ==
  \/ \E a \in Edited : Load(o, a)
  \/ \E status \in Given : Create(o, status) \/ Update(o, status)
  \/ Delete(o) \/ Refuse(o)
  \/ \E v \in DOMAIN loaded[o].e.st : Activate(o, v) \/ Deprecate(o, v) \/ Retire(o, v)

RegNext == \E o \in Operators : Edit(o)

(* The registry by itself, for any number of operators. *)
RegSpec == RegInit /\ [][RegNext]_regVars
-----------------------------------------------------------------------------
(* Whatever two processes write over each other, and whatever status the   *)
(* callers of create and update wrote, the pointer the router reads (get)  *)
(* never names a draft or a retired version, and of the versions that      *)
(* activate has put in service at most one is still active.  A version     *)
(* that only its caller calls active is not bound by this: no pointer ever *)
(* names it.                                                               *)
OneLiveVersion ==
  /\ \A a \in Agents : Coherent(env[a])
  /\ \A o \in Operators : Coherent(loaded[o].e)
=============================================================================
