---------------------------- MODULE LeasesProofs ----------------------------
(***************************************************************************)
(* Proofs about Leases, for every number of servers, resources and leases. *)
(* The registry never holds two leases of one resource; the server in the  *)
(* lock has loaded every current lease, and saves it again unless its      *)
(* client gave it up; so what clients hold is in the registry.             *)
(***************************************************************************)
EXTENDS Leases, TLAPS

USE LeaseAssumption, ServerAssumption DEF None

Unique(S) == \A l, m \in S : l.res = m.res => l = m

\* No copy of the registry has two leases of one resource.
UniqueInv ==
  /\ Unique(registry) /\ Unique(before)
  /\ \A s \in Servers : Unique(view[s])

\* Only an id that is given up is being released.
ReleasedInv ==
  \A s \in Servers :
    pc[s] # "idle" /\ call[s].op = "release" => call[s].id \in released

\* What the server in the lock has in hand.
Unreleased(S) == {l \in S : Current(l) /\ l.id \notin released}
ViewInv ==
  \A s \in Servers :
    /\ pc[s] = "return" => view[s] = registry
    /\ ~reverted /\ pc[s] \in {"decide", "save"} => Unreleased(registry) \subseteq view[s]

IInv == TypeOK /\ UniqueInv /\ ReleasedInv /\ ViewInv /\ LeaseHolds

-----------------------------------------------------------------------------
(* The type invariant, with the lock.                                      *)

LEMMA TypeInit == Init => TypeOK
<1>1. NoCall \in Calls /\ NoCall.op # "acquire"
  BY DEF NoCall, Calls
<1> SUFFICES ASSUME Init PROVE TypeOK
  OBVIOUS
<1> USE DEF Init
<1>2. call \in [Servers -> Calls] /\ view \in [Servers -> SUBSET Lease]
  BY <1>1
<1>3. pc \in [Servers -> Pcs]
  BY DEF Pcs
<1>4. \A s \in Servers : pc[s] \notin Locking /\ call[s].op # "acquire"
  BY <1>1 DEF Locking
<1>5. clock \in Nat /\ ids \in Nat /\ reverted \in BOOLEAN /\ lock \in Servers \cup {None}
  OBVIOUS
<1>6. registry \subseteq Lease /\ before \subseteq Lease /\ granted \subseteq Lease
     /\ released \subseteq Nat
  OBVIOUS
<1> QED BY <1>2, <1>3, <1>4, <1>5, <1>6 DEF TypeOK

LEMMA TypeNext == TypeOK /\ [Next]_vars => TypeOK'
<1> SUFFICES ASSUME TypeOK, [Next]_vars PROVE TypeOK'
  OBVIOUS
<1> USE DEF TypeOK, Pcs, Locking, Goto, fileVars, otherVars
<1>1. ASSUME NEW s \in Servers, NEW r \in Resources, NEW ttl \in Ttls, Acquire(s, r, ttl)
      PROVE  TypeOK'
  <2>1. [NoCall EXCEPT !.op = "acquire", !.res = r, !.ttl = ttl] \in Calls
       /\ [NoCall EXCEPT !.op = "acquire", !.res = r, !.ttl = ttl].res = r
    BY DEF NoCall, Calls
  <2> QED BY <1>1, <2>1 DEF Acquire, Start
<1>2. ASSUME NEW s \in Servers, Status(s) PROVE TypeOK'
  <2>1. [NoCall EXCEPT !.op = "status"] \in Calls
       /\ [NoCall EXCEPT !.op = "status"].op # "acquire"
    BY DEF NoCall, Calls
  <2> QED BY <1>2, <2>1 DEF Status, Start
<1>3. ASSUME NEW s \in Servers, NEW g \in granted, Release(s, g) PROVE TypeOK'
  <2>1. g.id \in Nat
    BY DEF Lease
  <2>2. [NoCall EXCEPT !.op = "release", !.id = g.id] \in Calls
       /\ [NoCall EXCEPT !.op = "release", !.id = g.id].op # "acquire"
    BY <2>1 DEF NoCall, Calls
  <2> QED BY <1>3, <2>1, <2>2 DEF Release, Start
<1>4. ASSUME NEW s \in Servers, Lock(s) PROVE TypeOK'
  BY <1>4 DEF Lock
<1>5. ASSUME NEW s \in Servers, Load(s) PROVE TypeOK'
  BY <1>5 DEF Load
<1>6. ASSUME NEW s \in Servers, Leave(s), pc[s] \in Locking PROVE TypeOK'
  <2>1. NoCall \in Calls /\ NoCall.op # "acquire"
    BY DEF NoCall, Calls
  <2> QED BY <1>6, <2>1 DEF Leave, Done
<1>7. ASSUME NEW s \in Servers, Grant(s) PROVE TypeOK'
  <2>1. call[s] \in Calls /\ call[s].res \in Resources /\ call[s].ttl \in Nat
    BY <1>7 DEF Grant, Calls
  <2>2. /\ [call[s] EXCEPT !.id = ids + 1] \in Calls
        /\ [call[s] EXCEPT !.id = ids + 1].res \in Resources
    BY <2>1 DEF Calls
  <2>3. [id |-> ids + 1, res |-> call[s].res, exp |-> clock + call[s].ttl] \in Lease
    BY <2>1 DEF Lease
  <2> QED BY <1>7, <2>2, <2>3 DEF Grant
<1>8. ASSUME NEW s \in Servers, Keep(s) PROVE TypeOK'
  BY <1>8 DEF Keep
<1>9. ASSUME NEW s \in Servers, Forget(s) PROVE TypeOK'
  BY <1>9 DEF Forget
<1>10. ASSUME NEW s \in Servers, Save(s) PROVE TypeOK'
  BY <1>10 DEF Save
<1>11. ASSUME NEW s \in Servers, Return(s) PROVE TypeOK'
  <2>1. NoCall \in Calls /\ NoCall.op # "acquire"
    BY DEF NoCall, Calls
  <2> QED BY <1>11, <2>1 DEF Return, Done, New
<1>12. ASSUME NEW s \in Servers, Crash(s) PROVE TypeOK'
  <2>1. NoCall \in Calls /\ NoCall.op # "acquire"
    BY DEF NoCall, Calls
  <2> QED BY <1>12, <2>1 DEF Crash, Done
<1>13. CASE Tick
  BY <1>13 DEF Tick
<1>14. CASE SetBack
  BY <1>14 DEF SetBack
<1>15. CASE PowerLoss
  <2>1. NoCall \in Calls /\ NoCall.op # "acquire"
    BY DEF NoCall, Calls
  <2> QED BY <1>15, <2>1 DEF PowerLoss
<1>16. CASE UNCHANGED vars
  BY <1>16 DEF vars
<1> QED
  BY <1>1, <1>2, <1>3, <1>4, <1>5, <1>6, <1>7, <1>8, <1>9, <1>10, <1>11, <1>12,
     <1>13, <1>14, <1>15, <1>16 DEF Next, LoadFails, SaveFails

-----------------------------------------------------------------------------
(* One step keeps each part; the cases follow Next.                        *)

LEMMA UniqueNext == TypeOK /\ UniqueInv /\ [Next]_vars => UniqueInv'
<1> SUFFICES ASSUME TypeOK, UniqueInv, [Next]_vars PROVE UniqueInv'
  OBVIOUS
<1> USE DEF TypeOK, UniqueInv, Unique, Goto, fileVars, otherVars
<1>1. ASSUME NEW s \in Servers, Load(s) PROVE UniqueInv'
  BY <1>1 DEF Load
<1>2. ASSUME NEW s \in Servers, Grant(s) PROVE UniqueInv'
  BY <1>2 DEF Grant, Held
<1>3. ASSUME NEW s \in Servers, Forget(s) PROVE UniqueInv'
  BY <1>3 DEF Forget
<1>4. ASSUME NEW s \in Servers, Save(s) PROVE UniqueInv'
  BY <1>4 DEF Save
<1>5. ASSUME NEW s \in Servers, Done(s), UNCHANGED fileVars PROVE UniqueInv'
  BY <1>5 DEF Done
<1>6. CASE PowerLoss
  BY <1>6 DEF PowerLoss
<1>7. ASSUME UNCHANGED <<fileVars, view>> PROVE UniqueInv'
  BY <1>7
<1> QED
  BY <1>1, <1>2, <1>3, <1>4, <1>5, <1>6, <1>7 DEF Next, Acquire, Status, Release, Start,
     Lock, LoadFails, SaveFails, Leave, Keep, Return, Crash, Tick, SetBack, vars

LEMMA ReleasedNext == TypeOK /\ ReleasedInv /\ [Next]_vars => ReleasedInv'
<1> SUFFICES ASSUME TypeOK, ReleasedInv, [Next]_vars PROVE ReleasedInv'
  OBVIOUS
<1> USE DEF TypeOK, ReleasedInv, Goto, fileVars, otherVars
<1>1. ASSUME NEW s \in Servers, NEW r \in Resources, NEW ttl \in Ttls, Acquire(s, r, ttl)
      PROVE  ReleasedInv'
  BY <1>1 DEF Acquire, Start, NoCall
<1>2. ASSUME NEW s \in Servers, Status(s) PROVE ReleasedInv'
  BY <1>2 DEF Status, Start, NoCall
<1>3. ASSUME NEW s \in Servers, NEW g \in granted, Release(s, g) PROVE ReleasedInv'
  BY <1>3 DEF Release, Start, NoCall
<1>4. ASSUME NEW s \in Servers, Grant(s) PROVE ReleasedInv'
  <2>1. call'[s].op = "acquire"
    BY <1>4 DEF Grant, Calls
  <2> QED BY <1>4, <2>1 DEF Grant
<1>5. ASSUME NEW s \in Servers, Done(s), UNCHANGED released PROVE ReleasedInv'
  BY <1>5 DEF Done
<1>6. CASE PowerLoss
  BY <1>6 DEF PowerLoss
<1>7. ASSUME NEW s \in Servers, pc[s] # "idle", NEW p, Goto(s, p), UNCHANGED <<call, released>>
      PROVE  ReleasedInv'
  BY <1>7
<1>8. ASSUME UNCHANGED <<pc, call, released>> PROVE ReleasedInv'
  BY <1>8
<1> QED
  BY <1>1, <1>2, <1>3, <1>4, <1>5, <1>6, <1>7, <1>8 DEF Next, Lock, Load, LoadFails, SaveFails,
     Leave, Keep, Forget, Save, Return, Crash, Tick, SetBack, vars

LEMMA ViewNext ==
  TypeOK /\ TypeOK' /\ ReleasedInv /\ ViewInv /\ [Next]_vars => ViewInv'
<1> SUFFICES ASSUME TypeOK, TypeOK', ReleasedInv, ViewInv, [Next]_vars PROVE ViewInv'
  OBVIOUS
<1> USE DEF ViewInv, Goto, fileVars, otherVars
<1> DEFINE Sees(s) == ~reverted /\ pc[s] \in {"decide", "save"} => Unreleased(registry) \subseteq view[s]
<1>a. \A s, t \in Servers :
        pc[s] \in {"decide", "save", "return"} /\ pc[t] \in {"load", "decide", "save", "return"} => s = t
  BY DEF TypeOK, Locking
<1>b. \A s \in Servers : Sees(s)
  OBVIOUS
\* A step that moves one server outside the lock, or none.
<1>1. ASSUME NEW s \in Servers, NEW p \in {"idle", "lock", "load"}, Goto(s, p),
             \A t \in Servers \ {s} : view'[t] = view[t],
             released \subseteq released', UNCHANGED <<registry, clock, reverted>>
      PROVE  ViewInv'
  BY <1>1, <1>b DEF TypeOK, Unreleased, Current
<1>2. ASSUME NEW s \in Servers, Load(s) PROVE ViewInv'
  <2>1. Unreleased(registry)' \subseteq view'[s]
    BY <1>2 DEF Load, Unreleased, Current, TypeOK
  <2>2. \A t \in Servers \ {s} : pc'[t] \notin {"decide", "save", "return"}
    BY <1>2, <1>a DEF Load, TypeOK
  <2> QED BY <1>2, <2>1, <2>2 DEF Load, TypeOK
<1>3. ASSUME NEW s \in Servers, Grant(s) PROVE ViewInv'
  BY <1>3, <1>a, <1>b DEF Grant, Unreleased, Current, TypeOK
<1>4. ASSUME NEW s \in Servers, Keep(s) PROVE ViewInv'
  BY <1>4, <1>a, <1>b DEF Keep, Unreleased, Current, TypeOK
<1>5. ASSUME NEW s \in Servers, Forget(s) PROVE ViewInv'
  <2>1. call[s].id \in released
    BY <1>5 DEF Forget, ReleasedInv
  <2> QED BY <1>5, <2>1, <1>a, <1>b DEF Forget, Unreleased, Current, TypeOK
<1>6. ASSUME NEW s \in Servers, Save(s) PROVE ViewInv'
  <2>1. \A t \in Servers \ {s} : pc'[t] \notin {"decide", "save", "return"}
    BY <1>6, <1>a DEF Save, TypeOK
  <2> QED BY <1>6, <2>1 DEF Save, TypeOK
<1>7. ASSUME UNCHANGED <<registry, view, pc, released>>,
             reverted' \/ (clock' \in {clock, clock + 1} /\ reverted' = reverted)
      PROVE  ViewInv'
  BY <1>7, <1>b DEF TypeOK, Unreleased, Current, Lease
<1>8. CASE PowerLoss
  BY <1>8 DEF PowerLoss
<1>9. CASE SetBack
  BY <1>9, <1>7 DEF SetBack, TypeOK
<1>10. CASE Tick
  BY <1>10, <1>7 DEF Tick, TypeOK
<1>11. ASSUME NEW s \in Servers, Done(s), UNCHANGED <<registry, clock, reverted, released>>
       PROVE  ViewInv'
  BY <1>11, <1>1 DEF Done, TypeOK
<1>12. ASSUME NEW s \in Servers, NEW c, Start(s, c), released \subseteq released' PROVE ViewInv'
  BY <1>12, <1>1 DEF Start, TypeOK
<1>13. ASSUME NEW s \in Servers, NEW g \in granted, Release(s, g) PROVE ViewInv'
  <2>1. released \subseteq released'
    BY <1>13 DEF Release
  <2> QED BY <1>13, <2>1, <1>12 DEF Release
<1>14. ASSUME NEW s \in Servers, Lock(s) PROVE ViewInv'
  BY <1>14, <1>1 DEF Lock, TypeOK
<1> QED
  BY <1>2, <1>3, <1>4, <1>5, <1>6, <1>7, <1>8, <1>9, <1>10, <1>11, <1>12, <1>13, <1>14
     DEF Next, Acquire, Status, LoadFails, SaveFails, Leave, Return, Crash, vars, TypeOK

LEMMA HoldsNext ==
  TypeOK /\ ViewInv /\ LeaseHolds /\ [Next]_vars => LeaseHolds'
<1> SUFFICES ASSUME TypeOK, ViewInv, LeaseHolds, [Next]_vars PROVE LeaseHolds'
  OBVIOUS
<1> USE DEF LeaseHolds, Holds, Goto, fileVars, otherVars
<1>1. ASSUME NEW s \in Servers, Save(s) PROVE LeaseHolds'
  BY <1>1 DEF Save, ViewInv, Unreleased, Current
<1>2. ASSUME NEW s \in Servers, Return(s) PROVE LeaseHolds'
  BY <1>2 DEF Return, New, ViewInv, Current
<1>3. ASSUME UNCHANGED <<registry, granted, clock, reverted>>, released \subseteq released'
      PROVE  LeaseHolds'
  BY <1>3 DEF Current
<1>4. CASE Tick
  BY <1>4 DEF Tick, Current, TypeOK, Lease
<1>5. CASE SetBack \/ PowerLoss
  BY <1>5 DEF SetBack, PowerLoss
<1>6. ASSUME NEW s \in Servers, NEW g \in granted, Release(s, g) PROVE LeaseHolds'
  BY <1>6, <1>3 DEF Release, Start
<1> QED
  BY <1>1, <1>2, <1>3, <1>4, <1>5, <1>6 DEF Next, Acquire, Status, Start, Lock, Load,
     LoadFails, SaveFails, Leave, Grant, Keep, Forget, Crash, vars

LEMMA Inductive == IInv /\ [Next]_vars => IInv'
  BY TypeNext, UniqueNext, ReleasedNext, ViewNext, HoldsNext DEF IInv

LEMMA Initial == Init => IInv
<1>1. Init => UniqueInv /\ ReleasedInv /\ ViewInv /\ LeaseHolds
  BY DEF Init, UniqueInv, Unique, ReleasedInv, ViewInv, LeaseHolds, Holds
<1> QED BY <1>1, TypeInit DEF IInv

LEMMA Exclusive == IInv => MutualExclusion
  BY DEF IInv, UniqueInv, Unique, LeaseHolds, MutualExclusion

-----------------------------------------------------------------------------
\* Every reachable state is well typed, and a server that is past its flock
\* is the one that holds it (_lease_lock).
THEOREM TypeCorrect == Spec => []TypeOK
  BY TypeInit, TypeNext, PTL DEF Spec

\* A current lease stays in the registry until its client releases it, for
\* any number of servers (lease_release, _save_leases).
THEOREM LeasesAreKept == Spec => []LeaseHolds
<1>1. IInv => LeaseHolds
  BY DEF IInv
<1> QED BY Initial, Inductive, <1>1, PTL DEF Spec

\* No two clients hold current leases of one resource (lease_acquire).
THEOREM Exclusion == Spec => []MutualExclusion
  BY Initial, Inductive, Exclusive, PTL DEF Spec

=============================================================================
