------------------------------- MODULE Leases -------------------------------
(***************************************************************************)
(* The leases of agent_ops.py: lease_acquire, lease_status, lease_list and *)
(* lease_release over one registry file, which every server process on the *)
(* host reads and replaces while it holds an flock.  A lease expires by    *)
(* the wall clock; there is no renewal.                                    *)
(***************************************************************************)
EXTENDS Integers, FiniteSets

CONSTANTS
  Servers,   \* server processes
  Resources, \* names of resources
  Ttls,      \* ttl_seconds that clients ask for
  Capacity,  \* leases that fit in the largest registry that is read
  MaxLeases, \* bound: leases granted
  MaxClock,  \* bound: the clock
  Faults     \* what may happen, a subset of AllFaults

(***************************************************************************)
(* crash      a server dies                                                *)
(* io_error   writing the registry fails                                   *)
(* set_back   the wall clock is set back                                   *)
(* power_loss the host restarts, and the last rename may not be on disk    *)
(***************************************************************************)
AllFaults == {"crash", "io_error", "set_back", "power_loss"}

ASSUME LeaseAssumption ==
  /\ Ttls \subseteq Nat
  /\ Capacity \in Nat /\ MaxLeases \in Nat /\ MaxClock \in Nat
  /\ Faults \subseteq AllFaults

None == "none"
ASSUME ServerAssumption == None \notin Servers

VARIABLES
  clock,    \* int(time.time())
  registry, \* the leases in registry.json
  before,   \* what the last os.replace has replaced
  lock,     \* who holds the flock, or None
  pc,       \* the next step of each server's handler, or "idle"
  call,     \* its operation and arguments
  view,     \* the leases it has loaded, or is about to save
  ids,      \* lease ids drawn so far
  granted,  \* history: the leases clients have got
  released, \* history: the ids of those they have given up
  reverted  \* history: the clock or the disk went back

fileVars  == <<registry, before>>
otherVars == <<clock, ids, granted, released, reverted>>
vars      == <<fileVars, lock, pc, call, view, otherVars>>

-----------------------------------------------------------------------------
Lease  == [id : Nat, res : Resources, exp : Nat]
NoCall == [op |-> "none", res |-> None, ttl |-> 0, id |-> 0]
Calls  == [op : {"none", "acquire", "status", "release"},
           res : Resources \cup {None}, ttl : Ttls \cup {0}, id : Nat]

Current(l) == l.exp > clock

Init ==
  /\ clock = 0 /\ ids = 0
  /\ registry = {} /\ before = {}
  /\ lock = None
  /\ pc = [s \in Servers |-> "idle"]
  /\ call = [s \in Servers |-> NoCall]
  /\ view = [s \in Servers |-> {}]
  /\ granted = {} /\ released = {} /\ reverted = FALSE

-----------------------------------------------------------------------------
Goto(s, p) == pc' = [pc EXCEPT ![s] = p]

\* A handler ends, and its locals with it.
Done(s) ==
  /\ Goto(s, "idle")
  /\ call' = [call EXCEPT ![s] = NoCall] /\ view' = [view EXCEPT ![s] = {}]

Start(s, c) ==
  /\ pc[s] = "idle"
  /\ Goto(s, "lock") /\ call' = [call EXCEPT ![s] = c]
  /\ UNCHANGED <<fileVars, lock, view, clock, ids, granted, reverted>>

Acquire(s, r, ttl) ==
  Start(s, [NoCall EXCEPT !.op = "acquire", !.res = r, !.ttl = ttl]) /\ UNCHANGED released

\* lease_status and lease_list purge the registry, too.
Status(s) == Start(s, [NoCall EXCEPT !.op = "status"]) /\ UNCHANGED released

\* A client gives up a lease it has got, perhaps an expired one, perhaps again.
Release(s, g) ==
  /\ Start(s, [NoCall EXCEPT !.op = "release", !.id = g.id])
  /\ released' = released \cup {g.id}

Lock(s) ==
  /\ pc[s] = "lock" /\ lock = None
  /\ lock' = s /\ Goto(s, "load")
  /\ UNCHANGED <<fileVars, call, view, otherVars>>

\* Mutant of Load: a lease in its last second has expired.
LoadEarly(s) ==
  /\ pc[s] = "load" /\ Cardinality(registry) <= Capacity
  /\ view' = [view EXCEPT ![s] = {l \in registry : l.exp > clock + 1}]
  /\ Goto(s, "decide")
  /\ UNCHANGED <<fileVars, lock, call, otherVars>>

\* _load_leases drops what has expired.
Load(s) ==
  /\ pc[s] = "load" /\ Cardinality(registry) <= Capacity
  /\ view' = [view EXCEPT ![s] = {l \in registry : Current(l)}]
  /\ Goto(s, "decide")
  /\ UNCHANGED <<fileVars, lock, call, otherVars>>

\* An exception on the way: the lock is released.
Leave(s) ==
  /\ lock' = None /\ Done(s)
  /\ UNCHANGED <<fileVars, otherVars>>

\* The file has become too large to be read, and nothing makes it smaller.
LoadFails(s) == pc[s] = "load" /\ Cardinality(registry) > Capacity /\ Leave(s)

\* Mutant of Held: a lease that somebody else holds is overlooked.
HeldNever(s, r) == FALSE

\* The first lease of the resource refuses the call.
Held(s, r) == \E l \in view[s] : l.res = r

\* The clock is read once more for the end of the lease.
Grant(s) ==
  /\ pc[s] = "decide" /\ call[s].op = "acquire" /\ ~Held(s, call[s].res)
  /\ ids < MaxLeases /\ ids' = ids + 1
  /\ view' = [view EXCEPT ![s] = @ \cup
       {[id |-> ids + 1, res |-> call[s].res, exp |-> clock + call[s].ttl]}]
  /\ call' = [call EXCEPT ![s].id = ids + 1]
  /\ Goto(s, "save")
  /\ UNCHANGED <<fileVars, lock, clock, granted, released, reverted>>

\* A refused lease_acquire, lease_status and lease_list save what they loaded.
Keep(s) ==
  /\ pc[s] = "decide"
  /\ call[s].op = "status" \/ (call[s].op = "acquire" /\ Held(s, call[s].res))
  /\ Goto(s, "save")
  /\ UNCHANGED <<fileVars, lock, call, view, otherVars>>

Forget(s) ==
  /\ pc[s] = "decide" /\ call[s].op = "release"
  /\ view' = [view EXCEPT ![s] = {l \in @ : l.id # call[s].id}]
  /\ Goto(s, "save")
  /\ UNCHANGED <<fileVars, lock, call, otherVars>>

\* _save_leases: os.replace is atomic, and an error before it changes nothing.
Save(s) ==
  /\ pc[s] = "save"
  /\ registry' = view[s] /\ before' = registry
  /\ Goto(s, "return")
  /\ UNCHANGED <<lock, call, view, otherVars>>
SaveFails(s) == pc[s] = "save" /\ "io_error" \in Faults /\ Leave(s)

\* The lease a lease_acquire returns to its client.
New(s) == {l \in view[s] : call[s].op = "acquire" /\ l.id = call[s].id}

Return(s) ==
  /\ pc[s] = "return"
  /\ granted' = granted \cup New(s)
  /\ lock' = None /\ Done(s)
  /\ UNCHANGED <<fileVars, clock, ids, released, reverted>>

-----------------------------------------------------------------------------
Tick ==
  /\ clock < MaxClock /\ clock' = clock + 1
  /\ UNCHANGED <<fileVars, lock, pc, call, view, ids, granted, released, reverted>>

SetBack ==
  /\ "set_back" \in Faults /\ clock > 0
  /\ clock' = clock - 1 /\ reverted' = TRUE
  /\ UNCHANGED <<fileVars, lock, pc, call, view, ids, granted, released>>

\* The kernel releases the lock of a server that dies.
Crash(s) ==
  /\ "crash" \in Faults /\ pc[s] # "idle"
  /\ lock' = IF lock = s THEN None ELSE lock
  /\ Done(s)
  /\ UNCHANGED <<fileVars, otherVars>>

\* _save_leases flushes the file and not the directory.
PowerLoss ==
  /\ "power_loss" \in Faults
  /\ registry' = before /\ before' = before /\ reverted' = TRUE
  /\ lock' = None /\ pc' = [s \in Servers |-> "idle"]
  /\ call' = [s \in Servers |-> NoCall] /\ view' = [s \in Servers |-> {}]
  /\ UNCHANGED <<clock, ids, granted, released>>

Next ==
  \/ \E s \in Servers :
       \/ \E r \in Resources, ttl \in Ttls : Acquire(s, r, ttl)
       \/ Status(s) \/ \E g \in granted : Release(s, g)
       \/ Lock(s) \/ Load(s) \/ LoadFails(s) \/ Grant(s) \/ Keep(s) \/ Forget(s)
       \/ Save(s) \/ SaveFails(s) \/ Return(s) \/ Crash(s)
  \/ Tick \/ SetBack \/ PowerLoss

Spec == Init /\ [][Next]_vars

-----------------------------------------------------------------------------
(* Properties.                                                             *)

\* What clients hold.
Holds == {g \in granted : Current(g) /\ g.id \notin released}

Pcs     == {"idle", "lock", "load", "decide", "save", "return"}
Locking == {"load", "decide", "save", "return"}

TypeOK ==
  /\ clock \in Nat /\ ids \in Nat
  /\ registry \subseteq Lease /\ before \subseteq Lease /\ granted \subseteq Lease
  /\ released \subseteq Nat
  /\ lock \in Servers \cup {None}
  /\ pc \in [Servers -> Pcs]
  /\ call \in [Servers -> Calls]
  /\ view \in [Servers -> SUBSET Lease]
  /\ \A s \in Servers :
       /\ pc[s] \in Locking => lock = s
       /\ call[s].op = "acquire" => call[s].res \in Resources
  /\ reverted \in BOOLEAN

\* Two clients never hold current leases of one resource, whichever servers
\* they use and whatever dies between their steps, as long as neither the
\* clock nor the disk goes back (lease_acquire).
MutualExclusion ==
  ~reverted => \A g, h \in Holds : g.res = h.res => g = h

\* A current lease a client holds stays in the registry until that client
\* releases it: no late release of an expired lease, purge or interrupted
\* save of somebody else takes it away (lease_release, _save_leases).
LeaseHolds == ~reverted => Holds \subseteq registry

=============================================================================
