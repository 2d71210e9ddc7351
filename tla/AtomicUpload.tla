---------------------------- MODULE AtomicUpload ----------------------------
(***************************************************************************)
(* What upload_begin ... upload_finish promise: "The final destination is  *)
(* unchanged until upload_finish succeeds", which then "atomically         *)
(* replaces" it with the whole announced file.  An upload is published at  *)
(* most once, never after it was given up, and without overwrite only into *)
(* a free place.  Other programs may put there what they like.             *)
(***************************************************************************)
CONSTANTS Uploads, Overwrites, Foreign

VARIABLES
  phase, \* of an upload: "new", "open", "done" or "gone"
  dest   \* what is at the destination: an upload's file, or one of Foreign

vars == <<phase, dest>>

Init == phase = [u \in Uploads |-> "new"] /\ dest \in Foreign

Move(u, from, to) == phase[u] = from /\ phase' = [phase EXCEPT ![u] = to]

Begin(u) == Move(u, "new", "open") /\ UNCHANGED dest

Publish(u) ==
  /\ Move(u, "open", "done")
  /\ u \in Overwrites \/ dest = "absent"
  /\ dest' = u

GiveUp(u) == Move(u, "open", "gone") /\ UNCHANGED dest

Others == dest' \in Foreign /\ UNCHANGED phase

Next == Others \/ \E u \in Uploads : Begin(u) \/ Publish(u) \/ GiveUp(u)

Spec == Init /\ [][Next]_vars
=============================================================================
