----------------------------- MODULE Snapshots -----------------------------
(***************************************************************************)
(* snapshot_create, snapshot_restore and snapshot_delete of agent_ops.py   *)
(* beside the file tools, whose names and other programs they share.  A    *)
(* snapshot of both names is built under a hidden name and published by    *)
(* one rename; it is restored path by path.                                *)
(***************************************************************************)
EXTENDS TreeTools

VARIABLES
  stage,   \* the copies snapshot_create has made so far
  snap,    \* the published snapshot: copies per path, or Absent
  left,    \* paths the call in progress has yet to treat
  copies   \* history: the objects snapshot_restore staged

snapVars == <<stage, snap, left, copies>>
vars     == <<fileVars, snapVars>>

Absent == [p \in {} |-> None]
Paths  == <<"src", "dst">>

\* There may be a snapshot from earlier, taken of what is now the source.
SnapInit ==
  /\ Init
  /\ stage = Absent /\ left = <<>> /\ copies = {}
  /\ snap \in {Absent, [p \in Public |-> obj[1]]}

With(s, p, o) == [q \in DOMAIN s \cup {p} |-> IF q = p THEN o ELSE s[q]]

-----------------------------------------------------------------------------
(* snapshot_create: nothing of it is visible before the rename.            *)

Create ==
  /\ Begin("snapshot", FALSE, NoHash, "s_copy")
  /\ left' = Paths /\ stage' = Absent /\ UNCHANGED <<snap, copies>>

\* Neither missing nor a link.
Copyable(p) == Is(p, "file") \/ Is(p, "dir")

\* A path is copied at one moment, each at its own: the copy of one that is
\* written or grows under it may be any mixture, which is left out.
CreateCopy ==
  /\ Step("s_copy", IF Len(left) = 1 THEN "s_publish" ELSE "s_copy")
  /\ Copyable(Head(left))
  /\ stage' = With(stage, Head(left), obj[entry[Head(left)]])
  /\ left' = Tail(left)
  /\ UNCHANGED <<fsVars, seenVars, snap, copies>>

\* A missing path, a link, or a broken read; or one of the two budgets, which
\* may refuse any path.
CreateFails == Fails({"s_copy"}) /\ stage' = Absent /\ UNCHANGED <<snap, left, copies>>

CreatePublish ==
  /\ pc = "s_publish"
  /\ snap' = stage /\ stage' = Absent
  /\ UNCHANGED <<fsVars, argVars, seenVars, unseen, torn, slipped, left, copies>>
  /\ End("ok")

\* snapshot_delete goes through, or breaks off with some of the data gone: of
\* a directory, some of its children.
Delete ==
  /\ pc = "idle" /\ snap # Absent
  /\ \E ps \in SUBSET DOMAIN snap :
       /\ ps # {} => "remove_error" \in Faults
       /\ \E ks \in SUBSET Kids :
            snap' = [p \in ps |-> [snap[p] EXCEPT !.kids = @ \ ks]]
  /\ UNCHANGED <<fileVars, stage, left, copies>>

-----------------------------------------------------------------------------
(* snapshot_restore.                                                       *)

Restore ==
  /\ snap # Absent
  /\ Begin("restore", TRUE, NoHash, "r_stage")
  /\ left' = Paths /\ copies' = {} /\ UNCHANGED <<stage, snap>>

RestoreStage ==
  /\ Step("r_stage", "r_look")
  /\ Head(left) \in DOMAIN snap
  /\ StageObject(snap[Head(left)])
  /\ copies' = copies \cup {ours'}
  /\ UNCHANGED <<stage, snap, left>>

RestoreLook ==
  /\ pc = "r_look" /\ Step("r_look", IF entry[Head(left)] = None THEN "r_new" ELSE "r_over")
  /\ UNCHANGED <<fsVars, seenVars, snapVars>>

RestoreMissing ==
  /\ pc = "r_stage" /\ Head(left) \notin DOMAIN snap
  /\ Fails({"r_stage"}) /\ UNCHANGED snapVars

\* On to the next path: this one is restored for good; or an error behind
\* the commit.
NextPath ==
  /\ left' = Tail(left)
  /\ \/ Len(left) = 1 /\ End("ok")
     \/ Len(left) > 1 /\ Goto("r_stage") /\ theirs' = entry'
     \/ "io_error" \in Faults /\ End("broken")
  /\ UNCHANGED <<obj, argVars, seenVars, torn, slipped, stage, snap, copies>>

RestoreNew ==
  /\ pc = "r_new" /\ entry[Head(left)] = None
  /\ entry' = [entry EXCEPT ![Head(left)] = ours, !["tmp"] = None]
  /\ UNCHANGED <<kept, unseen>>
  /\ NextPath
RestoreAppeared ==
  /\ pc = "r_new" /\ entry[Head(left)] # None /\ Fails({"r_new"}) /\ UNCHANGED snapVars

\* Mutant of RestoreExchange: the old object is removed first.
RestoreRemovesFirst ==
  /\ Step("r_over", "r_new")
  /\ entry' = [entry EXCEPT ![Head(left)] = None]
  /\ UNCHANGED <<obj, kept, seenVars, snapVars>>

RestoreExchange ==
  /\ Step("r_over", "r_drop")
  /\ entry[Head(left)] # None
  /\ entry' = Swapped(entry, "tmp", Head(left))
  /\ UNCHANGED <<obj, kept, seenVars, snapVars>>
RestoreVanished ==
  /\ pc = "r_over" /\ entry[Head(left)] = None /\ Fails({"r_over"}) /\ UNCHANGED snapVars

\* _remove_at the displaced object; when that fails it is tried again, and what
\* is left after that stays under the staging name.
RestoreDrop == pc = "r_drop" /\ DiscardStaging /\ NextPath
RestoreDropFails ==
  /\ pc = "r_drop" /\ BreaksOff("tmp")
  /\ PreserveStaging /\ End("broken")
  /\ UNCHANGED <<argVars, seenVars, slipped, snapVars>>

\* Staging a copy, a look or a rename fails, and the staged copy is removed.
RestoreBreaks == Breaks({"r_stage", "r_look", "r_new", "r_over"}) /\ UNCHANGED snapVars

SnapshotsNext ==
  \/ Create \/ CreateCopy \/ CreateFails \/ CreatePublish \/ Delete
  \/ Restore \/ RestoreStage \/ RestoreMissing \/ RestoreLook
  \/ RestoreNew \/ RestoreAppeared \/ RestoreExchange \/ RestoreVanished \/ RestoreDrop
  \/ RestoreDropFails \/ RestoreBreaks

SnapNext == SnapshotsNext \/ ((ToolsNext \/ OthersNext) /\ UNCHANGED snapVars)

SnapSpec == SnapInit /\ [][SnapNext]_vars

-----------------------------------------------------------------------------
(* Properties.                                                             *)

Copy1 == [kind : {"none", "file", "dir", "link"}, text : Texts, ver : Nat, kids : SUBSET Kids]
Ids   == 0..Len(obj)

\* The steps of each tool.
Steps(op) ==
  CASE op = "write"    -> {"p_read", "w_look", "w_hash", "w_stage", "w_commit", "w_verify",
                           "w_back", "w_undo", "w_drop"}
    [] op = "copy"     -> {"c_look", "c_stage", "c_commit", "c_new", "c_again", "c_over",
                           "c_verify", "c_back", "c_undo", "c_drop", "c_restore"}
    [] op = "move"     -> {"m_look", "m_dst", "m_new", "m_again", "m_over", "m_verify", "m_back",
                           "m_undo", "m_drop", "m_restore"}
    [] op = "remove"   -> {"d_look", "d_file", "d_dir", "d_tree"}
    [] op = "bundle"   -> {"b_look", "b_vacant", "b_stage", "b_commit"}
    [] op = "snapshot" -> {"s_copy", "s_publish"}
    [] op = "restore"  -> {"r_stage", "r_look", "r_new", "r_over", "r_drop"}
    [] OTHER           -> {}

TypeOK ==
  /\ obj \in Seq(Copy1)
  /\ entry \in [Names -> Ids] /\ theirs \in [Names -> Ids]
  /\ kept \subseteq Ids \ {None} /\ copies \subseteq Ids
  /\ call \in Calls /\ pc \in Steps(call.op) \cup {"idle"}
  /\ seen \in [id : Ids, ver : Nat] /\ from \in Ids /\ ours \in Ids
  /\ res \in {"none", "ok", "failed", "broken", "crashed"}
  /\ calls \in 0..MaxCalls /\ others \in 0..MaxOthers
  /\ unseen \subseteq Ids /\ torn \subseteq Ids /\ slipped \in BOOLEAN
  /\ left \in Seq(Public)
  /\ \A s \in {stage, snap} : DOMAIN s \subseteq Public /\ s \in [DOMAIN s -> Copy1]

\* At every step of snapshot_restore, whatever fails, each path stands for what
\* it would without the call or for a whole copy (per_path_atomic).
PerPathAtomic ==
  call.op = "restore" => \A p \in Public : entry[p] \in {theirs[p]} \cup copies

=============================================================================
