----------------------------- MODULE TreeTools -----------------------------
(***************************************************************************)
(* move_path, copy_path, remove_path and make_directory of filesystem.py.  *)
(* A copy is built under the staging name and exchanged with the           *)
(* destination; a move exchanges the two names and removes what it finds   *)
(* under the source's name afterwards.                                     *)
(***************************************************************************)
EXTENDS FileTools

\* Look at the destination before it is exchanged.
SeeDst == seen' = [id |-> entry["dst"], ver |-> 0] /\ UNCHANGED <<from, ours>>

\* _remove_tree_at(n) goes through, or fails, perhaps with some of the
\* children gone already.
BreaksOff(n) ==
  /\ "remove_error" \in Faults
  /\ entry[n] # None
  /\ \E ks \in SUBSET obj[entry[n]].kids :
       /\ obj' = [obj EXCEPT ![entry[n]].kids = @ \ ks]
       /\ torn' = IF ks = {} THEN torn ELSE torn \cup {entry[n]}

Removes(n) ==
  /\ entry[n] # None
  /\ entry' = [entry EXCEPT ![n] = None]
  /\ unseen' = unseen \cup Loses(entry[n])
  /\ UNCHANGED kept

NothingElse == UNCHANGED <<obj, argVars, seenVars, torn, slipped>>

-----------------------------------------------------------------------------
(* copy_path.                                                              *)

Copy(over) == Begin("copy", over, NoHash, "c_look")

CopyAllowed == entry["src"] # None /\ (entry["dst"] = None \/ call.over)

CopyLook == CopyAllowed /\ Step("c_look", "c_stage") /\ UNCHANGED <<fsVars, seenVars>>
CopyRefused == Fails({"c_look"}) /\ ~CopyAllowed

\* _copy_tree_at, with what it finds under the source's name by then.
CopyStage ==
  /\ Step("c_stage", "c_commit")
  /\ entry["src"] # None
  /\ LET s == obj[entry["src"]] IN StageObject(Object(s.kind, s.text, s.kids))
CopyGone == Fails({"c_stage"}) /\ entry["src"] = None

\* The second look at the destination decides how to commit.
CopySees(p, q) ==
  /\ pc = p
  /\ entry["dst"] # None /\ call.over
  /\ Goto(q) /\ SeeDst
  /\ UNCHANGED <<fsVars, argVars, histVars>>
CopyFresh == entry["dst"] = None /\ Step("c_commit", "c_new") /\ UNCHANGED <<fsVars, seenVars>>
CopyNotOver(p) == Fails(p) /\ entry["dst"] # None /\ ~call.over

CopyNew == PublishNew("c_new")
CopyAppeared == ~Vacant /\ Step("c_new", "c_again") /\ UNCHANGED <<fsVars, seenVars>>

\* The destination is gone again, at the third look or at the exchange.
CopyVanished == Fails({"c_again", "c_over"}) /\ entry["dst"] = None

\* Mutant of CopyExchange: the old destination is removed first.
CopyRemovesFirst ==
  /\ Step("c_over", "c_new")
  /\ entry["dst"] # None
  /\ entry' = [entry EXCEPT !["dst"] = None]
  /\ UNCHANGED <<obj, kept, seenVars>>

CopyExchange ==
  /\ Step("c_over", "c_verify")
  /\ entry["dst"] # None
  /\ entry' = Swapped(entry, "tmp", "dst")
  /\ UNCHANGED <<obj, kept, seenVars>>

CopyVerify ==
  /\ Step("c_verify", IF entry["tmp"] = seen.id THEN "c_drop" ELSE "c_back")
  /\ UNCHANGED <<fsVars, seenVars>>

\* The old destination is removed, and when that fails it is put back in
\* whatever state it is, or left under the staging name.
CopyDrop == pc = "c_drop" /\ Removes("tmp") /\ Publish
CopyDropFails ==
  /\ pc = "c_drop" /\ BreaksOff("tmp")
  /\ IF entry["dst"] = ours
       THEN Goto("c_restore") /\ UNCHANGED <<entry, kept, unseen, theirs>>
       ELSE PreserveStaging /\ End("failed")
  /\ UNCHANGED <<argVars, seenVars, slipped>>

\* The exchange back raises: committed is still set, the finally clause idle.
CopyBackRaises ==
  /\ pc \in {"c_undo", "c_restore"} /\ entry["dst"] = None
  /\ PreserveStaging /\ End("failed") /\ NothingElse

CopyNext ==
  \/ \E over \in BOOLEAN : Copy(over)
  \/ CopyLook \/ CopyRefused \/ CopyStage \/ CopyGone
  \/ CopySees("c_commit", "c_over") \/ CopyFresh \/ CopyNotOver({"c_commit", "c_again"})
  \/ CopyNew \/ CopyAppeared \/ CopySees("c_again", "c_over") \/ CopyVanished
  \/ CopyExchange \/ CopyVerify
  \/ RollbackLooks("c_back", "c_undo") \/ KeepUnknown({"c_back"})
  \/ CopyDrop \/ CopyDropFails
  \/ RollBack({"c_undo", "c_restore"}) \/ CopyBackRaises
  \/ Breaks({"c_look", "c_stage", "c_commit", "c_new", "c_again", "c_over"})

-----------------------------------------------------------------------------
(* move_path.                                                              *)

Move(over) == Begin("move", over, NoHash, "m_look")

MoveLook ==
  /\ Step("m_look", "m_dst")
  /\ entry["src"] # None
  /\ from' = entry["src"]
  /\ UNCHANGED <<fsVars, seen, ours>>
MoveMissing == Fails({"m_look", "m_new"}) /\ entry["src"] = None

\* The destination may be replaced: same kind, and no children.
Replaceable ==
  /\ call.over
  /\ IsDir("dst") <=> obj[from].kind = "dir"
  /\ IsEmpty("dst")

MoveFresh == entry["dst"] = None /\ Step("m_dst", "m_new") /\ UNCHANGED <<fsVars, seenVars>>
MoveSees ==
  /\ pc \in {"m_dst", "m_again"}
  /\ entry["dst"] # None /\ Replaceable
  /\ Goto("m_over") /\ SeeDst
  /\ UNCHANGED <<fsVars, argVars, histVars>>
MoveRefused == Fails({"m_dst", "m_again"}) /\ entry["dst"] # None /\ ~Replaceable
MoveChanged == Fails({"m_again"}) /\ entry["dst"] = None

MoveNew ==
  /\ pc = "m_new" /\ entry["src"] # None /\ Vacant
  /\ entry' = [entry EXCEPT !["dst"] = entry["src"], !["src"] = None]
  /\ unseen' = unseen \cup Loses(entry["dst"])
  /\ Publish /\ UNCHANGED kept
MoveAppeared ==
  /\ entry["src"] # None /\ ~Vacant
  /\ Step("m_new", "m_again") /\ UNCHANGED <<fsVars, seenVars>>

MoveExchange ==
  /\ Step("m_over", "m_verify")
  /\ entry["src"] # None /\ entry["dst"] # None
  /\ entry' = Swapped(entry, "src", "dst")
  /\ UNCHANGED <<obj, kept, seenVars>>
MoveVanished == Fails({"m_over"}) /\ (entry["src"] = None \/ entry["dst"] = None)

MoveVerify ==
  /\ Step("m_verify", IF entry["src"] = seen.id THEN "m_drop" ELSE "m_back")
  /\ UNCHANGED <<fsVars, seenVars>>

MoveDrop == pc = "m_drop" /\ Removes("src") /\ Publish
MoveDropFails ==
  /\ pc = "m_drop"
  /\ \/ BreaksOff("src")
     \/ entry["src"] = None /\ UNCHANGED <<obj, torn>>
  /\ IF entry["dst"] = from /\ entry["src"] = seen.id
       THEN Goto("m_restore") /\ UNCHANGED <<theirs, entry, kept>>
       ELSE End("failed") /\ UNCHANGED <<entry, kept>>
  /\ UNCHANGED <<argVars, seenVars, unseen, slipped>>

\* The rollbacks look at both names and exchange them in a second step.
MoveBack ==
  /\ entry["dst"] = from /\ entry["src"] # None
  /\ Step("m_back", "m_undo") /\ UNCHANGED <<fsVars, seenVars>>
MoveNotBack == Fails({"m_back"}) /\ ~(entry["dst"] = from /\ entry["src"] # None)
MoveUndo ==
  /\ pc \in {"m_undo", "m_restore"}
  /\ entry' = IF entry["src"] # None /\ entry["dst"] # None
                THEN Swapped(entry, "src", "dst") ELSE entry
  /\ End("failed")
  /\ UNCHANGED <<kept, unseen>> /\ NothingElse

MoveNext ==
  \/ \E over \in BOOLEAN : Move(over)
  \/ MoveLook \/ MoveMissing \/ MoveFresh \/ MoveSees \/ MoveRefused \/ MoveChanged
  \/ MoveNew \/ MoveAppeared \/ MoveExchange \/ MoveVanished \/ MoveVerify
  \/ MoveDrop \/ MoveDropFails \/ MoveBack \/ MoveNotBack \/ MoveUndo

-----------------------------------------------------------------------------
(* remove_path and make_directory.                                         *)

Remove(recursive) == Begin("remove", recursive, NoHash, "d_look")

RemoveLook ==
  /\ pc = "d_look" /\ entry["dst"] # None
  /\ Goto(IF ~IsDir("dst") THEN "d_file" ELSE IF call.over THEN "d_tree" ELSE "d_dir")
  /\ UNCHANGED <<fsVars, argVars, seenVars, histVars>>

\* unlink, rmdir or _remove_tree_at, whichever the look called for.
Removable == CASE pc = "d_file" -> ~IsDir("dst")
               [] pc = "d_dir"  -> IsDir("dst") /\ IsEmpty("dst")
               [] OTHER         -> TRUE

RemoveDrop ==
  pc \in {"d_file", "d_dir", "d_tree"} /\ Removable /\ Removes("dst") /\ Publish
RemoveFails == Fails({"d_look", "d_file", "d_dir", "d_tree"}) /\ (entry["dst"] = None \/ ~Removable)
RemoveBreaks ==
  /\ pc = "d_tree" /\ BreaksOff("dst")
  /\ End("broken") /\ UNCHANGED <<entry, kept, unseen, argVars, seenVars, slipped>>

\* mkdir, or with exist_ok whatever directory there is.
MakeDirectory(exist_ok) ==
  /\ entry["dst"] # None => exist_ok /\ IsDir("dst")
  /\ pc = "idle" /\ calls < MaxCalls /\ calls' = calls + 1
  /\ call' = [NoCall EXCEPT !.op = "mkdir"]
  /\ IF entry["dst"] = None
       THEN /\ obj' = Append(obj, Object("dir", "none", {}))
            /\ entry' = [entry EXCEPT !["dst"] = Len(obj) + 1]
       ELSE UNCHANGED <<obj, entry>>
  /\ End("ok") /\ UNCHANGED <<kept, others, seenVars, unseen, torn, slipped>>

RemoveNext ==
  \/ \E r \in BOOLEAN : Remove(r) \/ MakeDirectory(r)
  \/ RemoveLook \/ RemoveDrop \/ RemoveFails \/ RemoveBreaks

-----------------------------------------------------------------------------
(* artifact_bundle of agent_ops.py: an archive of the source, published    *)
(* where nothing is.                                                       *)

Bundle == Begin("bundle", FALSE, NoHash, "b_look")

\* _collect_bundle_entries and the budgets, which may refuse any source.
Collected == entry["src"] # None

BundleLook   == Collected /\ Step("b_look", "b_vacant") /\ UNCHANGED <<fsVars, seenVars>>
BundleVacant == Vacant /\ Step("b_vacant", "b_stage") /\ UNCHANGED <<fsVars, seenVars>>

\* The archive is written under the staging name; its sources are opened anew.
BundleStage ==
  /\ Collected /\ Step("b_stage", "b_commit")
  /\ StageObject(Object("file", "new", {}))

BundleNew == PublishNew("b_commit")

BundleFails ==
  \/ Fails({"b_look", "b_stage"})
  \/ Fails({"b_vacant", "b_commit"}) /\ ~Vacant
  \/ Breaks({"b_commit"})

BundleNext == Bundle \/ BundleLook \/ BundleVacant \/ BundleStage \/ BundleNew \/ BundleFails

-----------------------------------------------------------------------------
ToolsNext == WriteNext \/ CopyNext \/ MoveNext \/ RemoveNext \/ BundleNext \/ Crash

-----------------------------------------------------------------------------
(* Properties.                                                             *)

\* A write with expected_sha256 removes nothing but an object with that
\* content, however other programs race with it (write_text_file, from its
\* exchange to its unlink).
GuardHolds ==
  pc = "w_drop" /\ call.want # NoHash => obj[entry["tmp"]].text = call.want

\* No call of write_text_file, copy_path or move_path destroys an object of
\* somebody else that it has not looked at, except where it is told to
\* overwrite whatever is there ("Never unlink an object belonging to an
\* unknown concurrent writer"), unless a change slips through a window
\* between a look and the exchange it is for.
UnseenSurvives == ~slipped => unseen = {}

\* When write_text_file, copy_path or artifact_bundle fails, the destination is what it would
\* be without the call, although the call may have exchanged it and back;
\* after an error past the commit or a crash it may also be the new object.
FailedCallKeepsDestination ==
  /\ call.op \in {"write", "copy", "bundle"} /\ pc = "idle" /\ ~slipped
  => \/ entry["dst"] = theirs["dst"]
     \/ entry["dst"] = ours /\ res \in {"ok", "broken", "crashed"}

\* What the comment on the commit of copy_path says: "A failed copy can
\* therefore never destroy the previous destination."
FailedCopyKeepsOld == call.op = "copy" /\ res = "failed" => entry["dst"] \notin torn

\* A crash loses nothing that was there without the call: it is under its
\* name, under the other name of a move, or under a staging name.
CrashLosesNothing ==
  res = "crashed" =>
    \A n \in Public : theirs[n] \in {None, entry["src"], entry["dst"]} \cup kept

=============================================================================
