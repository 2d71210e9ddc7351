----------------------------- MODULE FileTools -----------------------------
(***************************************************************************)
(* The tools of filesystem.py that change files: write_text_file,          *)
(* move_path, copy_path, remove_path and make_directory, apply_line_patch  *)
(* of agent_ops.py on top of the first, and the two renames of             *)
(* atomic_fs.py.  A handler never awaits, so at most one is in progress;   *)
(* but it works with path names, and between two of its system calls other *)
(* programs create, replace, edit and remove what the names stand for.     *)
(*                                                                         *)
(* The names are a source, a destination and the hidden staging name of    *)
(* the handler in progress, which other programs leave alone.  An object   *)
(* has an identity (device and inode), a kind, a content, a version        *)
(* (mtime), and, when it is a directory, children.                         *)
(***************************************************************************)
EXTENDS Integers, Sequences

CONSTANTS
  Kids,      \* names a directory's children can have
  MaxCalls,  \* bound: calls of a tool
  MaxOthers, \* bound: steps of other programs
  Faults     \* what may happen, a subset of AllFaults

(***************************************************************************)
(* io_error     a read, write, fsync or unlink fails                       *)
(* remove_error the removal of a tree breaks off half-way                  *)
(* crash        the server dies                                            *)
(***************************************************************************)
AllFaults == {"io_error", "remove_error", "crash"}

ASSUME FileAssumption ==
  MaxCalls \in Nat /\ MaxOthers \in Nat /\ Faults \subseteq AllFaults

VARIABLES
  obj,    \* the objects that ever existed; an identity is an index
  entry,  \* the object a name stands for, or None
  kept,   \* objects left under the hidden names of earlier calls
  pc,     \* the next step of the handler in progress, or "idle"
  call,   \* its tool and arguments
  seen,   \* the destination it looked at: identity and version
  from,   \* move_path: the source it looked at
  ours,   \* the object it staged
  res,    \* how the last call ended
  calls, others, \* calls of tools and steps of other programs so far
  theirs, \* history: what a name stands for without the call in progress
  unseen, \* history: what the call destroyed without having looked at it
  torn,   \* history: objects a broken removal left incomplete
  slipped \* history: another program acted in a window, see Exposed

fsVars   == <<obj, entry, kept>>
argVars  == <<call, calls, others>>
seenVars == <<seen, from, ours>>
histVars == <<theirs, unseen, torn, slipped>>
fileVars == <<fsVars, pc, res, argVars, seenVars, histVars>>

-----------------------------------------------------------------------------
None   == 0
Public == {"src", "dst"}
Names  == Public \cup {"tmp"}
NoHash    == "any" \* no expected_sha256
Texts  == {"old", "alien", "new", "none"}

NoCall == [op |-> "none", over |-> FALSE, want |-> NoHash]
Calls  == [op : {"none", "write", "move", "copy", "remove", "mkdir", "bundle", "snapshot", "restore"},
           over : BOOLEAN, want : {NoHash, "old"}]

Object(k, t, ks) == [kind |-> k, text |-> t, ver |-> 0, kids |-> ks]

Is(n, k)   == entry[n] # None /\ obj[entry[n]].kind = k
IsDir(n)   == Is(n, "dir")
IsEmpty(n) == IsDir(n) => obj[entry[n]].kids = {}

Init ==
  /\ \E s \in {"file", "dir"}, d \in {"none", "file", "dir", "link"}, ks \in SUBSET Kids :
       /\ d # "dir" => ks = {}
       /\ obj = <<Object(s, "old", {}), Object(d, "old", ks)>>
       /\ entry = [n \in Names |-> CASE n = "src" -> 1
                                     [] n = "dst" /\ d # "none" -> 2
                                     [] OTHER -> None]
  /\ kept = {}
  /\ pc = "idle" /\ call = NoCall /\ res = "none"
  /\ seen = [id |-> None, ver |-> 0] /\ from = None /\ ours = None
  /\ calls = 0 /\ others = 0
  /\ theirs = entry /\ unseen = {} /\ torn = {} /\ slipped = FALSE

-----------------------------------------------------------------------------
(* How a handler goes on.                                                  *)

Goto(p) == pc' = p /\ UNCHANGED res

End(r) == pc' = "idle" /\ res' = r /\ UNCHANGED theirs

\* rename_exchange(a, b) when both exist.
Swapped(e, a, b) == [e EXCEPT ![a] = e[b], ![b] = e[a]]

\* A call may destroy what it staged, unless somebody changed it, and the destination it is told to
\* overwrite once it has looked at it.  os.replace looks at nothing and is
\* told to overwrite whatever there is; so are remove_path and snapshot_restore.
Authorized(o) ==
  \/ o = None
  \/ o = ours /\ obj[o].ver = 0
  \/ o = seen.id /\ (call.op = "write" => obj[o].ver = seen.ver)
  \/ call.op \in {"remove", "restore"}
  \/ call.op = "write" /\ call.over /\ call.want = NoHash

\* What the call loses by destroying o: unseen objects, and the children of
\* a directory that move_path believes to be empty.
Loses(o) == IF o # None /\ (~Authorized(o) \/ (call.op = "move" /\ obj[o].kids # {}))
            THEN {o} ELSE {}

\* The finally clause of write_text_file and copy_path: the staging name goes.
DiscardStaging ==
  /\ entry' = [entry EXCEPT !["tmp"] = None]
  /\ unseen' = unseen \cup Loses(entry["tmp"])
  /\ UNCHANGED kept

\* preserve_tmp and preserve_staging: what is there stays for the operator.
PreserveStaging ==
  /\ entry' = [entry EXCEPT !["tmp"] = None]
  /\ kept' = kept \cup ({entry["tmp"]} \ {None})
  /\ UNCHANGED unseen

\* An exception before anything was exchanged.
Fails(p) ==
  /\ pc \in p
  /\ DiscardStaging
  /\ End("failed")
  /\ UNCHANGED <<obj, argVars, seenVars, torn, slipped>>

Breaks(p) == Fails(p) /\ "io_error" \in Faults

Step(p, q) == pc = p /\ Goto(q) /\ UNCHANGED <<argVars, histVars>>

\* A handler starts; arguments that are refused at once change nothing.
Begin(op, over, want, p) ==
  /\ pc = "idle" /\ calls < MaxCalls
  /\ calls' = calls + 1
  /\ call' = [op |-> op, over |-> over, want |-> want]
  /\ seen' = [id |-> None, ver |-> 0] /\ from' = None /\ ours' = None
  /\ theirs' = entry /\ unseen' = {} /\ torn' = {} /\ slipped' = FALSE
  /\ pc' = p /\ res' = "none"
  /\ UNCHANGED <<fsVars, others>>

-----------------------------------------------------------------------------
(* write_text_file.  With expected_sha256 it exchanges the new file with   *)
(* the old one and verifies what it got.                                   *)

Write(over, want) == Begin("write", over, want, "w_look")

\* apply_line_patch: the file it patches is the one it is told to.
Patch == Begin("write", TRUE, "old", "p_read")
PatchRead ==
  /\ Step("p_read", "w_look")
  /\ Is("dst", "file") /\ obj[entry["dst"]].text = call.want
  /\ UNCHANGED <<fsVars, seenVars>>
PatchChanged ==
  /\ ~(Is("dst", "file") /\ obj[entry["dst"]].text = call.want)
  /\ Fails({"p_read"})

Writable == IF entry["dst"] = None THEN call.want = NoHash ELSE Is("dst", "file") /\ call.over

WriteLook ==
  /\ Step("w_look", IF call.want = NoHash THEN "w_stage" ELSE "w_hash")
  /\ Writable
  /\ UNCHANGED <<fsVars, seenVars>>
WriteRefused == Fails({"w_look"}) /\ ~Writable

Expected == Is("dst", "file") /\ obj[entry["dst"]].text = call.want

WriteHash ==
  /\ Step("w_hash", "w_stage")
  /\ Expected
  /\ seen' = [id |-> entry["dst"], ver |-> obj[entry["dst"]].ver]
  /\ UNCHANGED <<fsVars, from, ours>>
WriteMismatch == Fails({"w_hash"}) /\ ~Expected

\* Create, write and fsync the file under the staging name.
StageObject(o) ==
  /\ obj' = Append(obj, o)
  /\ ours' = Len(obj) + 1
  /\ entry' = [entry EXCEPT !["tmp"] = Len(obj) + 1]
  /\ UNCHANGED <<kept, seen, from>>

WriteStage ==
  /\ Step("w_stage", "w_commit")
  /\ StageObject(Object("file", "new", {}))

WriteExchange ==
  /\ call.want # NoHash
  /\ Step("w_commit", "w_verify")
  /\ entry["dst"] # None
  /\ entry' = Swapped(entry, "tmp", "dst")
  /\ UNCHANGED <<obj, kept, seenVars>>
WriteVanished == Fails({"w_commit"}) /\ call.want # NoHash /\ entry["dst"] = None

\* Mutant of Displaced: the object is believed to be the one hashed before.
DisplacedTrusted == TRUE

\* Is the object the exchange brought the one whose digest was expected?
Displaced ==
  LET o == entry["tmp"] IN
  /\ o = seen.id /\ obj[o].ver = seen.ver
  /\ obj[o].kind = "file" /\ obj[o].text = call.want

WriteVerify ==
  /\ \/ Step("w_verify", "w_drop") /\ Displaced
     \/ Step("w_verify", "w_back") /\ (~Displaced \/ "io_error" \in Faults)
  /\ UNCHANGED <<fsVars, seenVars>>

\* Mutant of RollbackLooks: it does not look, and rolls back whatever is there.
RollbackBlindly(p, q) == Step(p, q) /\ UNCHANGED <<fsVars, seenVars>>

\* _rollback_exchange_if_ours looks before it exchanges, in two steps.
RollbackLooks(p, q) ==
  /\ Step(p, q)
  /\ entry["dst"] = ours
  /\ UNCHANGED <<fsVars, seenVars>>

\* It does not roll back, and the displaced object is preserved.
KeepUnknown(p) ==
  /\ pc \in p
  /\ entry["dst"] # ours
  /\ PreserveStaging
  /\ End("failed")
  /\ UNCHANGED <<obj, argVars, seenVars, torn, slipped>>

\* Mutant of RollBack: the staging name is cleaned up without an exchange.
RollBackCleansUp(p) == Fails(p) /\ entry["dst"] # None

\* The exchange back, then the finally clause.  When the destination is gone
\* the exchange raises; write_text_file then removes what it has displaced.
RollBack(p) ==
  /\ pc \in p /\ entry["dst"] # None
  /\ entry' = [entry EXCEPT !["dst"] = entry["tmp"], !["tmp"] = None]
  /\ unseen' = unseen \cup Loses(entry["dst"]) /\ UNCHANGED kept
  /\ End("failed")
  /\ UNCHANGED <<obj, argVars, seenVars, torn, slipped>>
RollBackRaises == Fails({"w_undo"}) /\ entry["dst"] = None

\* Succeeds, or fails with the new file in place.
Publish ==
  /\ \/ End("ok")
     \/ "io_error" \in Faults /\ End("broken")
  /\ UNCHANGED <<obj, argVars, seenVars, torn, slipped>>

WriteDrop == pc = "w_drop" /\ DiscardStaging /\ Publish

\* os.replace: the old file, if any, is gone.
WriteReplace ==
  /\ pc = "w_commit" /\ call.want = NoHash /\ call.over /\ ~IsDir("dst")
  /\ entry' = [entry EXCEPT !["dst"] = ours, !["tmp"] = None]
  /\ Publish /\ UNCHANGED <<kept, unseen>>
WriteOntoDirectory == Fails({"w_commit"}) /\ call.want = NoHash /\ call.over /\ IsDir("dst")

\* RENAME_NOREPLACE succeeds.
Vacant == entry["dst"] = None

\* The staged object takes the destination's name.
PublishNew(p) ==
  /\ pc = p /\ Vacant
  /\ entry' = [entry EXCEPT !["dst"] = ours, !["tmp"] = None]
  /\ unseen' = unseen \cup Loses(entry["dst"])
  /\ Publish /\ UNCHANGED kept

WriteNew == PublishNew("w_commit") /\ call.want = NoHash /\ ~call.over
WriteAppeared == Fails({"w_commit"}) /\ call.want = NoHash /\ ~call.over /\ ~Vacant

WriteNext ==
  \/ \E over \in BOOLEAN, want \in {NoHash, "old"} : Write(over, want)
  \/ Patch \/ PatchRead \/ PatchChanged
  \/ WriteLook \/ WriteRefused \/ WriteHash \/ WriteMismatch \/ WriteStage
  \/ WriteExchange \/ WriteVanished \/ WriteVerify
  \/ RollbackLooks("w_back", "w_undo") \/ KeepUnknown({"w_back"})
  \/ RollBack({"w_undo"}) \/ RollBackRaises
  \/ WriteDrop \/ WriteReplace \/ WriteOntoDirectory \/ WriteNew \/ WriteAppeared
  \/ Breaks({"w_look", "w_hash", "w_stage", "w_commit"})

-----------------------------------------------------------------------------
(* Other programs.                                                         *)

\* Windows in which the code does not notice what they do with a name:
\* between the look of a rollback and its exchange, and at the source's name
\* after the exchange of move_path.
Exposed(n) ==
  \/ pc \in {"w_undo", "c_undo", "c_restore", "m_undo", "m_restore"}
  \/ call.op = "move" /\ pc = "m_drop" /\ n = "src"

\* And with the object of a name: with the published object while it may be
\* taken back, and with the directory move_path is about to replace.
ExposedInside(n) ==
  \/ entry[n] = ours /\ pc \in {"w_verify", "w_back", "c_verify", "c_back", "c_drop"}
  \/ call.op = "move" /\ IsDir(n) /\ pc \in {"m_over", "m_verify", "m_drop"}

Other(n) ==
  /\ others < MaxOthers
  /\ others' = others + 1
  /\ theirs' = [m \in Names |->
                CASE m = n -> entry'[n]
                  [] m # n /\ theirs[m] = entry[n] /\ entry'[n] # entry[n] -> None
                  [] OTHER -> theirs[m]]
  /\ slipped' = (slipped \/ Exposed(n) \/ (entry'[n] = entry[n] /\ ExposedInside(n)))
  /\ UNCHANGED <<pc, call, calls, res, seenVars, kept, unseen, torn>>

\* A new object takes the name, whatever it stood for.
Put(n, o) ==
  /\ obj' = Append(obj, o)
  /\ entry' = [entry EXCEPT ![n] = Len(obj) + 1]
  /\ Other(n)

Drop(n) ==
  /\ entry[n] # None
  /\ entry' = [entry EXCEPT ![n] = None] /\ UNCHANGED obj
  /\ Other(n)

\* An object is changed in place.
Changed(o, t, ks) == [kind |-> o.kind, text |-> t, ver |-> o.ver + 1, kids |-> ks]

\* A file is edited in place, a directory gets a child.
Edit(n) ==
  /\ Is(n, "file")
  /\ obj' = [obj EXCEPT ![entry[n]] = Changed(@, "alien", @.kids)]
  /\ UNCHANGED entry
  /\ Other(n)

Fill(n) ==
  /\ IsDir(n)
  /\ \E k \in Kids :
       obj' = [obj EXCEPT ![entry[n]] = Changed(@, @.text, @.kids \cup {k})]
  /\ UNCHANGED entry
  /\ Other(n)

OthersNext ==
  \E n \in Public :
    \/ \E t \in {"old", "alien"} : Put(n, Object("file", t, {}))
    \/ Put(n, Object("dir", "none", {}))
    \/ Drop(n) \/ Edit(n) \/ Fill(n)

\* The server dies; the staging name stays, and no handler is in progress.
Crash ==
  /\ "crash" \in Faults /\ pc # "idle"
  /\ PreserveStaging /\ pc' = "idle" /\ res' = "crashed"
  /\ UNCHANGED <<obj, argVars, seenVars, theirs, torn, slipped>>

=============================================================================
