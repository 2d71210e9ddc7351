------------------------------ MODULE Uploads ------------------------------
(***************************************************************************)
(* The upload sessions of transfer.py.  Clients open an upload, append     *)
(* chunks to a staging file beside the destination, and publish it by a    *)
(* rename; they may repeat or reorder any call.  The handlers never await, *)
(* so one runs at a time, but between their steps the server may die, a    *)
(* write may fail and another program may change the destination.          *)
(*                                                                         *)
(* All uploads here go to one destination.  A file's content is a sequence *)
(* of units, each as announced ("good") or not ("bad"), so that its SHA-256 *)
(* matches exactly when it is Announced.                                   *)
(***************************************************************************)
EXTENDS Naturals, Sequences

CONSTANTS
  Uploads,    \* upload identifiers
  Overwrites, \* the uploads begun with overwrite=true
  Size,       \* total_size of each upload
  MaxChunk,   \* max_file_chunk_bytes
  Faults      \* what may happen, a subset of AllFaults

(***************************************************************************)
(* crash    the server dies and is started again                           *)
(* io_error a write, rename or unlink fails                                *)
(* others   other programs change the destination                          *)
(***************************************************************************)
AllFaults == {"crash", "io_error", "others"}

\* What other programs leave at the destination.
Foreign == {"absent", "file", "link", "dir"}

NoUpload == "none"

ASSUME UploadsAssumption ==
  /\ Overwrites \subseteq Uploads
  /\ Uploads \cap Foreign = {} /\ NoUpload \notin Uploads
  /\ Size \in [Uploads -> Nat] /\ MaxChunk \in Nat
  /\ Faults \subseteq AllFaults

VARIABLES
  target,    \* what is at the destination: an upload's file, or one of Foreign
  part,      \* the uploads whose staging file exists
  data,      \* the content of an upload's file, staged or published
  status,    \* metadata: status, or "none" without a metadata file
  replaced,  \* metadata: replaced
  late,      \* the uploads past their expires_at
  pc,        \* where the server is inside a handler
  cur,       \* the upload that handler is about
  exists,    \* the handler's view of the destination: something is there
  accepted,  \* history: <<position, unit>> pairs whose receipt was confirmed
  placed,    \* history: uploads whose file was renamed to the destination
  clobbered, \* history: uploads whose file replaced another one
  stuck      \* history: uploads whose staging file could not be removed

files   == <<part, data, target>>
metas   == <<status, replaced>>
handler == <<pc, cur, exists>>
history == <<accepted, placed, clobbered, stuck>>
vars    == <<files, metas, late, handler, history>>

-----------------------------------------------------------------------------
Unit      == {"good", "bad"}
Announced(u) == [i \in 1..Size[u] |-> "good"]
Chunks    == UNION {[1..n -> Unit] : n \in 1..MaxChunk}

TypeOK ==
  /\ target \in Foreign \cup Uploads
  /\ part \subseteq Uploads /\ late \subseteq Uploads
  /\ data \in [Uploads -> Seq(Unit)] /\ \A u \in Uploads : Len(data[u]) <= Size[u]
  /\ status \in [Uploads -> {"none", "open", "hash_mismatch", "committed", "aborted", "expired"}]
  /\ replaced \in [Uploads -> BOOLEAN]
  /\ pc \in {"idle", "begin", "expire", "abort", "publish", "collided", "replace", "commit"}
  /\ cur \in Uploads \cup {NoUpload} /\ exists \in BOOLEAN
  /\ accepted \in [Uploads -> SUBSET (Nat \X Unit)]
  /\ placed \subseteq Uploads /\ clobbered \subseteq Uploads /\ stuck \subseteq Uploads

Init ==
  /\ target \in {"absent", "file"}
  /\ part = {} /\ late = {}
  /\ data = [u \in Uploads |-> <<>>]
  /\ status = [u \in Uploads |-> "none"]
  /\ replaced = [u \in Uploads |-> FALSE]
  /\ pc = "idle" /\ cur = NoUpload /\ exists = FALSE
  /\ accepted = [u \in Uploads |-> {}]
  /\ placed = {} /\ clobbered = {} /\ stuck = {}

-----------------------------------------------------------------------------
(* Handlers.                                                               *)

Enter(at, u) == pc = "idle" /\ pc' = at /\ cur' = u
Look         == exists' = (target # "absent")
At(at, u)    == pc = at /\ cur = u
Leave        == pc' = "idle" /\ cur' = NoUpload /\ exists' = FALSE
Fails        == Faults \cap {"crash", "io_error"} # {}

\* The destination may be published to by u: _lstat_at and the checks on it.
Regular == target \notin {"link", "dir"}
Free(u) == Regular /\ (target # "absent" => u \in Overwrites)

\* _load_meta and _expire_if_needed find an open upload in its time.
Open(u) == pc = "idle" /\ status[u] = "open" /\ u \notin late

\* _unlink_allowed: a failure is ignored.
Unlink(u) ==
  \/ part' = part \ {u} /\ UNCHANGED stuck
  \/ "io_error" \in Faults /\ u \in part /\ stuck' = stuck \cup {u} /\ UNCHANGED part

\* begin_upload: the staging file is created, then the metadata.
Begin(u) ==
  /\ status[u] = "none" /\ u \notin part
  /\ Free(u)
  /\ Enter("begin", u) /\ Look
  /\ part' = part \cup {u}
  /\ UNCHANGED <<data, target, metas, late, history>>

BeginMeta(u) ==
  /\ At("begin", u)
  /\ status' = [status EXCEPT ![u] = "open"]
  /\ replaced' = [replaced EXCEPT ![u] = exists]
  /\ Leave
  /\ UNCHANGED <<files, late, history>>

BeginFails(u) ==
  /\ "io_error" \in Faults
  /\ At("begin", u)
  /\ Unlink(u)
  /\ Leave
  /\ UNCHANGED <<data, target, metas, late, accepted, placed, clobbered>>

\* The upload passes its expires_at.
Expires(u) ==
  /\ status[u] = "open"
  /\ late' = late \cup {u}
  /\ UNCHANGED <<files, metas, handler, history>>

\* Any call but begin and abort, when it finds an open upload too late.
Expire(u) ==
  /\ status[u] = "open" /\ u \in late
  /\ Enter("expire", u)
  /\ Unlink(u)
  /\ UNCHANGED <<data, target, metas, late, exists, accepted, placed, clobbered>>

ExpireMeta(u) ==
  /\ At("expire", u)
  /\ status' = [status EXCEPT ![u] = "expired"]
  /\ Leave
  /\ UNCHANGED <<files, replaced, late, history>>

\* The pairs by which a chunk d at offset o is accounted for in accepted.
Pairs(o, d) == {<<o + i, d[i]>> : i \in 1..Len(d)}

Confirm(u, o, d) == accepted' = [accepted EXCEPT ![u] = @ \cup Pairs(o, d)]

\* upload_chunk at the end of what is there.
Append1(u, d) ==
  /\ Open(u) /\ u \in part
  /\ Len(data[u]) + Len(d) <= Size[u]
  /\ data' = [data EXCEPT ![u] = @ \o d]
  /\ Confirm(u, Len(data[u]), d)
  /\ UNCHANGED <<part, target, metas, late, handler, placed, clobbered, stuck>>

\* The same when the server dies or a write or fsync fails on the way: a
\* part of the chunk is on disk, and the client is told nothing.
AppendBreaks(u, d) ==
  /\ Fails
  /\ Open(u) /\ u \in part
  /\ Len(data[u]) + Len(d) <= Size[u]
  /\ \E n \in 1..Len(d) : data' = [data EXCEPT ![u] = @ \o SubSeq(d, 1, n)]
  /\ UNCHANGED <<part, target, metas, late, handler, history>>

\* Mutant of Repeat: a chunk within what is there is a duplicate.
RepeatAnything(u, o, d) ==
  /\ Open(u) /\ u \in part
  /\ o < Len(data[u]) /\ o + Len(d) <= Len(data[u])
  /\ Confirm(u, o, d)
  /\ UNCHANGED <<files, metas, late, handler, placed, clobbered, stuck>>

\* upload_chunk repeated: accepted when the same bytes are there.
Repeat(u, o, d) ==
  /\ Open(u) /\ u \in part
  /\ o < Len(data[u]) /\ o + Len(d) <= Len(data[u])
  /\ SubSeq(data[u], o + 1, o + Len(d)) = d
  /\ Confirm(u, o, d)
  /\ UNCHANGED <<files, metas, late, handler, placed, clobbered, stuck>>

Chunk(u) ==
  \E d \in Chunks : \/ Append1(u, d)
                    \/ AppendBreaks(u, d)
                    \/ \E o \in 0..Size[u] : Repeat(u, o, d)

\* finish_upload of a complete file with another SHA-256.
Mismatch(u) ==
  /\ Open(u) /\ u \in part
  /\ Len(data[u]) = Size[u] /\ data[u] # Announced(u)
  /\ status' = [status EXCEPT ![u] = "hash_mismatch"]
  /\ UNCHANGED <<files, replaced, late, handler, history>>

\* finish_upload verifies the file and looks at the destination.
Verify(u) ==
  /\ Open(u) /\ u \in part
  /\ data[u] = Announced(u)
  /\ Free(u)
  /\ Enter(IF target = "absent" THEN "publish" ELSE "replace", u) /\ Look
  /\ UNCHANGED <<files, metas, late, history>>

Rename(u) ==
  /\ target' = u
  /\ part' = part \ {u}
  /\ placed' = placed \cup {u}
  /\ clobbered' = IF target = "absent" THEN clobbered ELSE clobbered \cup {u}
  /\ pc' = "commit"
  /\ UNCHANGED <<data, cur, metas, late, accepted, stuck>>

\* Mutant of PublishNew: rename instead of rename_noreplace.
PublishOver(u) ==
  /\ At("publish", u)
  /\ exists' = FALSE
  /\ Rename(u)

\* rename_noreplace
PublishNew(u) ==
  /\ At("publish", u)
  /\ target = "absent"
  /\ exists' = FALSE
  /\ Rename(u)

\* EEXIST: without overwrite the call fails, with it the server looks again.
Collide(u) ==
  /\ At("publish", u)
  /\ target # "absent"
  /\ IF u \in Overwrites THEN pc' = "collided" /\ UNCHANGED <<cur, exists>> ELSE Leave
  /\ UNCHANGED <<files, metas, late, history>>

LookAgain(u) ==
  /\ At("collided", u)
  /\ IF Regular THEN pc' = "replace" /\ UNCHANGED <<cur, exists>> ELSE Leave
  /\ UNCHANGED <<files, metas, late, history>>

\* os.replace, which fails on a directory
Replace(u) ==
  /\ At("replace", u)
  /\ target # "dir"
  /\ exists' = TRUE
  /\ Rename(u)

ReplaceFails(u) ==
  /\ At("replace", u)
  /\ target = "dir"
  /\ Leave
  /\ UNCHANGED <<files, metas, late, history>>

Commit(u) ==
  /\ At("commit", u)
  /\ status' = [status EXCEPT ![u] = "committed"]
  /\ replaced' = [replaced EXCEPT ![u] = exists]
  /\ Leave
  /\ UNCHANGED <<files, late, history>>

Finish(u) ==
  \/ Mismatch(u) \/ Verify(u)
  \/ PublishNew(u) \/ Collide(u) \/ LookAgain(u) \/ Replace(u) \/ ReplaceFails(u)
  \/ Commit(u)

\* Mutant of Abort: only an open upload has its staging file removed.
AbortOpen(u) ==
  /\ status[u] \notin {"none", "committed"}
  /\ Enter("abort", u)
  /\ IF status[u] = "open" THEN Unlink(u) ELSE UNCHANGED <<part, stuck>>
  /\ UNCHANGED <<data, target, metas, late, exists, accepted, placed, clobbered>>

\* abort_upload, in any state but committed
Abort(u) ==
  /\ status[u] \notin {"none", "committed"}
  /\ Enter("abort", u)
  /\ Unlink(u)
  /\ UNCHANGED <<data, target, metas, late, exists, accepted, placed, clobbered>>

AbortMeta(u) ==
  /\ At("abort", u)
  /\ status' = [status EXCEPT ![u] = "aborted"]
  /\ Leave
  /\ UNCHANGED <<files, replaced, late, history>>

\* The server dies inside a handler, or an fsync, a rename or a write of the
\* metadata fails: the handler takes no further step, and nothing is undone.
Interrupted ==
  /\ Fails
  /\ pc # "idle"
  /\ Leave
  /\ UNCHANGED <<files, metas, late, history>>

\* Another program writes, removes or replaces what is at the destination.
Others ==
  /\ "others" \in Faults
  /\ target' \in Foreign \ {target}
  /\ UNCHANGED <<part, data, metas, late, handler, history>>

Next ==
  \/ \E u \in Uploads :
       \/ Begin(u) \/ BeginMeta(u) \/ BeginFails(u)
       \/ Expires(u) \/ Expire(u) \/ ExpireMeta(u)
       \/ Chunk(u) \/ Finish(u)
       \/ Abort(u) \/ AbortMeta(u)
  \/ Interrupted
  \/ Others

Spec == Init /\ [][Next]_vars

-----------------------------------------------------------------------------
(* Properties.                                                             *)

\* "Exact replay of an already-written offset is accepted; conflicting replay
\* is rejected": whatever a client was told has been received is in the file,
\* at its place, as long as the file exists, and in the published one.
AcceptedIsKept ==
  \A u \in part \cup placed : \A p \in accepted[u] :
    p[1] <= Len(data[u]) /\ data[u][p[1]] = p[2]

\* finish_upload never calls a publication new that replaced something.
ReplacementIsReported ==
  \A u \in clobbered : status[u] = "committed" => replaced[u]

\* An upload that is over leaves no staging file, unless removing it failed.
NoResidue ==
  \A u \in part : status[u] \in {"committed", "aborted", "expired"} => u \in stuck

\* An upload seen from outside: it can be published until it is marked
\* otherwise, and is once its file has been renamed.
Phase(u) ==
  IF u \in placed THEN "done"
  ELSE IF status[u] = "none" THEN "new"
  ELSE IF status[u] = "open" THEN "open"
  ELSE "gone"

\* The destination seen from outside: a file that is not the one announced is
\* nothing AtomicUpload allows there.
Dest == IF target \in Uploads /\ data[target] # Announced(target) THEN "corrupt" ELSE target

Atomic == INSTANCE AtomicUpload WITH
  phase <- [u \in Uploads |-> Phase(u)], dest <- Dest

\* Publication is atomic and happens at most once, never after the upload was
\* aborted or has expired, whole, and without overwrite into a free place.
PublishesAtomically == Atomic!Spec
=============================================================================
