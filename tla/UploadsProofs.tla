--------------------------- MODULE UploadsProofs ---------------------------
(***************************************************************************)
(* Proofs about Uploads, for any set of uploads of any sizes and any       *)
(* combination of faults: its types, and that it implements AtomicUpload.  *)
(***************************************************************************)
EXTENDS Uploads, TLAPS

\* The type invariant is inductive: every write to the staging file is bounded
\* by total_size, and a handler is about an upload.
Typed == TypeOK /\ (pc # "idle" => cur \in Uploads)

LEMMA ChunkTypes ==
  ASSUME NEW d \in Chunks
  PROVE  d \in Seq(Unit) /\ Len(d) \in Nat
  <1>1. PICK n \in 1..MaxChunk : d \in [1..n -> Unit]
    BY DEF Chunks
  <1>. QED
    BY <1>1, UploadsAssumption

LEMMA TypedStep ==
  ASSUME Typed, [Next]_vars
  PROVE  Typed'
  <1>. USE DEF Typed, TypeOK
  <1>1. CASE UNCHANGED vars
    BY <1>1 DEF vars, files, metas, handler, history
  <1>2. CASE Interrupted
    BY <1>2 DEF Interrupted, Leave, files, metas, history
  <1>3. CASE Others
    BY <1>3 DEF Others, metas, handler, history
  <1>4. ASSUME NEW u \in Uploads,
               \/ Begin(u) \/ BeginMeta(u) \/ BeginFails(u)
               \/ Expires(u) \/ Expire(u) \/ ExpireMeta(u)
               \/ Abort(u) \/ AbortMeta(u)
        PROVE  Typed'
    <2>. USE DEF files, metas, handler, history, Enter, Look, At, Leave, Unlink
    <2>1. CASE Begin(u) BY <2>1 DEF Begin
    <2>2. CASE BeginMeta(u) BY <2>2 DEF BeginMeta
    <2>3. CASE BeginFails(u) BY <2>3 DEF BeginFails
    <2>4. CASE Expires(u) BY <2>4 DEF Expires
    <2>5. CASE Expire(u) BY <2>5 DEF Expire
    <2>6. CASE ExpireMeta(u) BY <2>6 DEF ExpireMeta
    <2>7. CASE Abort(u) BY <2>7 DEF Abort
    <2>8. CASE AbortMeta(u) BY <2>8 DEF AbortMeta
    <2>. QED BY <1>4, <2>1, <2>2, <2>3, <2>4, <2>5, <2>6, <2>7, <2>8
  <1>5. ASSUME NEW u \in Uploads, Finish(u)
        PROVE  Typed'
    <2>. USE DEF files, metas, handler, history, Enter, Look, At, Leave
    <2>1. CASE Mismatch(u) BY <2>1 DEF Mismatch
    <2>2. CASE Verify(u) BY <2>2 DEF Verify
    <2>3. CASE PublishNew(u) BY <2>3 DEF PublishNew, Rename
    <2>4. CASE Collide(u) BY <2>4 DEF Collide
    <2>5. CASE LookAgain(u) BY <2>5 DEF LookAgain
    <2>6. CASE Replace(u) BY <2>6 DEF Replace, Rename
    <2>7. CASE ReplaceFails(u) BY <2>7 DEF ReplaceFails
    <2>8. CASE Commit(u) BY <2>8 DEF Commit
    <2>. QED BY <1>5, <2>1, <2>2, <2>3, <2>4, <2>5, <2>6, <2>7, <2>8 DEF Finish
  <1>6. ASSUME NEW u \in Uploads, Chunk(u)
        PROVE  Typed'
    <2>0. PICK d \in Chunks : \/ Append1(u, d) \/ AppendBreaks(u, d)
                              \/ \E o \in 0..Size[u] : Repeat(u, o, d)
      BY <1>6 DEF Chunk
    <2>1. d \in Seq(Unit) /\ Len(d) \in Nat
      BY ChunkTypes
    <2>. DEFINE NewData(w) == data' = [data EXCEPT ![u] = @ \o w]
    <2>2. ASSUME NEW o \in Nat
          PROVE  Pairs(o, d) \in SUBSET (Nat \X Unit)
      BY <2>1 DEF Pairs
    <2>3. CASE Append1(u, d)
      <3>1. data[u] \o d \in Seq(Unit) /\ Len(data[u] \o d) <= Size[u]
        BY <2>1, <2>3, UploadsAssumption DEF Append1
      <3>2. Len(data[u]) \in Nat
        OBVIOUS
      <3>. QED
        BY <2>2, <2>3, <3>1, <3>2 DEF Append1, Confirm, Open, metas, handler
    <2>4. CASE AppendBreaks(u, d)
      <3>1. PICK n \in 1..Len(d) : data' = [data EXCEPT ![u] = @ \o SubSeq(d, 1, n)]
        BY <2>4 DEF AppendBreaks
      <3>2. SubSeq(d, 1, n) \in Seq(Unit) /\ Len(SubSeq(d, 1, n)) = n
        BY <2>1, <3>1
      <3>3. data[u] \o SubSeq(d, 1, n) \in Seq(Unit) /\ Len(data[u] \o SubSeq(d, 1, n)) <= Size[u]
        <4>1. Len(data[u]) + Len(d) <= Size[u] /\ n <= Len(d) /\ n \in Nat
          BY <2>1, <2>4, <3>1 DEF AppendBreaks
        <4>2. Len(data[u] \o SubSeq(d, 1, n)) = Len(data[u]) + n
          BY <3>2
        <4>. QED
          BY <2>1, <3>2, <4>1, <4>2, UploadsAssumption
      <3>. QED
        BY <2>4, <3>1, <3>3 DEF AppendBreaks, metas, handler, history
    <2>5. CASE \E o \in 0..Size[u] : Repeat(u, o, d)
      <3>1. PICK o \in 0..Size[u] : Repeat(u, o, d)
        BY <2>5
      <3>2. o \in Nat
        BY <3>1, UploadsAssumption
      <3>. QED
        BY <2>2, <3>1, <3>2 DEF Repeat, Confirm, files, metas, handler
    <2>. QED
      BY <2>0, <2>3, <2>4, <2>5
  <1>. QED
    BY <1>1, <1>2, <1>3, <1>4, <1>5, <1>6 DEF Next

LEMMA TypedInit == Init => Typed
  <1>. SUFFICES ASSUME Init PROVE Typed
    OBVIOUS
  <1>1. data \in [Uploads -> Seq(Unit)] /\ \A u \in Uploads : Len(data[u]) <= Size[u]
    BY UploadsAssumption DEF Init
  <1>. QED
    BY <1>1 DEF Init, Typed, TypeOK, Foreign

\* The types of all variables in every reachable state: in particular the
\* staging file never exceeds the total_size given to upload_begin.
THEOREM UploadTypes == Spec => []TypeOK
  <1>2. Typed /\ [Next]_vars => Typed'
    BY TypedStep
  <1>3. Typed => TypeOK
    BY DEF Typed
  <1>. QED
    BY TypedInit, <1>2, <1>3, PTL DEF Spec

-----------------------------------------------------------------------------
(***************************************************************************)
(* The refinement.  A handler that is about to rename still has the        *)
(* announced file in staging, of an upload that is open and not published: *)
(* nothing but the handler itself touches them meanwhile.                  *)
(***************************************************************************)
Ready ==
  pc \in {"publish", "collided", "replace"} =>
    /\ cur \in part /\ status[cur] = "open" /\ data[cur] = Announced(cur)
    /\ pc # "publish" => cur \in Overwrites

\* A file is staged or published, never both, and only by an upload that has
\* metadata; what is at the destination is a published, announced file.
Whole ==
  /\ part \cap placed = {}
  /\ \A u \in placed : status[u] # "none"
  /\ target \in Uploads => target \in placed /\ data[target] = Announced(target)

\* The metadata a handler is about to write is that of an upload in its state.
Writes ==
  /\ pc = "begin" => status[cur] = "none"
  /\ pc \in {"expire", "abort"} => status[cur] # "none"
  /\ pc = "commit" => cur \in placed

Inv == Typed /\ Ready /\ Whole /\ Writes

LEMMA InvStep ==
  ASSUME Inv, [Next]_vars
  PROVE  Inv'
  <1>0. Typed'
    BY TypedStep DEF Inv
  <1>. USE <1>0, UploadsAssumption DEF Inv, Typed, TypeOK, Ready, Whole, Writes, Announced
  <1>1. CASE UNCHANGED vars
    BY <1>1 DEF vars, files, metas, handler, history
  <1>2. CASE Interrupted
    BY <1>2 DEF Interrupted, Leave, files, metas, history
  <1>3. CASE Others
    BY <1>3 DEF Others, metas, handler, history
  <1>4. ASSUME NEW u \in Uploads,
               \/ Begin(u) \/ BeginMeta(u) \/ BeginFails(u)
               \/ Expires(u) \/ Expire(u) \/ ExpireMeta(u)
               \/ Abort(u) \/ AbortMeta(u)
        PROVE  Inv'
    <2>. USE DEF files, metas, handler, history, Enter, Look, At, Leave, Unlink
    <2>1. CASE Begin(u) BY <2>1 DEF Begin
    <2>2. CASE BeginMeta(u) BY <2>2 DEF BeginMeta
    <2>3. CASE BeginFails(u) BY <2>3 DEF BeginFails
    <2>4. CASE Expires(u) BY <2>4 DEF Expires
    <2>5. CASE Expire(u) BY <2>5 DEF Expire
    <2>6. CASE ExpireMeta(u) BY <2>6 DEF ExpireMeta
    <2>7. CASE Abort(u) BY <2>7 DEF Abort
    <2>8. CASE AbortMeta(u) BY <2>8 DEF AbortMeta
    <2>. QED BY <1>4, <2>1, <2>2, <2>3, <2>4, <2>5, <2>6, <2>7, <2>8
  <1>5. ASSUME NEW u \in Uploads, Finish(u)
        PROVE  Inv'
    <2>. USE DEF files, metas, handler, history, Enter, Look, At, Leave, Open
    <2>1. CASE Mismatch(u) BY <2>1 DEF Mismatch
    <2>2. CASE Verify(u) BY <2>2 DEF Verify, Free
    <2>3. CASE PublishNew(u) BY <2>3 DEF PublishNew, Rename
    <2>4. CASE Collide(u) BY <2>4 DEF Collide
    <2>5. CASE LookAgain(u) BY <2>5 DEF LookAgain
    <2>6. CASE Replace(u) BY <2>6 DEF Replace, Rename
    <2>7. CASE ReplaceFails(u) BY <2>7 DEF ReplaceFails
    <2>8. CASE Commit(u) BY <2>8 DEF Commit
    <2>. QED BY <1>5, <2>1, <2>2, <2>3, <2>4, <2>5, <2>6, <2>7, <2>8 DEF Finish
  <1>6. ASSUME NEW u \in Uploads, Chunk(u)
        PROVE  Inv'
    <2>1. /\ pc = "idle" /\ u \in part
          /\ \A v \in Uploads \ {u} : data'[v] = data[v]
          /\ UNCHANGED <<part, target, metas, handler, placed>>
      BY <1>6 DEF Chunk, Append1, AppendBreaks, Repeat, Open, files, handler, history
    <2>. QED
      BY <2>1 DEF metas, handler
  <1>. QED
    BY <1>1, <1>2, <1>3, <1>4, <1>5, <1>6 DEF Next

-----------------------------------------------------------------------------
LEMMA InvInit == Init => Inv
  BY TypedInit, UploadsAssumption DEF Init, Inv, Ready, Whole, Writes, Foreign

\* The phase of every upload but u is the same after a step, and u's is x.
Moves(u, x) ==
  /\ Phase(u)' = x
  /\ \A v \in Uploads \ {u} : Phase(v)' = Phase(v)

Phases == [u \in Uploads |-> Phase(u)]

LEMMA PhasesMove ==
  ASSUME NEW u \in Uploads, NEW x, Moves(u, x)
  PROVE  Phases' = [Phases EXCEPT ![u] = x]
  BY DEF Moves, Phases

\* A step that changes neither a phase nor the destination is a stutter.
LEMMA Stutter ==
  ASSUME \A u \in Uploads : Phase(u)' = Phase(u), Dest' = Dest
  PROVE  UNCHANGED Atomic!vars
  BY DEF Atomic!vars

\* A step that writes the metadata of u, or nothing, leaves the destination.
LEMMA DestKept ==
  ASSUME UNCHANGED <<target, data>>
  PROVE  Dest' = Dest
  BY DEF Dest, Announced

LEMMA Refines ==
  ASSUME Inv, Inv', [Next]_vars
  PROVE  [Atomic!Next]_(Atomic!vars)
  <1>. USE DEF Inv
  <1>1. CASE UNCHANGED vars
    BY <1>1, Stutter, DestKept DEF vars, files, metas, history, Phase
  <1>2. CASE Interrupted
    BY <1>2, Stutter, DestKept DEF Interrupted, files, metas, history, Phase
  <1>3. CASE Others
    <2>1. Phases' = Phases
      BY <1>3 DEF Others, metas, history, Phase, Phases
    <2>2. Dest' \in Foreign
      BY <1>3, UploadsAssumption DEF Others, Dest
    <2>. QED
      BY <2>1, <2>2 DEF Atomic!Next, Atomic!Others, Phases
  <1>4. ASSUME NEW u \in Uploads,
               \/ Begin(u) \/ BeginFails(u) \/ Expires(u) \/ Expire(u) \/ Abort(u)
               \/ Verify(u) \/ Collide(u) \/ LookAgain(u) \/ ReplaceFails(u)
        PROVE  UNCHANGED Atomic!vars
    <2>1. UNCHANGED <<target, data, status, placed>>
      BY <1>4 DEF Begin, BeginFails, Expires, Expire, Abort, Verify, Collide, LookAgain,
                  ReplaceFails, files, metas, history
    <2>. QED
      BY <2>1, Stutter, DestKept DEF Phase
  <1>5. ASSUME NEW u \in Uploads, Chunk(u)
        PROVE  UNCHANGED Atomic!vars
    <2>1. /\ u \in part
          /\ \A v \in Uploads \ {u} : data'[v] = data[v]
          /\ UNCHANGED <<target, status, placed>>
      BY <1>5 DEF Chunk, Append1, AppendBreaks, Repeat, Open, files, metas, history,
                  Typed, TypeOK
    <2>2. target # u
      BY <2>1 DEF Whole
    <2>3. Dest' = Dest
      BY <2>1, <2>2 DEF Dest, Announced
    <2>. QED
      BY <2>1, <2>3, Stutter DEF Phase
  <1>6. ASSUME NEW u \in Uploads, BeginMeta(u)
        PROVE  Atomic!Begin(u)
    <2>1. Phase(u) = "new" /\ Moves(u, "open")
      BY <1>6 DEF BeginMeta, At, Moves, Phase, Writes, Whole, Typed, TypeOK, history
    <2>. QED
      BY <1>6, <2>1, PhasesMove, DestKept
      DEF BeginMeta, files, Atomic!Begin, Atomic!Move, Phases
  <1>7. ASSUME NEW u \in Uploads, Mismatch(u) \/ ExpireMeta(u) \/ AbortMeta(u) \/ Commit(u)
        PROVE  Atomic!GiveUp(u) \/ UNCHANGED Atomic!vars
    <2>1. Dest' = Dest
      BY <1>7, DestKept DEF Mismatch, ExpireMeta, AbortMeta, Commit, files
    <2>2. /\ UNCHANGED placed
          /\ \A v \in Uploads \ {u} : Phase(v)' = Phase(v)
      BY <1>7 DEF Mismatch, ExpireMeta, AbortMeta, Commit, history, Phase, Typed, TypeOK
    <2>3. CASE u \in placed
      BY <2>1, <2>2, <2>3, Stutter DEF Phase
    <2>4. CASE u \notin placed
      <3>1. Phase(u) \in {"open", "gone"} /\ Phase(u)' = "gone"
        BY <1>7, <2>2, <2>4
        DEF Mismatch, ExpireMeta, AbortMeta, Commit, Open, At, Phase, Writes, Typed, TypeOK
      <3>2. CASE Phase(u) = "gone"
        BY <2>1, <2>2, <3>1, <3>2, Stutter
      <3>3. CASE Phase(u) = "open"
        <4>1. Phases' = [Phases EXCEPT ![u] = "gone"]
          BY <2>2, <3>1, PhasesMove DEF Moves
        <4>. QED
          BY <2>1, <3>3, <4>1 DEF Atomic!GiveUp, Atomic!Move, Phases
      <3>. QED
        BY <3>1, <3>2, <3>3
    <2>. QED
      BY <2>3, <2>4
  <1>8. ASSUME NEW u \in Uploads, PublishNew(u) \/ Replace(u)
        PROVE  Atomic!Publish(u)
    <2>1. Rename(u) /\ cur = u /\ pc \in {"publish", "replace"}
      BY <1>8 DEF PublishNew, Replace, At
    <2>2. Phase(u) = "open" /\ Moves(u, "done")
      BY <2>1 DEF Rename, Ready, Whole, Moves, Phase, metas
    <2>3. Dest' = u
      BY <2>1 DEF Rename, Ready, Dest, Announced
    <2>4. u \in Overwrites \/ Dest = "absent"
      BY <1>8, <2>1, UploadsAssumption DEF PublishNew, Replace, At, Ready, Dest, Foreign
    <2>. QED
      BY <2>2, <2>3, <2>4, PhasesMove DEF Atomic!Publish, Atomic!Move, Phases
  <1>. QED
    BY <1>1, <1>2, <1>3, <1>4, <1>5, <1>6, <1>7, <1>8 DEF Next, Finish, Atomic!Next

LEMMA RefinesInit == Init => Atomic!Init
  BY UploadsAssumption DEF Init, Atomic!Init, Phase, Dest, Foreign

\* The upload sessions implement AtomicUpload under every fault: the destination
\* changes to the whole announced file in one step, at most once per upload, never
\* after the upload was aborted, and without overwrite only when it is free.
THEOREM UploadAtomic == Spec => PublishesAtomically
  <1>. QED
    BY InvInit, InvStep, Refines, RefinesInit, PTL DEF Spec, PublishesAtomically, Atomic!Spec

-----------------------------------------------------------------------------
(***************************************************************************)
(* What the metadata says of an upload that is over.                       *)
(***************************************************************************)
Over ==
  /\ NoResidue
  /\ pc \in {"expire", "abort"} /\ cur \in part => cur \in stuck
  /\ ReplacementIsReported
  /\ clobbered \subseteq placed
  /\ pc = "commit" /\ cur \in clobbered => exists

LEMMA OverStep ==
  ASSUME Inv, Over, [Next]_vars
  PROVE  Over'
  <1>. USE DEF Inv, Typed, TypeOK, Ready, Whole, Writes, Over, NoResidue, ReplacementIsReported
  <1>1. CASE UNCHANGED vars
    BY <1>1 DEF vars, files, metas, handler, history
  <1>2. CASE Interrupted
    BY <1>2 DEF Interrupted, Leave, files, metas, history
  <1>3. CASE Others
    BY <1>3 DEF Others, metas, handler, history
  <1>4. ASSUME NEW u \in Uploads,
               \/ Begin(u) \/ BeginMeta(u) \/ BeginFails(u)
               \/ Expires(u) \/ Expire(u) \/ ExpireMeta(u)
               \/ Abort(u) \/ AbortMeta(u)
        PROVE  Over'
    <2>. USE DEF files, metas, handler, history, Enter, Look, At, Leave, Unlink
    <2>1. CASE Begin(u) BY <2>1 DEF Begin
    <2>2. CASE BeginMeta(u) BY <2>2 DEF BeginMeta
    <2>3. CASE BeginFails(u) BY <2>3 DEF BeginFails
    <2>4. CASE Expires(u) BY <2>4 DEF Expires
    <2>5. CASE Expire(u) BY <2>5 DEF Expire
    <2>6. CASE ExpireMeta(u) BY <2>6 DEF ExpireMeta
    <2>7. CASE Abort(u) BY <2>7 DEF Abort
    <2>8. CASE AbortMeta(u) BY <2>8 DEF AbortMeta
    <2>. QED BY <1>4, <2>1, <2>2, <2>3, <2>4, <2>5, <2>6, <2>7, <2>8
  <1>5. ASSUME NEW u \in Uploads, Finish(u)
        PROVE  Over'
    <2>. USE DEF files, metas, handler, history, Enter, Look, At, Leave, Open
    <2>1. CASE Mismatch(u) BY <2>1 DEF Mismatch
    <2>2. CASE Verify(u) BY <2>2 DEF Verify, Free
    <2>3. CASE PublishNew(u) BY <2>3 DEF PublishNew, Rename
    <2>4. CASE Collide(u) BY <2>4 DEF Collide
    <2>5. CASE LookAgain(u) BY <2>5 DEF LookAgain
    <2>6. CASE Replace(u) BY <2>6 DEF Replace, Rename
    <2>7. CASE ReplaceFails(u) BY <2>7 DEF ReplaceFails
    <2>8. CASE Commit(u) BY <2>8 DEF Commit
    <2>. QED BY <1>5, <2>1, <2>2, <2>3, <2>4, <2>5, <2>6, <2>7, <2>8 DEF Finish
  <1>6. ASSUME NEW u \in Uploads, Chunk(u)
        PROVE  Over'
    <2>1. UNCHANGED <<part, metas, handler, placed, clobbered, stuck>>
      BY <1>6 DEF Chunk, Append1, AppendBreaks, Repeat, files, history
    <2>. QED
      BY <2>1 DEF metas, handler
  <1>. QED
    BY <1>1, <1>2, <1>3, <1>4, <1>5, <1>6 DEF Next

\* An upload that is over leaves no staging file, unless removing it failed: also
\* when the server died between removing the file and writing the metadata.
THEOREM UploadLeavesNothing == Spec => []NoResidue
  <1>1. Init => Over
    BY DEF Init, Over, NoResidue, ReplacementIsReported
  <1>2. Over => NoResidue
    BY DEF Over
  <1>. QED
    BY <1>1, <1>2, InvInit, InvStep, OverStep, PTL DEF Spec

\* A committed upload that replaced a file says so, whatever other programs do
\* between the handler's looks at the destination and its rename.
THEOREM UploadReportsReplacement == Spec => []ReplacementIsReported
  <1>1. Init => Over
    BY DEF Init, Over, NoResidue, ReplacementIsReported
  <1>2. Over => ReplacementIsReported
    BY DEF Over
  <1>. QED
    BY <1>1, <1>2, InvInit, InvStep, OverStep, PTL DEF Spec

-----------------------------------------------------------------------------
(***************************************************************************)
(* What was confirmed stays: the staging file only grows.                  *)
(***************************************************************************)
Kept ==
  \A u \in Uploads : \A p \in accepted[u] :
    p[1] \in 1..Len(data[u]) /\ data[u][p[1]] = p[2]

LEMMA KeptStep ==
  ASSUME Typed, Kept, [Next]_vars
  PROVE  Kept'
  <1>. USE DEF Typed, TypeOK, Kept
  <1>1. CASE UNCHANGED <<data, accepted>>
    BY <1>1
  <1>2. ASSUME NEW u \in Uploads, NEW d \in Chunks, Append1(u, d)
        PROVE  Kept'
    <2>1. d \in Seq(Unit) /\ Len(d) \in Nat /\ Len(data[u]) \in Nat
      BY ChunkTypes
    <2>2. data'[u] = data[u] \o d /\ accepted'[u] = accepted[u] \cup Pairs(Len(data[u]), d)
      BY <1>2 DEF Append1, Confirm
    <2>3. \A p \in accepted[u] : p[1] \in 1..Len(data'[u]) /\ data'[u][p[1]] = p[2]
      BY <2>1, <2>2
    <2>4. ASSUME NEW i \in 1..Len(d)
          PROVE  Len(data[u]) + i \in 1..Len(data'[u]) /\ data'[u][Len(data[u]) + i] = d[i]
      BY <2>1, <2>2
    <2>5. \A p \in accepted'[u] : p[1] \in 1..Len(data'[u]) /\ data'[u][p[1]] = p[2]
      BY <2>2, <2>3, <2>4 DEF Pairs
    <2>6. \A v \in Uploads \ {u} : data'[v] = data[v] /\ accepted'[v] = accepted[v]
      BY <1>2 DEF Append1, Confirm
    <2>7. ASSUME NEW v \in Uploads, NEW p \in accepted'[v]
          PROVE  p[1] \in 1..Len(data'[v]) /\ data'[v][p[1]] = p[2]
      <3>1. CASE v = u BY <2>5, <2>7, <3>1
      <3>2. CASE v # u BY <2>6, <2>7, <3>2
      <3>. QED BY <3>1, <3>2
    <2>. QED
      BY <2>7
  <1>3. ASSUME NEW u \in Uploads, NEW d \in Chunks, AppendBreaks(u, d)
        PROVE  Kept'
    <2>1. d \in Seq(Unit) /\ Len(d) \in Nat /\ Len(data[u]) \in Nat
      BY ChunkTypes
    <2>2. PICK n \in 1..Len(d) : data' = [data EXCEPT ![u] = @ \o SubSeq(d, 1, n)]
      BY <1>3 DEF AppendBreaks
    <2>3. SubSeq(d, 1, n) \in Seq(Unit)
      BY <2>1, <2>2
    <2>4. \A p \in accepted[u] : p[1] \in 1..Len(data'[u]) /\ data'[u][p[1]] = p[2]
      BY <2>1, <2>2, <2>3
    <2>. QED
      BY <1>3, <2>2, <2>4 DEF AppendBreaks, history
  <1>4. ASSUME NEW u \in Uploads, NEW d \in Chunks, NEW o \in 0..Size[u], Repeat(u, o, d)
        PROVE  Kept'
    <2>1. d \in Seq(Unit) /\ Len(d) \in Nat /\ Len(data[u]) \in Nat /\ o \in Nat
      BY ChunkTypes, UploadsAssumption
    <2>2. /\ o + Len(d) <= Len(data[u]) /\ SubSeq(data[u], o + 1, o + Len(d)) = d
          /\ data' = data
          /\ accepted' = [accepted EXCEPT ![u] = @ \cup Pairs(o, d)]
      BY <1>4 DEF Repeat, Confirm, files
    <2>3. ASSUME NEW i \in 1..Len(d)
          PROVE  o + i \in 1..Len(data[u]) /\ data[u][o + i] = d[i]
      <3>1. i \in Nat /\ 1 <= i /\ i <= Len(d)
        BY <2>1
      <3>2. o + i \in 1..Len(data[u])
        BY <2>1, <2>2, <3>1
      <3>3. SubSeq(data[u], o + 1, o + Len(d))[i] = data[u][o + i]
        BY <2>1, <2>2, <3>1
      <3>. QED
        BY <2>2, <3>2, <3>3
    <2>. QED
      BY <2>2, <2>3 DEF Pairs
  <1>5. CASE Interrupted \/ Others
    BY <1>1, <1>5 DEF Interrupted, Others, files, history
  <1>6. ASSUME NEW u \in Uploads,
               \/ Begin(u) \/ BeginMeta(u) \/ BeginFails(u)
               \/ Expires(u) \/ Expire(u) \/ ExpireMeta(u)
               \/ Abort(u) \/ AbortMeta(u) \/ Finish(u)
        PROVE  Kept'
    BY <1>1, <1>6
    DEF Begin, BeginMeta, BeginFails, Expires, Expire, ExpireMeta, Abort, AbortMeta,
        Finish, Mismatch, Verify, PublishNew, Collide, LookAgain, Replace, ReplaceFails,
        Commit, Rename, files, history
  <1>. QED
    BY <1>1, <1>2, <1>3, <1>4, <1>5, <1>6 DEF Next, Chunk, vars, files, history

\* What a client was told has been received is in the file, at its place, however
\* often chunks are repeated, conflict or break off.
THEOREM UploadKeepsAccepted == Spec => []AcceptedIsKept
  <1>1. Init => Kept
    BY DEF Init, Kept
  <1>2. Typed /\ Kept => AcceptedIsKept
    BY DEF Typed, TypeOK, Kept, AcceptedIsKept
  <1>. QED
    BY <1>1, <1>2, TypedInit, TypedStep, KeptStep, PTL DEF Spec

=============================================================================
