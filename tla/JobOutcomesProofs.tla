-------------------------- MODULE JobOutcomesProofs --------------------------
(***************************************************************************)
(* What a client may conclude from the outcome of a job, for every set of  *)
(* jobs and keys and every limit: that a cancellation was heeded, that a   *)
(* terminal status is the last one and its command has stopped, and that   *)
(* no more commands run than max_jobs.                                     *)
(*                                                                         *)
(* The first holds whatever fails.  The others have to name the failures   *)
(* they do not survive: a result that was half written (io_error) is       *)
(* written again, and a worker or a server that dies before it has noted   *)
(* the process it started leaves that process unknown to every reader.     *)
(***************************************************************************)
EXTENDS JobTasks, DurableJobsProofs, FiniteSetTheorems

InProgress(j) == wpc[j] \notin {"none", "done"}

\* The environments without half-written results; those in which the server
\* lives to note what it has started; and those in which every process does.
Undamaged == "io_error" \notin Faults
Calm      == Faults \subseteq {"restart", "spawn_error", "worker_kill"}
Orderly   == Faults \subseteq {"restart", "spawn_error"}

-----------------------------------------------------------------------------
(* The marker is authoritative.                                             *)

\* A cancellation that came in time is still on disk when the worker, its
\* command gone, decides between the outcomes, and is in its verdict after.
CancelInv ==
  /\ early \subseteq marker
  /\ \A j \in Jobs : wpc[j] \in {"record", "poll", "terminate", "classify", "finish"} => cproc[j] # "none"
  /\ \A j \in early : wpc[j] = "finish" => verdict[j] # "none"
  /\ CancelIsAuthoritative

\* No step of the server loses a cancellation or publishes an outcome of a run.
LEMMA ServerCancelInv ==
  TypeInv /\ LaunchInv /\ WorkerInv /\ CancelInv /\ ServerNext => CancelInv'
<1> SUFFICES ASSUME TypeInv /\ LaunchInv /\ WorkerInv /\ CancelInv, ServerNext PROVE CancelInv'
  OBVIOUS
<1> USE JobsAssumption DEF serverVars, fileVars, procVars, histVars, TypeInv, TypeOK, InHandler,
        CancelInv, CancelIsAuthoritative
<1>1. ASSUME UNCHANGED <<wpc, verdict, cproc, result, marker, early>> PROVE CancelInv'
  BY <1>1
<1>2. ASSUME NEW k \in Keys, StartReuse(k) PROVE CancelInv'
  BY <1>1, <1>2 DEF StartReuse
<1>3. ASSUME NEW k \in Keys \cup {NoKey}, StartRefused(k) PROVE CancelInv'
  BY <1>1, <1>3 DEF StartRefused
<1>4. ASSUME NEW k \in Keys \cup {NoKey}, NEW j \in Jobs, StartAccepted(k, j) PROVE CancelInv'
  BY <1>1, <1>4 DEF StartAccepted
<1>5. CASE WriteCommand \/ WriteMetadata \/ WriteMapping \/ RecordWorker \/ StartRaises
  BY <1>1, <1>5 DEF WriteCommand, WriteMetadata, WriteMapping, RecordWorker, StartRaises
<1>6. CASE Launch
  BY <1>6 DEF Launch
<1>7. CASE LaunchFails
  BY <1>7 DEF LaunchFails
<1>8. CASE RemoveTree
  BY <1>8 DEF RemoveTree
<1>9. CASE StopsInRemoveTree
  BY <1>9 DEF StopsInRemoveTree, ServerDies
<1>10. CASE RecoverEnd \/ ServerStops \/ ServerStarts \/ Reap
  BY <1>1, <1>10 DEF RecoverEnd, ServerStops, ServerDies, ServerStarts, Reap
<1>11. ASSUME NEW j \in Jobs, Observe(j) \/ CancelPoll(j) \/ CancelEnd(j) \/ Cleanup(j) \/ RecoverOne(j)
       PROVE  CancelInv'
  BY <1>1, <1>11 DEF Observe, CancelPoll, CancelEnd, Cleanup, RecoverOne
<1>12. ASSUME NEW j \in Jobs, CancelBegin(j) PROVE CancelInv'
  <2>1. result[j] \notin {"completed", "failed"}
    BY <1>12 DEF CancelBegin, Status, Terminal
  <2>2. cproc[j] \in {"none", "alive"} => wpc[j] # "finish"
    BY DEF WorkerInv
  <2> QED BY <1>12, <2>1, <2>2 DEF CancelBegin
<1>13. ASSUME NEW j \in Jobs, CancelDeadline(j) PROVE CancelInv'
  BY <1>13 DEF CancelDeadline, Killed
<1>14. ASSUME NEW j \in Jobs, StopsInStatus(j) PROVE CancelInv'
  BY <1>1, <1>14 DEF StopsInStatus, ServerDies
<1> QED
  BY <1>2, <1>3, <1>4, <1>5, <1>6, <1>7, <1>8, <1>9, <1>10, <1>11, <1>12, <1>13, <1>14 DEF ServerNext

\* No step of a worker publishes an outcome that a cancellation has overtaken.
LEMMA WorkerCancelInv ==
  ASSUME TypeInv, WorkerInv, CancelInv, NEW j \in Jobs,
         WorkerNext(j) \/ WorkerKilled(j) \/ CommandExits(j)
  PROVE  CancelInv'
<1> USE DEF serverVars, fileVars, procVars, histVars, TypeInv, TypeOK, CancelInv,
        CancelIsAuthoritative, WorkerAt, Goto
<1>1. CASE ReadCommand(j) \/ UnlinkCommand(j)
  BY <1>1 DEF ReadCommand, UnlinkCommand
<1>2. CASE CheckCancel(j)
  <2>1. /\ UNCHANGED <<verdict, marker, early>>
        /\ wpc'[j] \in {"spawn", "fail", "done"}
        /\ \A i \in Jobs : i # j => wpc'[i] = wpc[i]
        /\ \A i \in Jobs : cproc'[i] = "none" <=> cproc[i] = "none"
    BY <1>2 DEF CheckCancel, WorkerEnds
  <2>2. \A i \in Jobs : result'[i] \in {result[i], "canceled", "start_failed"}
    BY <1>2 DEF CheckCancel, WriteResult, WriteBreaks
  <2> QED BY <2>1, <2>2
<1>3. CASE SpawnCommand(j)
  BY <1>3 DEF SpawnCommand
<1>4. CASE RecordChild(j) \/ PatchRaises(j)
  BY <1>4 DEF RecordChild, PatchRaises
<1>5. CASE SeeCancel(j) \/ SeeDeadline(j)
  BY ZenonT(60), <1>5 DEF SeeCancel, SeeDeadline
<1>6. CASE KillCommand(j)
  BY <1>6 DEF KillCommand
<1>7. CASE WaitCommand(j)
  BY <1>7 DEF WaitCommand
<1>8. CASE Classify(j)
  BY <1>8 DEF Classify
<1>9. CASE Finish(j)
  <2>1. /\ UNCHANGED <<verdict, marker, early>>
        /\ wpc[j] = "finish" /\ wpc'[j] \in {"fail", "done"}
        /\ \A i \in Jobs : i # j => wpc'[i] = wpc[i]
        /\ \A i \in Jobs : cproc'[i] = "none" <=> cproc[i] = "none"
    BY <1>9 DEF Finish, WorkerEnds
  <2>2. /\ \A i \in Jobs : i # j => result'[i] = result[i]
        /\ result'[j] = Outcome(j)
    BY <1>9 DEF Finish, WriteResult, WriteBreaks
  <2>3. j \in early => Outcome(j) \in {"canceled", "timed_out"}
    BY <2>1 DEF Outcome
  <2> QED BY <2>1, <2>2, <2>3
<1>10. CASE Fail(j)
  <2>1. /\ UNCHANGED <<verdict, marker, early>>
        /\ wpc'[j] = "done"
        /\ \A i \in Jobs : i # j => wpc'[i] = wpc[i]
        /\ \A i \in Jobs : cproc'[i] = "none" <=> cproc[i] = "none"
    BY <1>10 DEF Fail, WorkerEnds
  <2>2. \A i \in Jobs : result'[i] \in {result[i], "start_failed"}
    BY <1>10 DEF Fail, WriteResult
  <2> QED BY <2>1, <2>2
<1>11. CASE WorkerKilled(j)
  BY <1>11 DEF WorkerKilled, WorkerEnds
<1>12. CASE CommandExits(j)
  BY <1>12 DEF CommandExits, Killed
<1> QED
  BY <1>1, <1>2, <1>3, <1>4, <1>5, <1>6, <1>7, <1>8, <1>9, <1>10, <1>11, <1>12 DEF WorkerNext

\* What is known of every reachable state.
JobsInv == TypeInv /\ LaunchInv /\ FilesInv /\ KeyInv

LEMMA JobsInvariant == Spec => []JobsInv
<1>1. Init => JobsInv
  BY TypeInvInit DEF Init, JobsInv, LaunchInv, Creating, BeforeSpawn, Running, FilesInv, WorkerInv,
     TerminalForgetsCommand, ResultMeansExited, NoMeta, Known, KeyInv, MappingInv,
     CleanedKeyIsTombstoned, NoMap
<1>2. JobsInv /\ [Next]_vars => JobsInv'
  <2>1. CASE Next
    BY <2>1, ServerTypeInv, WorkerTypeInv, ServerLaunchInv, WorkerLaunchInv, ServerFilesInv,
       WorkerFilesInv, ServerKeyInv, WorkerKeyInv DEF Next, JobsInv
  <2>2. CASE UNCHANGED vars
    BY <2>2 DEF vars, serverVars, fileVars, procVars, histVars, JobsInv, TypeInv, TypeOK, InHandler,
       LaunchInv, FilesInv, WorkerInv, TerminalForgetsCommand, ResultMeansExited, KeyInv, MappingInv,
       CleanedKeyIsTombstoned, Known, Running
  <2> QED BY <2>1, <2>2
<1> QED BY <1>1, <1>2, PTL DEF Spec

\* A cancellation requested before the command had exited is never reported as
\* completed or failed, whatever is lost, killed or fails to be written.
THEOREM CancelIsHeeded == Spec => []CancelIsAuthoritative
<1>1. Init => CancelInv
  BY DEF Init, CancelInv, CancelIsAuthoritative
<1>2. JobsInv /\ CancelInv /\ [Next]_vars => CancelInv'
  <2>1. CASE Next
    BY <2>1, ServerCancelInv, WorkerCancelInv DEF Next, JobsInv, FilesInv
  <2>2. CASE UNCHANGED vars
    BY <2>2 DEF vars, serverVars, fileVars, procVars, histVars, CancelInv, CancelIsAuthoritative
  <2> QED BY <2>1, <2>2
<1>3. CancelInv => CancelIsAuthoritative
  BY DEF CancelInv
<1> QED BY <1>1, <1>2, <1>3, JobsInvariant, PTL DEF Spec

-----------------------------------------------------------------------------
(* A result is written once.                                                *)

\* While its worker is under way a job has no result.
OnceInv == \A j \in Jobs : InProgress(j) => result[j] = "none"

\* A result stays, unless the server removes the directory it is in.
Kept == \A j \in Jobs : result[j] # "none" => result'[j] = result[j] \/ (srv = "rmtree" /\ cur = j)

\* No step of the server changes a result that is there.
LEMMA ServerOnce == TypeInv /\ LaunchInv /\ WorkerInv /\ OnceInv /\ ServerNext => OnceInv' /\ Kept
<1> SUFFICES ASSUME TypeInv, LaunchInv, WorkerInv, OnceInv, ServerNext PROVE OnceInv' /\ Kept
  OBVIOUS
<1> USE DEF serverVars, fileVars, procVars, histVars, TypeInv, TypeOK, InHandler, OnceInv, Kept,
        InProgress
<1>1. ASSUME UNCHANGED <<wpc, result>> PROVE OnceInv' /\ Kept
  BY <1>1
<1>2. ASSUME NEW k \in Keys, StartReuse(k) PROVE OnceInv' /\ Kept
  BY <1>1, <1>2 DEF StartReuse
<1>3. ASSUME NEW k \in Keys \cup {NoKey}, StartRefused(k) PROVE OnceInv' /\ Kept
  BY <1>1, <1>3 DEF StartRefused
<1>4. ASSUME NEW k \in Keys \cup {NoKey}, NEW j \in Jobs, StartAccepted(k, j) PROVE OnceInv' /\ Kept
  BY <1>1, <1>4 DEF StartAccepted
<1>5. CASE WriteCommand \/ WriteMetadata \/ WriteMapping \/ RecordWorker \/ StartRaises
  BY <1>1, <1>5 DEF WriteCommand, WriteMetadata, WriteMapping, RecordWorker, StartRaises
<1>6. CASE Launch
  BY <1>6 DEF Launch, WorkerInv, Creating
<1>7. CASE LaunchFails
  BY <1>7 DEF LaunchFails, WorkerInv, Creating
<1>8. CASE RemoveTree
  BY <1>8 DEF RemoveTree
<1>9. CASE StopsInRemoveTree
  BY <1>9 DEF StopsInRemoveTree, ServerDies
<1>10. CASE RecoverEnd \/ ServerStops \/ ServerStarts \/ Reap
  BY <1>1, <1>10 DEF RecoverEnd, ServerStops, ServerDies, ServerStarts, Reap
<1>11. ASSUME NEW j \in Jobs, Observe(j) \/ CancelPoll(j) \/ CancelEnd(j) \/ Cleanup(j) \/ RecoverOne(j)
       PROVE  OnceInv' /\ Kept
  BY <1>1, <1>11 DEF Observe, CancelPoll, CancelEnd, Cleanup, RecoverOne
<1>12. ASSUME NEW j \in Jobs, CancelBegin(j) \/ CancelDeadline(j) PROVE OnceInv' /\ Kept
  BY <1>1, <1>12 DEF CancelBegin, CancelDeadline
<1>13. ASSUME NEW j \in Jobs, StopsInStatus(j) PROVE OnceInv' /\ Kept
  BY <1>1, <1>13 DEF StopsInStatus, ServerDies
<1> QED
  BY <1>2, <1>3, <1>4, <1>5, <1>6, <1>7, <1>8, <1>9, <1>10, <1>11, <1>12, <1>13 DEF ServerNext

\* A worker that has written a result has ended with it, if it wrote it whole.
LEMMA WorkerOnce ==
  ASSUME Undamaged, TypeInv, OnceInv, NEW j \in Jobs,
         WorkerNext(j) \/ WorkerKilled(j) \/ CommandExits(j)
  PROVE  OnceInv' /\ Kept
<1> USE DEF serverVars, fileVars, procVars, histVars, TypeInv, TypeOK, OnceInv, Kept, InProgress,
        WorkerAt, Goto
<1>1. CASE ReadCommand(j) \/ UnlinkCommand(j)
  BY <1>1 DEF ReadCommand, UnlinkCommand
<1>2. CASE CheckCancel(j)
  <2>1. CASE Goto(j, "spawn") /\ UNCHANGED result
    BY <1>2, <2>1 DEF CheckCancel
  <2>2. CASE WriteResult(j, "canceled") /\ WorkerEnds(j)
    BY <1>2, <2>2 DEF CheckCancel, WriteResult, WorkerEnds
  <2> QED BY <1>2, <2>1, <2>2 DEF CheckCancel, WriteBreaks, Undamaged
<1>3. CASE SpawnCommand(j)
  BY <1>3 DEF SpawnCommand
<1>4. CASE RecordChild(j) \/ PatchRaises(j)
  BY <1>4 DEF RecordChild, PatchRaises
<1>5. CASE SeeCancel(j) \/ SeeDeadline(j) \/ KillCommand(j)
  BY <1>5 DEF SeeCancel, SeeDeadline, KillCommand
<1>6. CASE WaitCommand(j) \/ Classify(j)
  BY <1>6 DEF WaitCommand, Classify
<1>7. CASE Finish(j)
  <2>1. WriteResult(j, Outcome(j)) /\ WorkerEnds(j)
    BY <1>7 DEF Finish, WriteBreaks, Undamaged
  <2> QED BY <1>7, <2>1 DEF Finish, WriteResult, WorkerEnds
<1>8. CASE Fail(j)
  BY <1>8 DEF Fail, WriteResult, WorkerEnds
<1>9. CASE WorkerKilled(j)
  BY <1>9 DEF WorkerKilled, WorkerEnds
<1>10. CASE CommandExits(j)
  BY <1>10 DEF CommandExits
<1> QED
  BY <1>1, <1>2, <1>3, <1>4, <1>5, <1>6, <1>7, <1>8, <1>9, <1>10 DEF WorkerNext

LEMMA OnceStep ==
  ASSUME Undamaged
  PROVE  JobsInv /\ OnceInv /\ [Next]_vars => OnceInv' /\ Kept
<1> SUFFICES ASSUME JobsInv, OnceInv, [Next]_vars PROVE OnceInv' /\ Kept
  OBVIOUS
<1>1. CASE Next
  BY <1>1, ServerOnce, WorkerOnce DEF Next, JobsInv, FilesInv
<1>2. CASE UNCHANGED vars
  BY <1>2 DEF vars, fileVars, procVars, OnceInv, InProgress, Kept
<1> QED BY <1>1, <1>2

LEMMA OnceInvariant == ASSUME Undamaged PROVE Spec => [](JobsInv /\ OnceInv)
<1>1. Init => OnceInv
  BY DEF Init, OnceInv
<1> QED BY <1>1, OnceStep, JobsInvariant, PTL DEF Spec

\* What result.json says is final, whatever is lost or killed, as long as no
\* write fails half way (_write_result and the handler of its exception).
THEOREM ResultWrittenOnce == ASSUME Undamaged PROVE Spec => ResultIsFinal
<1> QED BY OnceStep, OnceInvariant, PTL DEF Spec, ResultIsFinal, Kept

-----------------------------------------------------------------------------
(* What runs is known to run.                                               *)

\* As long as the server lives to note what it has started, a worker under
\* way is alive, its job is known, and its identity is recorded as soon as a
\* reader can ask.
AwareInv ==
  \A j \in Jobs : InProgress(j) =>
    /\ Running(j) /\ Known(j)
    /\ meta[j].worker \/ (srv = "patch" /\ cur = j)
    /\ ~(srv = "rmtree" /\ cur = j)

\* As long as no worker dies either, it is there until its command has been
\* waited for.
HeldInv ==
  \A j \in Jobs : cproc[j] \in {"alive", "zombie"} => wpc[j] \in {"record", "poll", "terminate"}

RunInv == AwareInv /\ HeldInv

\* The result is the status; without one, only a job of which neither worker
\* nor command is known to live is over.
LEMMA StatusOver ==
  ASSUME NEW j \in Jobs
  PROVE  /\ result[j] # "none" => Status(j) = result[j]
         /\ result[j] = "none" /\ (ChildAlive(j) \/ WorkerAlive(j)) => Status(j) \notin Terminal
         /\ result[j] = "none" /\ ~ChildAlive(j) /\ ~WorkerAlive(j) => Status(j) = "interrupted"
<1> QED BY DEF Status, Terminal

\* So a job that a reader finds over has no worker under way.
LEMMA OverMeansEnded ==
  ASSUME OnceInv, AwareInv, NEW j \in Jobs, Visible(j), Status(j) \in Terminal
  PROVE  /\ ~InProgress(j)
         /\ result[j] # "none" \/ (~WorkerAlive(j) /\ ~ChildAlive(j))
<1>1. result[j] = "none" => ~WorkerAlive(j) /\ ~ChildAlive(j)
  BY StatusOver
<1>2. ~InProgress(j)
  <2> SUFFICES ASSUME InProgress(j) PROVE FALSE
    OBVIOUS
  <2>1. result[j] = "none"
    BY DEF OnceInv
  <2>2. Running(j) /\ meta[j].worker
    BY DEF AwareInv, Visible
  <2> QED BY <1>1, <2>1, <2>2 DEF WorkerAlive, Running
<1> QED BY <1>1, <1>2

\* A status check changes neither what is known nor who is recorded.
LEMMA ReconcileRecords ==
  ASSUME TypeOK, NEW S \in SUBSET Jobs, Reconcile(S)
  PROVE  \A i \in Jobs : /\ Known(i)' <=> Known(i)
                         /\ meta'[i].worker = meta[i].worker /\ meta'[i].child = meta[i].child
<1>1. \A i \in Jobs : meta'[i] = meta[i] \/ meta'[i] = [meta[i] EXCEPT !.status = "interrupted"]
  BY DEF Reconcile
<1>2. \A i \in Jobs : LET new == [meta[i] EXCEPT !.status = "interrupted"]
                     IN  new.worker = meta[i].worker /\ new.child = meta[i].child
  BY DEF TypeOK
<1> QED BY <1>1, <1>2, ReconcileFiles

\* Nor does a worker, except that a job it reports on stays known and that it
\* records its own command.
LEMMA WorkerRecords ==
  ASSUME TypeInv, NEW j \in Jobs, WorkerNext(j) \/ WorkerKilled(j) \/ CommandExits(j)
  PROVE  /\ UNCHANGED <<srv, cur, used>>
         /\ \A i \in Jobs : (Known(i) => Known(i)') /\ meta'[i].worker = meta[i].worker
         /\ \A i \in Jobs : i # j => meta'[i] = meta[i]
<1>1. UNCHANGED <<srv, cur, used>>
  BY DEF WorkerNext, ReadCommand, UnlinkCommand, CheckCancel, SpawnCommand, RecordChild, PatchRaises,
     SeeCancel, SeeDeadline, KillCommand, WaitCommand, Classify, Finish, Fail, WorkerKilled,
     CommandExits, serverVars, histVars
<1>2. \/ UNCHANGED meta
      \/ \E s \in Results : meta' = [meta EXCEPT ![j].status = s]
      \/ meta' = [meta EXCEPT ![j] = [@ EXCEPT !.status = "running", !.child = TRUE]]
  <2>1. ASSUME NEW s \in Results, WriteResult(j, s) \/ WriteBreaks(j, s)
        PROVE  UNCHANGED meta \/ meta' = [meta EXCEPT ![j].status = s]
    BY <2>1 DEF WriteResult, WriteBreaks
  <2>2. "canceled" \in Results /\ "start_failed" \in Results
    BY DEF Results, Terminal
  <2>3. Outcome(j) \in Results
    BY DEF Outcome, Results, Terminal, TypeInv, TypeOK
  <2>4. CASE CheckCancel(j)
    BY <2>1, <2>2, <2>4 DEF CheckCancel
  <2>5. CASE Finish(j)
    BY <2>1, <2>3, <2>5 DEF Finish
  <2>6. CASE Fail(j)
    BY <2>1, <2>2, <2>6 DEF Fail
  <2>7. CASE RecordChild(j)
    BY <2>7 DEF RecordChild
  <2> QED
    BY <2>4, <2>5, <2>6, <2>7 DEF WorkerNext, ReadCommand, UnlinkCommand, SpawnCommand, PatchRaises,
       SeeCancel, SeeDeadline, KillCommand, WaitCommand, Classify, WorkerKilled, CommandExits, fileVars
<1>3. meta[j] \in Metas /\ meta \in [Jobs -> Metas] /\ "none" \notin Results
  BY DEF TypeInv, TypeOK, Metas, Statuses, Results, Terminal
<1>4. \A s : [meta[j] EXCEPT !.status = s].worker = meta[j].worker /\ [meta[j] EXCEPT !.status = s].status = s
  BY <1>3 DEF Metas
<1>5. /\ [meta[j] EXCEPT !.status = "running", !.child = TRUE].worker = meta[j].worker
      /\ [meta[j] EXCEPT !.status = "running", !.child = TRUE].status = "running"
  BY <1>3 DEF Metas
<1>6. \A i \in Jobs : i # j => meta'[i] = meta[i]
  BY <1>2, <1>3
<1>7. meta'[j].worker = meta[j].worker /\ (meta'[j].status # "none" \/ UNCHANGED meta)
  <2>1. CASE UNCHANGED meta
    BY <2>1
  <2>2. ASSUME NEW s \in Results, meta' = [meta EXCEPT ![j].status = s]
        PROVE  meta'[j].worker = meta[j].worker /\ meta'[j].status # "none"
    <3>1. meta'[j] = [meta[j] EXCEPT !.status = s]
      BY <1>3, <2>2
    <3> QED BY <1>3, <1>4, <3>1
  <2>3. CASE meta' = [meta EXCEPT ![j] = [@ EXCEPT !.status = "running", !.child = TRUE]]
    <3>1. meta'[j] = [meta[j] EXCEPT !.status = "running", !.child = TRUE]
      BY <1>3, <2>3
    <3> QED BY <1>5, <3>1
  <2> QED BY <1>2, <2>1, <2>2, <2>3
<1> QED BY <1>1, <1>6, <1>7 DEF Known

\* Every server step leaves the workers known.
LEMMA ServerRunInv ==
  ASSUME Calm, JobsInv, OnceInv, AwareInv, ServerNext
  PROVE  AwareInv' /\ (HeldInv => HeldInv')
<1> DEFINE Goal == AwareInv' /\ (HeldInv => HeldInv')
<1> USE DEF serverVars, fileVars, procVars, histVars, Calm, JobsInv, TypeInv, TypeOK,
        InHandler, AwareInv, HeldInv, InProgress, Running
<1>1. ASSUME UNCHANGED <<wpc, wproc, cproc>>, srv \notin {"patch", "rmtree"}, srv' # "rmtree",
             \A i \in Jobs : (Known(i)' <=> Known(i)) /\ meta'[i].worker = meta[i].worker
      PROVE  Goal
  BY <1>1
<1>2. ASSUME NEW k \in Keys, StartReuse(k) PROVE Goal
  BY <1>1, <1>2, ReconcileRecords DEF StartReuse
<1>3. ASSUME NEW k \in Keys \cup {NoKey}, StartRefused(k) PROVE Goal
  BY <1>1, <1>3, ReconcileRecords DEF StartRefused
<1>4. ASSUME NEW k \in Keys \cup {NoKey}, NEW j \in Jobs, StartAccepted(k, j) PROVE Goal
  BY <1>1, <1>4, ReconcileRecords DEF StartAccepted
<1>5. CASE WriteCommand \/ WriteMapping \/ RecoverEnd \/ ServerStarts
  BY <1>1, <1>5 DEF WriteCommand, WriteMapping, RecoverEnd, ServerStarts, Known
<1>6. CASE WriteMetadata
  BY <1>6 DEF WriteMetadata, LaunchInv, Creating, Known
<1>7. CASE Launch
  <2>1. Known(cur) /\ wpc[cur] = "none" /\ cproc[cur] = "none" /\ cur \in Jobs
    BY <1>7 DEF Launch, KeyInv, MappingInv, FilesInv, WorkerInv, BeforeSpawn, Creating
  <2>2. /\ srv = "launch" /\ srv' = "patch" /\ UNCHANGED <<cur, meta, cproc>>
        /\ wpc'[cur] = "read" /\ wproc'[cur] = "alive"
        /\ \A i \in Jobs : i # cur => wpc'[i] = wpc[i] /\ (Running(i) => wproc'[i] = wproc[i])
    BY <1>7, <2>1 DEF Launch, ReapAll
  <2> QED BY <2>1, <2>2 DEF Known
<1>8. CASE LaunchFails
  <2>1. cur \in Jobs /\ wpc[cur] = "none"
    BY <1>8 DEF LaunchFails, LaunchInv, Creating
  <2>2. \A i \in Jobs : i # cur => meta'[i] = meta[i]
    BY <1>8 DEF LaunchFails
  <2> QED BY <1>8, <2>1, <2>2 DEF LaunchFails, ReapAll, Known
<1>9. CASE RecordWorker
  <2>1. cur \in Jobs
    BY <1>9 DEF RecordWorker
  <2>2. meta[cur] \in Metas
    BY <2>1 DEF Metas, Statuses
  <2>3. LET new == [meta[cur] EXCEPT !.worker = TRUE]
        IN  new.worker /\ new.status = meta[cur].status
    BY <2>2 DEF Metas
  <2> QED BY <1>9, <2>1, <2>3 DEF RecordWorker, Known
<1>10. CASE RemoveTree
  BY <1>10 DEF RemoveTree, Known
<1>11. CASE ServerStops
  BY <1>11 DEF ServerStops, ServerDies, Known
<1>12. CASE Reap
  BY <1>12 DEF Reap, ReapAll, Known
<1>13. ASSUME NEW j \in Jobs, Observe(j) \/ CancelPoll(j) \/ CancelEnd(j) PROVE Goal
  <2>1. UNCHANGED meta \/ Reconcile({j})
    BY <1>13 DEF Observe, CancelPoll, CancelEnd
  <2>2. \A i \in Jobs : (Known(i)' <=> Known(i)) /\ meta'[i].worker = meta[i].worker
    BY ZenonT(60), <2>1, ReconcileRecords DEF Known
  <2> QED BY <1>1, <1>13, <2>2 DEF Observe, CancelPoll, CancelEnd
<1>14. ASSUME NEW j \in Jobs, CancelBegin(j) PROVE Goal
  BY <1>1, <1>14 DEF CancelBegin, Known
<1>15. ASSUME NEW j \in Jobs, CancelDeadline(j) PROVE Goal
  BY <1>15 DEF CancelDeadline, Killed, Known
<1>16. ASSUME NEW j \in Jobs, CleanupMark(j), srv \in {"idle", "recover"}, UNCHANGED <<wpc, wproc, cproc>>
       PROVE  Goal
  <2>1. ~InProgress(j)
    BY <1>16, OverMeansEnded DEF CleanupMark, Visible
  <2>2. \A i \in Jobs : (Known(i)' <=> Known(i)) /\ meta'[i].worker = meta[i].worker
    BY ZenonT(60), <1>16, ReconcileRecords DEF CleanupMark
  <2> QED BY <1>16, <2>1, <2>2 DEF CleanupMark
<1>17. ASSUME NEW j \in Jobs, Cleanup(j) PROVE Goal
  BY <1>16, <1>17 DEF Cleanup
<1>18. ASSUME NEW j \in Jobs, RecoverOne(j) PROVE Goal
  <2>1. CASE UNCHANGED srv /\ (UNCHANGED meta \/ Reconcile({j}))
    <3>1. \A i \in Jobs : (Known(i)' <=> Known(i)) /\ meta'[i].worker = meta[i].worker
      BY <2>1, ReconcileRecords DEF Known
    <3> QED BY <1>1, <1>18, <2>1, <3>1 DEF RecoverOne
  <2>2. CASE CleanupMark(j)
    BY <1>16, <1>18, <2>2 DEF RecoverOne
  <2> QED BY <1>18, <2>1, <2>2 DEF RecoverOne
<1>19. ~StartRaises /\ ~StopsInRemoveTree /\ \A j \in Jobs : ~StopsInStatus(j)
  BY SMTT(30) DEF StartRaises, StopsInRemoveTree, StopsInStatus
<1> QED
  BY <1>2, <1>3, <1>4, <1>5, <1>6, <1>7, <1>8, <1>9, <1>10, <1>11, <1>12, <1>13, <1>14, <1>15,
     <1>17, <1>18, <1>19
  DEF ServerNext

\* A worker is there until its command has been waited for.
LEMMA WorkerRunInv ==
  ASSUME Calm, JobsInv, AwareInv, NEW j \in Jobs,
         WorkerNext(j) \/ WorkerKilled(j) \/ CommandExits(j)
  PROVE  AwareInv' /\ ("worker_kill" \notin Faults /\ HeldInv => HeldInv')
<1> DEFINE Goal == AwareInv' /\ ("worker_kill" \notin Faults /\ HeldInv => HeldInv')
<1>0. /\ UNCHANGED <<srv, cur>>
      /\ \A i \in Jobs : (Known(i) => Known(i)') /\ meta'[i].worker = meta[i].worker
  BY WorkerRecords DEF JobsInv
<1> USE DEF serverVars, fileVars, procVars, histVars, Calm, JobsInv, TypeInv, TypeOK, AwareInv,
        HeldInv, InProgress, Running, WorkerAt, Goto
<1>1. ASSUME UNCHANGED <<wproc, cproc>>, InProgress(j), \A i \in Jobs : i # j => wpc'[i] = wpc[i],
             HeldInv /\ cproc[j] \in {"alive", "zombie"} => wpc'[j] \in {"record", "poll", "terminate"}
      PROVE  Goal
  BY <1>0, <1>1
<1>2. ASSUME WorkerEnds(j), HeldInv => cproc[j] # "alive" PROVE Goal
  BY <1>0, <1>2 DEF WorkerEnds
<1>3. CASE ReadCommand(j) \/ UnlinkCommand(j)
  <2>1. /\ wpc[j] \in {"read", "unlink"} /\ UNCHANGED <<wproc, cproc>>
        /\ \A i \in Jobs : i # j => wpc'[i] = wpc[i]
    BY <1>3 DEF ReadCommand, UnlinkCommand
  <2> QED BY <1>1, <2>1
<1>4. CASE CheckCancel(j)
  <2>1. CASE Goto(j, "spawn") /\ UNCHANGED <<wproc, cproc>>
    BY SMTT(30), <1>1, <1>4, <2>1 DEF CheckCancel
  <2>2. CASE WorkerEnds(j)
    BY <1>2, <1>4, <2>2 DEF CheckCancel
  <2> QED BY <1>4, <2>1, <2>2 DEF CheckCancel, WriteBreaks
<1>5. CASE SpawnCommand(j)
  <2>1. /\ wpc[j] = "spawn" /\ UNCHANGED wproc
        /\ \A i \in Jobs : i # j => wpc'[i] = wpc[i] /\ cproc'[i] = cproc[i]
        /\ wpc'[j] = "record" \/ (wpc'[j] = "fail" /\ cproc'[j] = cproc[j])
    BY <1>5 DEF SpawnCommand
  <2> QED BY <1>0, <2>1
<1>6. CASE RecordChild(j)
  BY <1>1, <1>6 DEF RecordChild
<1>7. CASE PatchRaises(j)
  BY <1>7 DEF PatchRaises
<1>8. CASE SeeCancel(j) \/ SeeDeadline(j)
  BY <1>1, <1>8 DEF SeeCancel, SeeDeadline
<1>9. CASE KillCommand(j)
  BY <1>0, <1>9 DEF KillCommand
<1>10. CASE WaitCommand(j)
  BY <1>0, <1>10 DEF WaitCommand
<1>11. CASE Classify(j)
  BY SMTT(30), <1>1, <1>11 DEF Classify
<1>12. CASE Finish(j)
  BY <1>2, <1>12 DEF Finish, WriteBreaks
<1>13. CASE Fail(j)
  BY <1>2, <1>13 DEF Fail
<1>14. CASE WorkerKilled(j)
  BY <1>0, <1>14 DEF WorkerKilled, WorkerEnds
<1>15. CASE CommandExits(j)
  BY <1>0, <1>15 DEF CommandExits, Killed
<1> QED
  BY <1>3, <1>4, <1>5, <1>6, <1>7, <1>8, <1>9, <1>10, <1>11, <1>12, <1>13, <1>14, <1>15 DEF WorkerNext

LEMMA AwareInvariant == ASSUME Calm PROVE Spec => [](JobsInv /\ OnceInv /\ AwareInv)
<1>1. Undamaged
  BY DEF Calm, Undamaged
<1>2. Init => AwareInv
  BY DEF Init, AwareInv, InProgress
<1>3. JobsInv /\ OnceInv /\ AwareInv /\ [Next]_vars => AwareInv'
  <2>1. CASE Next
    BY <2>1, ServerRunInv, WorkerRunInv DEF Next
  <2>2. CASE UNCHANGED vars
    BY <2>2 DEF vars, serverVars, fileVars, procVars, AwareInv, InProgress, Running, Known
  <2> QED BY <2>1, <2>2
<1>4. Spec => [](JobsInv /\ OnceInv)
  BY <1>1, OnceInvariant
<1> QED BY <1>2, <1>3, <1>4, PTL DEF Spec

LEMMA RunInvariant == ASSUME Orderly PROVE Spec => [](JobsInv /\ OnceInv /\ RunInv)
<1>1. Calm /\ "worker_kill" \notin Faults
  BY DEF Orderly, Calm
<1>2. Init => HeldInv
  BY DEF Init, HeldInv
<1>3. JobsInv /\ OnceInv /\ AwareInv /\ HeldInv /\ [Next]_vars => HeldInv'
  <2>1. CASE Next
    BY <1>1, <2>1, ServerRunInv, WorkerRunInv DEF Next
  <2>2. CASE UNCHANGED vars
    BY <2>2 DEF vars, procVars, HeldInv
  <2> QED BY <2>1, <2>2
<1>4. Spec => [](JobsInv /\ OnceInv /\ AwareInv)
  BY <1>1, AwareInvariant
<1> QED BY <1>2, <1>3, <1>4, PTL DEF Spec, RunInv

\* A job that a reader finds over has no command running (job_status,
\* job_cleanup), in every environment in which processes note what they start.
THEOREM OverIsStopped == ASSUME Orderly PROVE Spec => []TerminalMeansStopped
<1>1. JobsInv /\ OnceInv /\ RunInv => TerminalMeansStopped
  BY OverMeansEnded DEF TerminalMeansStopped, RunInv, HeldInv, InProgress
<1>2. Spec => [](JobsInv /\ OnceInv /\ RunInv)
  BY RunInvariant
<1> QED BY <1>1, <1>2, PTL

-----------------------------------------------------------------------------
(* The limit.                                                               *)

\* The jobs under way, and the one that is being created.
Busy == {j \in Jobs : InProgress(j)} \cup {j \in Jobs : srv \in Creating /\ cur = j}

BoundInv == IsFiniteSet(used) /\ Cardinality(Busy) <= MaxJobs

LEMMA BusyIsUsed == ASSUME JobsInv PROVE Busy \subseteq used /\ Active \subseteq used
<1>1. \A j \in Jobs : j \notin used => wpc[j] = "none" /\ ~Known(j)
  BY DEF JobsInv, FilesInv, WorkerInv, Known, NoMeta
<1>2. srv \in Creating => cur \in used
  BY DEF JobsInv, LaunchInv
<1> QED BY <1>1, <1>2 DEF Busy, InProgress, Active

\* Where the server accepts a job, every job under way takes a slot.
LEMMA BusyIsActive ==
  ASSUME JobsInv, OnceInv, RunInv, srv = "idle"
  PROVE  Busy \subseteq Active
<1> SUFFICES ASSUME NEW j \in Busy PROVE j \in Active
  OBVIOUS
<1>1. j \in Jobs /\ InProgress(j)
  BY DEF Busy, Creating
<1>2. result[j] = "none" /\ Running(j) /\ Known(j) /\ meta[j].worker
  BY <1>1 DEF OnceInv, RunInv, AwareInv
<1>3. WorkerAlive(j)
  BY <1>2 DEF Running, WorkerAlive
<1> QED BY <1>1, <1>2, <1>3, StatusOver DEF Active

\* Only an accepted request makes a job busy.
LEMMA BusyGrows ==
  ASSUME JobsInv, Next
  PROVE  \/ Busy' \subseteq Busy /\ used' = used
         \/ \E k \in Keys \cup {NoKey}, j \in Jobs : StartAccepted(k, j)
<1> USE DEF serverVars, fileVars, procVars, histVars, Busy, InProgress, Creating, JobsInv,
        TypeInv, TypeOK,
        InHandler
<1> DEFINE Shrinks == Busy' \subseteq Busy /\ used' = used
<1>1. ASSUME NEW j \in Jobs, WorkerNext(j) \/ WorkerKilled(j) \/ CommandExits(j) PROVE Shrinks
  <2>1. UNCHANGED <<srv, cur, used>>
    BY <1>1, WorkerRecords
  <2>2. \A i \in Jobs : InProgress(i)' => InProgress(i)
    BY <1>1 DEF WorkerNext, ReadCommand, UnlinkCommand, CheckCancel, SpawnCommand, RecordChild,
       PatchRaises, SeeCancel, SeeDeadline, KillCommand, WaitCommand, Classify, Finish, Fail,
       WorkerKilled, CommandExits, WorkerAt, Goto, WorkerEnds
  <2> QED BY <2>1, <2>2
<1>2. ASSUME ServerNext, \A k \in Keys \cup {NoKey}, j \in Jobs : ~StartAccepted(k, j) PROVE Shrinks
  <2>1. CASE Launch
    BY <2>1 DEF Launch
  <2>2. CASE WriteCommand \/ WriteMetadata \/ WriteMapping
    BY <2>2 DEF WriteCommand, WriteMetadata, WriteMapping
  <2>3. ASSUME used' = used, wpc' = wpc, srv' \notin Creating PROVE Shrinks
    BY <2>3
  <2>4. CASE LaunchFails \/ RecordWorker \/ StartRaises \/ RemoveTree \/ RecoverEnd
    BY <2>3, <2>4 DEF LaunchFails, RecordWorker, StartRaises, RemoveTree, RecoverEnd
  <2>5. CASE ServerStops \/ StopsInRemoveTree \/ ServerStarts \/ Reap
    BY <2>3, <2>5 DEF ServerStops, StopsInRemoveTree, ServerDies, ServerStarts, Reap
  <2>6. ASSUME NEW k \in Keys \cup {NoKey}, StartReuse(k) \/ StartRefused(k) PROVE Shrinks
    BY <2>3, <2>6 DEF StartReuse, StartRefused
  <2>7. ASSUME NEW j \in Jobs, Observe(j) \/ CancelBegin(j) \/ CancelPoll(j) \/ CancelDeadline(j) \/ CancelEnd(j)
        PROVE  Shrinks
    BY <2>3, <2>7 DEF Observe, CancelBegin, CancelPoll, CancelDeadline, CancelEnd
  <2>8. ASSUME NEW j \in Jobs, Cleanup(j) \/ RecoverOne(j) PROVE Shrinks
    BY <2>3, <2>8 DEF Cleanup, RecoverOne, CleanupMark
  <2>9. ASSUME NEW j \in Jobs, StopsInStatus(j) PROVE Shrinks
    BY <2>3, <2>9 DEF StopsInStatus, ServerDies
  <2> QED BY <1>2, <2>1, <2>2, <2>4, <2>5, <2>6, <2>7, <2>8, <2>9 DEF ServerNext
<1> QED BY <1>1, <1>2 DEF Next

LEMMA BoundStep ==
  ASSUME JobsInv, OnceInv, RunInv, BoundInv, Next
  PROVE  BoundInv'
<1>1. Busy \subseteq used /\ Active \subseteq used
  BY BusyIsUsed
<1>2. /\ IsFiniteSet(Busy) /\ Cardinality(Busy) \in Nat
      /\ IsFiniteSet(Active) /\ Cardinality(Active) \in Nat
  BY <1>1, FS_Subset, FS_CardinalityType DEF BoundInv
<1>3. CASE Busy' \subseteq Busy /\ used' = used
  <2>1. Cardinality(Busy') <= Cardinality(Busy) /\ Cardinality(Busy') \in Nat
    BY <1>2, <1>3, FS_Subset, FS_CardinalityType
  <2> QED BY <1>2, <1>3, <2>1, JobsAssumption DEF BoundInv
<1>4. ASSUME NEW k \in Keys \cup {NoKey}, NEW j \in Jobs, StartAccepted(k, j) PROVE BoundInv'
  <2>1. Cardinality(Busy) <= Cardinality(Active)
    BY <1>2, <1>4, BusyIsActive, FS_Subset DEF StartAccepted
  <2>2. Cardinality(Active) < MaxJobs
    BY <1>4 DEF StartAccepted
  <2>3. Busy' = Busy \cup {j}
    BY <1>4 DEF StartAccepted, Busy, Creating, InProgress, procVars
  <2>4. used' = used \cup {j} /\ j \notin Busy
    BY <1>1, <1>4 DEF StartAccepted
  <2>5. Cardinality(Busy') = Cardinality(Busy) + 1
    BY <1>2, <2>3, <2>4, FS_AddElement
  <2>6. IsFiniteSet(used')
    BY <2>4, FS_AddElement DEF BoundInv
  <2> QED BY <1>2, <2>1, <2>2, <2>5, <2>6, JobsAssumption DEF BoundInv
<1> QED BY <1>3, <1>4, BusyGrows

\* No more commands run at a time than max_jobs allows: a job is counted from
\* before its worker is launched until its command has been waited for
\* (_active_job_count).
THEOREM LimitIsKept == ASSUME Orderly PROVE Spec => []CommandsBounded
<1>1. Init => BoundInv
  <2> SUFFICES ASSUME Init PROVE BoundInv
    OBVIOUS
  <2>1. Busy = {} /\ used = {}
    BY DEF Init, Busy, InProgress, Creating
  <2> QED BY <2>1, FS_EmptySet, JobsAssumption DEF BoundInv
<1>2. JobsInv /\ OnceInv /\ RunInv /\ BoundInv /\ [Next]_vars => BoundInv'
  <2>1. ASSUME BoundInv, UNCHANGED vars PROVE BoundInv'
    BY <2>1 DEF vars, serverVars, procVars, histVars, BoundInv, Busy, InProgress
  <2> QED BY <2>1, BoundStep
<1>3. JobsInv /\ RunInv /\ BoundInv => CommandsBounded
  <2> SUFFICES ASSUME JobsInv, RunInv, BoundInv PROVE CommandsBounded
    OBVIOUS
  <2> DEFINE alive == {j \in Jobs : cproc[j] = "alive"}
  <2>1. alive \subseteq Busy
    BY DEF RunInv, HeldInv, Busy, InProgress
  <2>2. IsFiniteSet(Busy) /\ Cardinality(Busy) \in Nat
    BY BusyIsUsed, FS_Subset, FS_CardinalityType DEF BoundInv
  <2>3. Cardinality(alive) \in Nat /\ Cardinality(alive) <= Cardinality(Busy)
    BY <2>1, <2>2, FS_Subset, FS_CardinalityType
  <2> QED BY <2>2, <2>3, JobsAssumption DEF BoundInv, CommandsBounded
<1>4. Spec => [](JobsInv /\ OnceInv /\ RunInv)
  BY RunInvariant
<1> QED BY <1>1, <1>2, <1>3, <1>4, PTL DEF Spec

-----------------------------------------------------------------------------
(* A terminal status is the last one.                                       *)

\* Nothing a reader goes by changes for a job that is over, except that the
\* job is removed.
Settled(j) ==
  /\ result'[j] = result[j]
  /\ WorkerAlive(j)' => WorkerAlive(j)
  /\ ChildAlive(j)' => ChildAlive(j)

\* No server step brings a job that is over back.
LEMMA ServerSettles ==
  ASSUME Calm, JobsInv, NEW j \in Jobs, Visible(j), ServerNext
  PROVE  Settled(j) \/ ~Known(j)'
<1> USE DEF serverVars, fileVars, procVars, histVars, JobsInv, TypeInv, TypeOK, InHandler,
        Settled, WorkerAlive, ChildAlive
<1>0. ~(cur = j /\ srv \in Creating \cup {"patch"})
  BY DEF Visible, FilesInv, WorkerInv, Creating
<1>1. ASSUME UNCHANGED <<result, wproc, cproc>>, meta'[j].worker = meta[j].worker,
             meta'[j].child = meta[j].child
      PROVE  Settled(j)
  BY <1>1
<1>2. ASSUME NEW S \in SUBSET Jobs, Reconcile(S), UNCHANGED <<result, wproc, cproc>> PROVE Settled(j)
  BY <1>1, <1>2, ReconcileRecords
<1>3. ASSUME NEW k \in Keys \cup {NoKey}, NEW i \in Jobs, StartReuse(k) \/ StartRefused(k) \/ StartAccepted(k, i)
      PROVE  Settled(j)
  <2>1. CASE StartReuse(k)
    <3>1. {idem[k].job} \in SUBSET Jobs
      BY <2>1 DEF StartReuse
    <3> QED BY <1>2, <2>1, <3>1 DEF StartReuse
  <2>2. CASE StartRefused(k) \/ StartAccepted(k, i)
    BY <1>2, <2>2 DEF StartRefused, StartAccepted
  <2> QED BY <1>3, <2>1, <2>2
<1>4. CASE WriteCommand \/ WriteMapping \/ StartRaises \/ RecoverEnd \/ ServerStarts
  BY <1>1, <1>4 DEF WriteCommand, WriteMapping, StartRaises, RecoverEnd, ServerStarts
<1>5. CASE WriteMetadata \/ RecordWorker
  <2>1. cur \in Jobs /\ cur # j
    BY <1>0, <1>5 DEF WriteMetadata, RecordWorker, Creating
  <2> QED BY <1>1, <1>5, <2>1 DEF WriteMetadata, RecordWorker
<1>6. CASE Launch \/ LaunchFails
  <2>1. cur \in Jobs /\ cur # j
    BY <1>0, <1>6 DEF Launch, LaunchFails, Creating
  <2>2. meta'[j] = meta[j] /\ result'[j] = result[j] /\ cproc' = cproc
    BY <1>6, <2>1 DEF Launch, LaunchFails
  <2>3. wproc'[j] = wproc[j] \/ wproc'[j] = "gone"
    BY ZenonT(60), <1>6, <2>1 DEF Launch, LaunchFails, ReapAll
  <2> QED BY <2>2, <2>3
<1>7. CASE RemoveTree
  BY <1>7 DEF RemoveTree, Known, NoMeta
<1>8. CASE ServerStops
  BY <1>8 DEF ServerStops, ServerDies
<1>9. CASE Reap
  BY <1>9 DEF Reap, ReapAll
<1>10. ASSUME NEW i \in Jobs, Observe(i) \/ CancelPoll(i) \/ CancelEnd(i) \/ Cleanup(i) \/ RecoverOne(i)
       PROVE  Settled(j)
  BY <1>1, <1>2, <1>10 DEF Observe, CancelPoll, CancelEnd, Cleanup, RecoverOne, CleanupMark
<1>11. ASSUME NEW i \in Jobs, CancelBegin(i) PROVE Settled(j)
  BY <1>1, <1>11 DEF CancelBegin
<1>12. ASSUME NEW i \in Jobs, CancelDeadline(i) PROVE Settled(j)
  BY <1>12 DEF CancelDeadline
<1> QED
  BY <1>3, <1>4, <1>5, <1>6, <1>7, <1>8, <1>9, <1>10, <1>11, <1>12
  DEF ServerNext, StopsInRemoveTree, StopsInStatus, Calm

\* Nor does a worker: its own job is over only when it has ended.
LEMMA WorkerSettles ==
  ASSUME JobsInv, NEW j \in Jobs, ~InProgress(j), NEW i \in Jobs, WorkerNext(i)
  PROVE  Settled(j)
<1> USE DEF serverVars, fileVars, procVars, histVars, JobsInv, TypeInv, TypeOK, InProgress, WorkerAt, Goto
<1>1. i # j
  BY DEF WorkerNext, ReadCommand, UnlinkCommand, CheckCancel, SpawnCommand, RecordChild,
     PatchRaises, SeeCancel, SeeDeadline, KillCommand, WaitCommand, Classify, Finish, Fail
<1>2. meta'[j] = meta[j]
  BY <1>1, WorkerRecords
<1>3. result'[j] = result[j]
  BY <1>1 DEF WorkerNext, ReadCommand, UnlinkCommand, CheckCancel, SpawnCommand, RecordChild,
     PatchRaises, SeeCancel, SeeDeadline, KillCommand, WaitCommand, Classify, Finish, Fail,
     WriteResult, WriteBreaks
<1>4. wproc'[j] = wproc[j] /\ cproc'[j] = cproc[j]
  BY <1>1 DEF WorkerNext, ReadCommand, UnlinkCommand, CheckCancel, SpawnCommand, RecordChild,
     PatchRaises, SeeCancel, SeeDeadline, KillCommand, WaitCommand, Classify, Finish, Fail,
     WorkerEnds
<1> QED BY <1>2, <1>3, <1>4 DEF Settled, WorkerAlive, ChildAlive

\* Nor does the end of a worker or of a command.
LEMMA DeathSettles ==
  ASSUME JobsInv, NEW j \in Jobs, ~InProgress(j), NEW i \in Jobs, WorkerKilled(i) \/ CommandExits(i)
  PROVE  Settled(j)
<1> QED
  BY DEF JobsInv, TypeInv, TypeOK, WorkerKilled, WorkerEnds, CommandExits, Killed, Running, Settled,
     WorkerAlive, ChildAlive, serverVars, fileVars, procVars, InProgress

\* What a reader finds over stays as it is, until the job is removed.
OverStays ==
  \A j \in Jobs : Visible(j) /\ Status(j) \in Terminal => Status(j)' = Status(j) \/ ~Known(j)'

LEMMA OverStep ==
  ASSUME Calm
  PROVE  JobsInv /\ OnceInv /\ AwareInv /\ [Next]_vars => OverStays
<1> SUFFICES ASSUME JobsInv, OnceInv, AwareInv, [Next]_vars, NEW j \in Jobs, Visible(j),
                    Status(j) \in Terminal, Known(j)'
             PROVE  Status(j)' = Status(j)
  BY DEF OverStays
<1>1. ~InProgress(j) /\ (result[j] # "none" \/ (~WorkerAlive(j) /\ ~ChildAlive(j)))
  BY OverMeansEnded
<1>2. Settled(j)
  <2>1. CASE ServerNext
    BY <2>1, ServerSettles
  <2>2. ASSUME NEW i \in Jobs, WorkerNext(i) PROVE Settled(j)
    BY <1>1, <2>2, WorkerSettles
  <2>3. ASSUME NEW i \in Jobs, WorkerKilled(i) \/ CommandExits(i) PROVE Settled(j)
    BY <1>1, <2>3, DeathSettles
  <2>4. CASE UNCHANGED vars
    BY <2>4 DEF vars, fileVars, procVars, Settled, WorkerAlive, ChildAlive
  <2> QED BY <2>1, <2>2, <2>3, <2>4 DEF Next
<1>3. CASE result[j] # "none"
  BY <1>2, <1>3 DEF Settled, Status
<1>4. CASE result[j] = "none"
  <2>1. ~WorkerAlive(j)' /\ ~ChildAlive(j)' /\ result'[j] = "none"
    BY <1>1, <1>2, <1>4 DEF Settled
  <2>2. Status(j) = "interrupted"
    BY <1>1, <1>4, StatusOver
  <2>3. Status(j)' = "interrupted"
    BY <2>1 DEF Status
  <2> QED BY <2>2, <2>3
<1> QED BY <1>3, <1>4

\* A terminal status, once reported, is the last one reported for the job,
\* also when workers are killed (job_status).
THEOREM OverIsFinal == ASSUME Calm PROVE Spec => TerminalIsStable
<1>1. Spec => [](JobsInv /\ OnceInv /\ AwareInv)
  BY AwareInvariant
<1> QED BY <1>1, OverStep, PTL DEF Spec, TerminalIsStable, OverStays

\* No command is ever without its worker, so no job is "lost".
LEMMA NeverLost ==
  ASSUME TypeOK, RunInv, NEW j \in Jobs, Visible(j), TaskState(j) # "working"
  PROVE  Status(j) \in Terminal
<1>1. ChildAlive(j) => WorkerAlive(j)
  BY DEF RunInv, AwareInv, HeldInv, InProgress, ChildAlive, WorkerAlive, Running, Visible
<1>2. Status(j) \notin Working
  BY DEF TaskState, Working
<1>3. result[j] = "none" \/ result[j] \in Terminal
  BY DEF TypeOK, Results
<1> QED BY <1>1, <1>2, <1>3 DEF Status, Working, Terminal

\* A client that was told how a task ended is never told otherwise
\* (_task_payload).
THEOREM TaskAnswerStands == ASSUME Orderly PROVE Spec => TaskIsFinal
<1> DEFINE Stands == \A j \in Jobs : Visible(j) /\ TaskState(j) # "working" =>
                       TaskAnswer(j)' = TaskAnswer(j) \/ ~Known(j)'
<1>0. Calm
  BY DEF Orderly, Calm
<1>1. JobsInv /\ OnceInv /\ RunInv /\ [Next]_vars => Stands
  <2> SUFFICES ASSUME JobsInv, OnceInv, RunInv, [Next]_vars, NEW j \in Jobs, Visible(j),
                      TaskState(j) # "working", Known(j)'
               PROVE  TaskAnswer(j)' = TaskAnswer(j)
    OBVIOUS
  <2>1. Status(j)' = Status(j)
    BY <1>0, NeverLost, OverStep DEF OverStays, JobsInv, TypeInv, RunInv
  <2> QED BY <2>1 DEF TaskAnswer, TaskState, IsError
<1>2. Spec => [](JobsInv /\ OnceInv /\ RunInv)
  BY RunInvariant
<1> QED BY <1>1, <1>2, PTL DEF Spec, TaskIsFinal
=============================================================================
