------------------------- MODULE DurableJobsProofs -------------------------
(***************************************************************************)
(* What holds of DurableJobs for every set of jobs and keys, every limit   *)
(* and every combination of faults.                                        *)
(***************************************************************************)
EXTENDS DurableJobs, TLAPS

-----------------------------------------------------------------------------
(* Type correctness.                                                        *)

\* Inside a handler of one job the server has that job at hand.
InHandler == srv \notin {"down", "recover", "idle"} => cur \in Jobs

\* TypeOK is inductive together with InHandler.
TypeInv == TypeOK /\ InHandler

Statuses == {"none", "starting", "running"} \cup Terminal
Metas    == [status : Statuses, worker : BOOLEAN, child : BOOLEAN]

\* Patching one field of one job's metadata keeps metadata well formed.
LEMMA PatchType ==
  ASSUME TypeOK, NEW j \in Jobs, NEW s \in Statuses
  PROVE  /\ meta \in [Jobs -> Metas]
         /\ [meta EXCEPT ![j].status = s] \in [Jobs -> Metas]
         /\ [meta EXCEPT ![j].worker = TRUE] \in [Jobs -> Metas]
         /\ [meta EXCEPT ![j] = [@ EXCEPT !.status = "running", !.child = TRUE]] \in [Jobs -> Metas]
         /\ [meta EXCEPT ![j] = NoMeta] \in [Jobs -> Metas]
<1>1. meta \in [Jobs -> Metas]
  BY DEF TypeOK, Metas, Statuses
<1>2. meta[j] \in Metas
  BY <1>1
<1>3. [meta[j] EXCEPT !.status = s] \in Metas
  BY <1>2 DEF Metas
<1>4. [meta[j] EXCEPT !.worker = TRUE] \in Metas
  BY <1>2 DEF Metas
<1>5. [meta[j] EXCEPT !.status = "running", !.child = TRUE] \in Metas
  BY <1>2 DEF Metas, Statuses
<1>6. NoMeta \in Metas
  BY DEF Metas, Statuses, NoMeta
<1> QED BY <1>1, <1>3, <1>4, <1>5, <1>6

\* Marking mappings as tombstones keeps them well formed.
LEMMA TombstoneType ==
  ASSUME TypeOK, NEW j \in Jobs, Tombstone(j)
  PROVE  idem' \in [Keys -> [job : Jobs \cup {NoJob}, tombstone : BOOLEAN]]
<1> DEFINE Maps == [job : Jobs \cup {NoJob}, tombstone : BOOLEAN]
<1>1. \A k \in Keys : idem[k] \in Maps
  BY DEF TypeOK
<1>2. \A k \in Keys : [idem[k] EXCEPT !.tombstone = TRUE] \in Maps
  BY <1>1
<1> QED BY <1>1, <1>2 DEF Tombstone

\* Dropping commands brings none back, and keeps note of those that stay.
LEMMA DropKeeps ==
  ASSUME TypeOK, NEW S \in SUBSET Jobs, DropCommands(S)
  PROVE  /\ cmd' \subseteq cmd /\ left' \subseteq Jobs
         /\ \A i \in cmd' : i \notin left' => i \notin S /\ i \notin left
BY DEF TypeOK, DropCommands

\* A status check leaves metadata.json and the set of commands well formed.
LEMMA ReconcileType ==
  ASSUME TypeOK, NEW S \in SUBSET Jobs, Reconcile(S)
  PROVE  meta' \in [Jobs -> Metas] /\ cmd' \subseteq Jobs /\ left' \subseteq Jobs
<1> DEFINE lost == {i \in S : Abandoned(i)}
<1>1. lost \in SUBSET Jobs /\ DropCommands(lost)
  BY DEF Reconcile
<1>2. cmd' \subseteq Jobs /\ left' \subseteq Jobs
  <2> HIDE DEF lost
  <2> QED BY <1>1, DropKeeps DEF TypeOK
<1>3. meta' \in [Jobs -> Metas]
  BY DEF TypeOK, Reconcile, Terminal, Metas, Statuses
<1> QED BY <1>2, <1>3

\* Every step of the server preserves the types of the variables.
LEMMA ServerTypeInv == TypeInv /\ ServerNext => TypeInv'
<1> SUFFICES ASSUME TypeInv, ServerNext PROVE TypeInv'
  OBVIOUS
<1> USE JobsAssumption DEF serverVars, fileVars, procVars, histVars, ServerSteps, TypeInv, TypeOK, InHandler
<1>0. Metas = [status : {"none", "starting", "running"} \cup Terminal, worker : BOOLEAN, child : BOOLEAN]
  BY DEF Metas, Statuses
<1>1. ASSUME NEW k \in Keys, StartReuse(k) PROVE TypeInv'
  BY <1>0, <1>1, ReconcileType DEF StartReuse
<1>2. ASSUME NEW k \in Keys \cup {NoKey}, StartRefused(k) PROVE TypeInv'
  BY <1>0, <1>2, ReconcileType DEF StartRefused
<1>3. ASSUME NEW k \in Keys \cup {NoKey}, NEW j \in Jobs, StartAccepted(k, j) PROVE TypeInv'
  BY <1>0, <1>3, ReconcileType DEF StartAccepted
<1>4. CASE WriteCommand
  BY <1>4 DEF WriteCommand, Terminal, Results, WorkerSteps
<1>5. CASE WriteMetadata
  BY <1>5 DEF WriteMetadata, NewMeta, Terminal, Results, WorkerSteps
<1>6. CASE WriteMapping
  BY <1>6 DEF WriteMapping, Terminal, Results, WorkerSteps
<1>7. CASE Launch
  BY <1>7 DEF Launch, ReapAll, Terminal, Results, WorkerSteps
<1>8. CASE LaunchFails
  <2>1. cur \in Jobs
    BY <1>8 DEF LaunchFails
  <2>2. meta' \in [Jobs -> Metas]
    <3>1. "start_failed" \in Statuses
      BY DEF Statuses, Terminal
    <3>2. /\ meta \in [Jobs -> Metas]
          /\ [meta EXCEPT ![cur].status = "start_failed"] \in [Jobs -> Metas]
      BY <2>1, <3>1, PatchType
    <3> QED BY <1>8, <3>2 DEF LaunchFails
  <2>3. result' \in [Jobs -> {"none"} \cup Results]
    BY <1>8, <2>1 DEF LaunchFails, Results, Terminal
  <2>4. wproc' \in [Jobs -> {"none", "alive", "adopted", "zombie", "gone"}]
    BY <1>8 DEF LaunchFails, ReapAll
  <2> QED BY <1>0, <1>8, <2>1, <2>2, <2>3, <2>4 DEF LaunchFails
<1>9. CASE RecordWorker
  <2>1. cur \in Jobs
    BY <1>9 DEF RecordWorker
  <2>2. [meta EXCEPT ![cur].worker = TRUE] \in [Jobs -> Metas]
    BY <2>1, PatchType, "none" \in Statuses DEF Statuses
  <2> QED BY <1>0, <1>9, <2>2 DEF RecordWorker
<1>10. CASE StartRaises
  BY <1>10 DEF StartRaises, Terminal, Results, WorkerSteps
<1>11. CASE RemoveTree
  BY <1>11 DEF RemoveTree, NoMeta, Terminal, Results, WorkerSteps
<1>12. CASE RecoverEnd
  BY <1>12 DEF RecoverEnd, Terminal, Results, WorkerSteps
<1>13. CASE ServerStops
  BY <1>13 DEF ServerStops, ServerDies, Terminal, Results, WorkerSteps
<1>14. CASE StopsInRemoveTree
  <2>1. cur \in Jobs
    BY <1>14 DEF StopsInRemoveTree
  <2>2. meta' \in [Jobs -> Metas]
    <3>1. "none" \in Statuses
      BY DEF Statuses
    <3>2. meta \in [Jobs -> Metas] /\ [meta EXCEPT ![cur] = NoMeta] \in [Jobs -> Metas]
      BY <2>1, <3>1, PatchType
    <3> QED BY <1>14, <3>2 DEF StopsInRemoveTree
  <2>3. result' \in [Jobs -> {"none"} \cup Results]
    BY <1>14, <2>1 DEF StopsInRemoveTree
  <2>4. /\ wproc' \in [Jobs -> {"none", "alive", "adopted", "zombie", "gone"}]
        /\ canceling' \in [Jobs -> {"no", "grace", "final"}]
    BY <1>14 DEF StopsInRemoveTree, ServerDies
  <2> QED BY <1>0, <1>14, <2>1, <2>2, <2>3, <2>4 DEF StopsInRemoveTree, ServerDies
<1>15. CASE ServerStarts
  BY <1>15 DEF ServerStarts, Terminal, Results, WorkerSteps
<1>16. CASE Reap
  BY <1>16 DEF Reap, ReapAll, Terminal, Results, WorkerSteps
<1>17. ASSUME NEW j \in Jobs, Observe(j) PROVE TypeInv'
  BY <1>0, <1>17, ReconcileType DEF Observe, CleanupMark, Tombstone, Killed
<1>18. ASSUME NEW j \in Jobs, CancelBegin(j) PROVE TypeInv'
  BY <1>0, <1>18, ReconcileType DEF CancelBegin, CleanupMark, Tombstone, Killed
<1>19. ASSUME NEW j \in Jobs, CancelPoll(j) PROVE TypeInv'
  BY <1>0, <1>19, ReconcileType DEF CancelPoll, CleanupMark, Tombstone, Killed
<1>20. ASSUME NEW j \in Jobs, CancelDeadline(j) PROVE TypeInv'
  BY <1>0, <1>20, ReconcileType DEF CancelDeadline, CleanupMark, Tombstone, Killed
<1>21. ASSUME NEW j \in Jobs, CancelEnd(j) PROVE TypeInv'
  BY <1>0, <1>21, ReconcileType DEF CancelEnd, CleanupMark, Tombstone, Killed
<1>22. ASSUME NEW j \in Jobs, Cleanup(j) PROVE TypeInv'
  BY <1>0, <1>22, ReconcileType, TombstoneType DEF Cleanup, CleanupMark
<1>23. ASSUME NEW j \in Jobs, RecoverOne(j) PROVE TypeInv'
  BY <1>0, <1>23, ReconcileType, TombstoneType DEF RecoverOne, CleanupMark
<1>24. ASSUME NEW j \in Jobs, StopsInStatus(j) PROVE TypeInv'
  <2>1. meta' \in [Jobs -> Metas]
    <3>1. "interrupted" \in Statuses
      BY DEF Statuses, Terminal
    <3> QED BY <1>24, <3>1, PatchType DEF StopsInStatus
  <2>2. /\ wproc' \in [Jobs -> {"none", "alive", "adopted", "zombie", "gone"}]
        /\ canceling' \in [Jobs -> {"no", "grace", "final"}]
    BY <1>24 DEF StopsInStatus, ServerDies
  <2> QED BY <1>0, <1>24, <2>1, <2>2 DEF StopsInStatus, ServerDies
<1> QED
  BY <1>1, <1>2, <1>3, <1>4, <1>5, <1>6, <1>7, <1>8, <1>9, <1>10, <1>11, <1>12, <1>13, <1>14, <1>15, <1>16, <1>17, <1>18, <1>19, <1>20, <1>21, <1>22, <1>23, <1>24 DEF ServerNext

\* Publishing a result leaves result.json and metadata.json well formed.
LEMMA WriteType ==
  ASSUME TypeOK, NEW j \in Jobs, NEW s \in Results, WriteResult(j, s) \/ WriteBreaks(j, s)
  PROVE  /\ dirs' \subseteq Jobs
         /\ result' \in [Jobs -> {"none"} \cup Results]
         /\ meta' \in [Jobs -> Metas]
<1>1. s \in Statuses
  BY DEF Statuses, Results
<1>2. meta \in [Jobs -> Metas] /\ [meta EXCEPT ![j].status = s] \in [Jobs -> Metas]
  BY <1>1, PatchType
<1>3. meta' \in [Jobs -> Metas]
  BY <1>2 DEF WriteResult, WriteBreaks
<1>4. "start_failed" \in Results
  BY DEF Results, Terminal
<1>5. result' \in [Jobs -> {"none"} \cup Results]
  BY <1>4 DEF WriteResult, WriteBreaks, TypeOK
<1> QED BY <1>3, <1>5 DEF WriteResult, WriteBreaks, TypeOK

\* Every step of a worker, its death and the end of a command preserve them.
LEMMA WorkerTypeInv ==
  ASSUME TypeInv, NEW j \in Jobs, WorkerNext(j) \/ WorkerKilled(j) \/ CommandExits(j)
  PROVE  TypeInv'
<1> USE JobsAssumption DEF serverVars, fileVars, procVars, histVars, TypeInv, TypeOK, InHandler
<1>0. Metas = [status : {"none", "starting", "running"} \cup Terminal, worker : BOOLEAN, child : BOOLEAN]
  BY DEF Metas, Statuses
<1>1. CASE ReadCommand(j)
  BY <1>1 DEF ReadCommand, WorkerAt, Goto, WorkerEnds, Exited, Outcome, Killed, Terminal, Results, WorkerSteps
<1>2. CASE UnlinkCommand(j)
  BY SMTT(30), <1>2 DEF UnlinkCommand, WorkerAt, Goto, WorkerEnds, Exited, Outcome, Killed, Terminal, Results, WorkerSteps
<1>3. CASE CheckCancel(j)
  <2>1. /\ dirs' \subseteq Jobs
        /\ result' \in [Jobs -> {"none"} \cup Results]
        /\ meta' \in [Jobs -> Metas]
    <3>1. "canceled" \in Results
      BY DEF Results, Terminal
    <3> QED BY <1>0, <1>3, <3>1, WriteType DEF CheckCancel
  <2>2. /\ wproc' \in [Jobs -> {"none", "alive", "adopted", "zombie", "gone"}]
        /\ wpc' \in [Jobs -> WorkerSteps]
        /\ cproc' \in [Jobs -> {"none", "alive", "zombie", "gone"}]
    <3>1. CASE WorkerEnds(j)
      BY <1>3, <3>1 DEF CheckCancel, WorkerEnds, Exited, WorkerSteps
    <3>2. CASE UNCHANGED <<wproc, cproc>> /\ (Goto(j, "spawn") \/ Goto(j, "fail"))
      BY <3>2 DEF Goto, WorkerSteps
    <3> QED BY <1>3, <3>1, <3>2 DEF CheckCancel
  <2> QED BY <1>0, <1>3, <2>1, <2>2 DEF CheckCancel
<1>4. CASE SpawnCommand(j)
  <2>1. runs' \in [Jobs -> Nat]
    BY <1>4 DEF SpawnCommand
  <2>2. cproc' \in [Jobs -> {"none", "alive", "zombie", "gone"}]
    BY <1>4 DEF SpawnCommand
  <2>3. wpc' \in [Jobs -> WorkerSteps]
    BY <1>4 DEF SpawnCommand, Goto, WorkerSteps
  <2> QED BY <1>4, <2>1, <2>2, <2>3 DEF SpawnCommand
<1>5. CASE RecordChild(j)
  <2>1. [meta EXCEPT ![j] = [@ EXCEPT !.status = "running", !.child = TRUE]] \in [Jobs -> Metas]
    BY PatchType, "none" \in Statuses DEF Statuses
  <2> QED BY <1>0, <1>5, <2>1 DEF RecordChild, WorkerAt, Goto, WorkerSteps
<1>6. CASE PatchRaises(j)
  BY <1>6 DEF PatchRaises, WorkerAt, Goto, WorkerEnds, Exited, Outcome, Killed, Terminal, Results, WorkerSteps
<1>7. CASE SeeCancel(j)
  BY <1>7 DEF SeeCancel, WorkerAt, Goto, WorkerEnds, Exited, Outcome, Killed, Terminal, Results, WorkerSteps
<1>8. CASE SeeDeadline(j)
  BY <1>8 DEF SeeDeadline, WorkerAt, Goto, WorkerEnds, Exited, Outcome, Killed, Terminal, Results, WorkerSteps
<1>9. CASE KillCommand(j)
  BY <1>9 DEF KillCommand, WorkerAt, Goto, WorkerEnds, Exited, Outcome, Killed, Terminal, Results, WorkerSteps
<1>10. CASE WaitCommand(j)
  BY <1>10 DEF WaitCommand, WorkerAt, Goto, WorkerEnds, Exited, Outcome, Killed, Terminal, Results, WorkerSteps
<1>11. CASE Classify(j)
  BY <1>11 DEF Classify, WorkerAt, Goto, WorkerEnds, Exited, Outcome, Killed, Terminal, Results, WorkerSteps
<1>12. CASE Finish(j)
  BY ZenonT(60), <1>0, <1>12, WriteType DEF Finish, WorkerAt, Goto, WorkerEnds, Exited, Outcome, Killed, Terminal, Results, WorkerSteps
<1>13. CASE Fail(j)
  <2>1. /\ dirs' \subseteq Jobs
        /\ result' \in [Jobs -> {"none"} \cup Results]
        /\ meta' \in [Jobs -> Metas]
    <3>1. "start_failed" \in Results
      BY DEF Results, Terminal
    <3> QED BY <1>0, <1>13, <3>1, WriteType DEF Fail
  <2>2. cmd' \subseteq Jobs /\ left' \subseteq Jobs
    BY <1>13, {j} \in SUBSET Jobs, DropKeeps DEF Fail
  <2>3. /\ wproc' \in [Jobs -> {"none", "alive", "adopted", "zombie", "gone"}]
        /\ wpc' \in [Jobs -> WorkerSteps]
        /\ cproc' \in [Jobs -> {"none", "alive", "zombie", "gone"}]
    BY <1>13 DEF Fail, WorkerEnds, Exited, WorkerSteps
  <2> QED BY <1>0, <1>13, <2>1, <2>2, <2>3 DEF Fail
<1>14. CASE WorkerKilled(j)
  BY <1>14 DEF WorkerKilled, WorkerAt, Goto, WorkerEnds, Exited, Outcome, Killed, Terminal, Results, WorkerSteps
<1>15. CASE CommandExits(j)
  BY <1>15 DEF CommandExits, WorkerAt, Goto, WorkerEnds, Exited, Outcome, Killed, Terminal, Results, WorkerSteps
<1> QED
  BY <1>1, <1>2, <1>3, <1>4, <1>5, <1>6, <1>7, <1>8, <1>9, <1>10, <1>11, <1>12, <1>13, <1>14, <1>15 DEF WorkerNext

\* TypeInv is inductive.
LEMMA TypeInvInit == Init => TypeInv
BY JobsAssumption DEF Init, TypeInv, TypeOK, InHandler, ServerSteps, WorkerSteps, NoMeta, NoMap, Terminal, Results

LEMMA TypeInvStep == TypeInv /\ [Next]_vars => TypeInv'
<1>1. TypeInv /\ Next => TypeInv'
  BY ServerTypeInv, WorkerTypeInv DEF Next
<1>2. TypeInv /\ UNCHANGED vars => TypeInv'
  BY DEF vars, serverVars, fileVars, procVars, histVars, TypeInv, TypeOK, InHandler
<1> QED BY <1>1, <1>2

\* The types of all variables, in every reachable state of every instance.
THEOREM TypeCorrect == Spec => []TypeOK
<1>1. TypeInv => TypeOK
  BY DEF TypeInv
<1> QED BY <1>1, TypeInvInit, TypeInvStep, PTL DEF Spec

-----------------------------------------------------------------------------
(* No command is run twice.                                                 *)

\* No step of the server launches a job twice or binds a bound key.
LEMMA ServerLaunchInv == TypeInv /\ LaunchInv /\ ServerNext => LaunchInv'
<1> SUFFICES ASSUME TypeInv /\ LaunchInv, ServerNext PROVE LaunchInv'
  OBVIOUS
<1> USE JobsAssumption DEF serverVars, fileVars, procVars, histVars, TypeInv, TypeOK, InHandler, LaunchInv, Creating, BeforeSpawn, Running, NoMap
<1>1. ASSUME NEW k \in Keys, StartReuse(k) PROVE LaunchInv'
  BY <1>1 DEF StartReuse, Reconcile
<1>2. ASSUME NEW k \in Keys \cup {NoKey}, StartRefused(k) PROVE LaunchInv'
  BY <1>2 DEF StartRefused, Reconcile
<1>3. ASSUME NEW k \in Keys \cup {NoKey}, NEW j \in Jobs, StartAccepted(k, j) PROVE LaunchInv'
  BY <1>3 DEF StartAccepted, Unbound, Reconcile
<1>4. CASE WriteCommand
  BY <1>4 DEF WriteCommand
<1>5. CASE WriteMetadata
  BY <1>5 DEF WriteMetadata, NewMeta
<1>6. CASE WriteMapping
  BY <1>6 DEF WriteMapping
<1>7. CASE Launch
  BY <1>7 DEF Launch, ReapAll
<1>8. CASE LaunchFails
  BY <1>8 DEF LaunchFails, ReapAll
<1>9. CASE RecordWorker
  BY <1>9 DEF RecordWorker
<1>10. CASE StartRaises
  BY <1>10 DEF StartRaises
<1>11. CASE RemoveTree
  BY <1>11 DEF RemoveTree, NoMeta
<1>12. CASE RecoverEnd
  BY <1>12 DEF RecoverEnd
<1>13. CASE ServerStops
  BY <1>13 DEF ServerStops, ServerDies
<1>14. CASE StopsInRemoveTree
  BY <1>14 DEF StopsInRemoveTree, ServerDies, NoMeta
<1>15. CASE ServerStarts
  BY <1>15 DEF ServerStarts
<1>16. CASE Reap
  BY <1>16 DEF Reap, ReapAll
<1>17. ASSUME NEW j \in Jobs, Observe(j) PROVE LaunchInv'
  BY <1>17 DEF Observe, Reconcile
<1>18. ASSUME NEW j \in Jobs, CancelBegin(j) PROVE LaunchInv'
  BY <1>18 DEF CancelBegin
<1>19. ASSUME NEW j \in Jobs, CancelPoll(j) PROVE LaunchInv'
  BY <1>19 DEF CancelPoll, Reconcile
<1>20. ASSUME NEW j \in Jobs, CancelDeadline(j) PROVE LaunchInv'
  BY <1>20 DEF CancelDeadline
<1>21. ASSUME NEW j \in Jobs, CancelEnd(j) PROVE LaunchInv'
  BY <1>21 DEF CancelEnd, Reconcile
<1>22. ASSUME NEW j \in Jobs, Cleanup(j) PROVE LaunchInv'
  BY <1>22 DEF Cleanup, CleanupMark, Tombstone, Reconcile
<1>23. ASSUME NEW j \in Jobs, RecoverOne(j) PROVE LaunchInv'
  <2>1. CASE UNCHANGED <<srv, cur, idem>>
    BY <1>23, <2>1 DEF RecoverOne
  <2>2. CASE CleanupMark(j)
    BY <1>23, <2>2 DEF RecoverOne, CleanupMark, Tombstone
  <2> QED BY <1>23, <2>1, <2>2 DEF RecoverOne
<1>24. ASSUME NEW j \in Jobs, StopsInStatus(j) PROVE LaunchInv'
  BY <1>24 DEF StopsInStatus, ServerDies
<1> QED
  BY <1>1, <1>2, <1>3, <1>4, <1>5, <1>6, <1>7, <1>8, <1>9, <1>10, <1>11, <1>12, <1>13, <1>14, <1>15, <1>16, <1>17, <1>18, <1>19, <1>20, <1>21, <1>22, <1>23, <1>24 DEF ServerNext

\* No step of a worker runs a command twice.
LEMMA WorkerLaunchInv ==
  ASSUME TypeInv, LaunchInv, NEW j \in Jobs, WorkerNext(j) \/ WorkerKilled(j) \/ CommandExits(j)
  PROVE  LaunchInv'
<1> USE DEF serverVars, fileVars, procVars, histVars, TypeInv, TypeOK, InHandler, LaunchInv, Creating, BeforeSpawn, Running, Exited, WorkerAt, Goto
<1>1. CASE ReadCommand(j)
  BY <1>1 DEF ReadCommand
<1>2. CASE UnlinkCommand(j)
  BY <1>2 DEF UnlinkCommand
<1>3. CASE CheckCancel(j)
  BY <1>3 DEF CheckCancel, WriteResult, WriteBreaks, WorkerEnds
<1>4. CASE SpawnCommand(j)
  <2>1. runs[j] = 0 /\ runs'[j] \in {0, 1} /\ wpc'[j] \in {"record", "fail"}
    BY <1>4 DEF SpawnCommand
  <2>2. \A i \in Jobs : i # j => runs'[i] = runs[i] /\ wpc'[i] = wpc[i]
    BY <1>4 DEF SpawnCommand
  <2>3. UNCHANGED <<srv, cur, used, idem, keyOf, wproc>>
    BY <1>4 DEF SpawnCommand
  <2> QED BY <1>4, <2>1, <2>2, <2>3 DEF SpawnCommand
<1>5. CASE RecordChild(j)
  BY <1>5 DEF RecordChild
<1>6. CASE PatchRaises(j)
  BY <1>6 DEF PatchRaises
<1>7. CASE SeeCancel(j)
  BY <1>7 DEF SeeCancel
<1>8. CASE SeeDeadline(j)
  BY <1>8 DEF SeeDeadline
<1>9. CASE KillCommand(j)
  BY <1>9 DEF KillCommand
<1>10. CASE WaitCommand(j)
  BY <1>10 DEF WaitCommand
<1>11. CASE Classify(j)
  BY <1>11 DEF Classify
<1>12. CASE Finish(j)
  BY <1>12 DEF Finish, WriteResult, WriteBreaks, WorkerEnds
<1>13. CASE Fail(j)
  BY <1>13 DEF Fail, WriteResult, WorkerEnds
<1>14. CASE WorkerKilled(j)
  BY <1>14 DEF WorkerKilled, WorkerEnds
<1>15. CASE CommandExits(j)
  BY <1>15 DEF CommandExits
<1> QED
  BY <1>1, <1>2, <1>3, <1>4, <1>5, <1>6, <1>7, <1>8, <1>9, <1>10, <1>11, <1>12, <1>13, <1>14, <1>15 DEF WorkerNext

\* LaunchInv is inductive relative to the types.
LEMMA LaunchInvStep == TypeInv /\ LaunchInv /\ [Next]_vars => LaunchInv'
<1>1. TypeInv /\ LaunchInv /\ Next => LaunchInv'
  BY ServerLaunchInv, WorkerLaunchInv DEF Next
<1>2. LaunchInv /\ UNCHANGED vars => LaunchInv'
  BY DEF vars, serverVars, fileVars, procVars, histVars, LaunchInv, Running
<1> QED BY <1>1, <1>2

\* At most one execution per job and per idempotency key, whatever retries,
\* crashes, recoveries and cleanups happen.
THEOREM NeverReplayed == Spec => []ExecutedAtMostOnce
<1>1. Init => TypeInv /\ LaunchInv
  BY TypeInvInit DEF Init, LaunchInv, Creating, BeforeSpawn, Running
<1>2. TypeInv /\ LaunchInv => ExecutedAtMostOnce
  BY DEF LaunchInv, ExecutedAtMostOnce, BeforeSpawn, TypeInv, TypeOK
<1> QED BY <1>1, <1>2, TypeInvStep, LaunchInvStep, PTL DEF Spec

-----------------------------------------------------------------------------
(* What a terminal job leaves behind.                                       *)

\* The two properties with what the workers' positions say of the files.
FilesInv == WorkerInv /\ TerminalForgetsCommand /\ ResultMeansExited

\* A status check makes no job known or unknown, and changes the metadata only
\* of jobs whose command it drops, or notes as left behind.
LEMMA ReconcileFiles ==
  ASSUME TypeOK, NEW S \in SUBSET Jobs, Reconcile(S)
  PROVE  /\ cmd' \subseteq cmd
         /\ \A i \in Jobs : Known(i)' <=> Known(i)
         /\ \A i \in Jobs : meta[i] = NoMeta => meta'[i] = NoMeta
         /\ \A i \in cmd' : i \notin left' => i \notin left /\ meta'[i] = meta[i]
<1> DEFINE lost == {i \in S : Abandoned(i)}
<1>1. /\ cmd' \subseteq cmd
      /\ \A i \in cmd' : i \notin left' => i \notin lost /\ i \notin left
  <2>1. lost \in SUBSET Jobs /\ DropCommands(lost)
    BY DEF Reconcile
  <2> HIDE DEF lost
  <2> QED BY <2>1, DropKeeps
<1>2. \A i \in Jobs : meta'[i] = meta[i] \/ (i \in lost /\ meta'[i] = [meta[i] EXCEPT !.status = "interrupted"])
  BY DEF Reconcile
<1>3. \A i \in lost : Known(i)
  BY DEF Abandoned
<1>4. \A i \in Jobs : meta[i] \in Metas
  BY DEF TypeOK, Metas, Statuses
<1>5. \A i \in Jobs : [meta[i] EXCEPT !.status = "interrupted"].status = "interrupted"
  BY <1>4 DEF Metas
<1>6. \A i \in Jobs : meta[i] = NoMeta => ~Known(i)
  BY DEF Known, NoMeta
<1>7. \A i \in Jobs : Known(i)' <=> Known(i)
  BY <1>2, <1>3, <1>5 DEF Known
<1>8. cmd \subseteq Jobs
  BY DEF TypeOK
<1> QED BY <1>1, <1>2, <1>3, <1>6, <1>7, <1>8

\* What a patch of one job's metadata does to each job's status.
LEMMA PatchStatus ==
  ASSUME TypeOK, NEW j \in Jobs, NEW s
  PROVE  \A i \in Jobs :
           /\ [meta EXCEPT ![j].status = s][i].status = IF i = j THEN s ELSE meta[i].status
           /\ [meta EXCEPT ![j].worker = TRUE][i].status = meta[i].status
           /\ [meta EXCEPT ![j] = [@ EXCEPT !.status = "running", !.child = TRUE]][i].status
                = IF i = j THEN "running" ELSE meta[i].status
           /\ i # j => /\ [meta EXCEPT ![j].status = s][i] = meta[i]
                       /\ [meta EXCEPT ![j].worker = TRUE][i] = meta[i]
                       /\ [meta EXCEPT ![j] = [@ EXCEPT !.status = "running", !.child = TRUE]][i] = meta[i]
<1>1. meta \in [Jobs -> Metas]
  BY DEF TypeOK, Metas, Statuses
<1>2. meta[j] \in Metas
  BY <1>1
<1>3. [meta[j] EXCEPT !.status = s].status = s
  BY <1>2 DEF Metas
<1>4. [meta[j] EXCEPT !.worker = TRUE].status = meta[j].status
  BY <1>2 DEF Metas
<1>5. [meta[j] EXCEPT !.status = "running", !.child = TRUE].status = "running"
  BY <1>2 DEF Metas
<1> QED BY <1>1, <1>3, <1>4, <1>5

\* No step of the server brings a command back or ends a running one's job.
LEMMA ServerFilesInv == TypeInv /\ LaunchInv /\ FilesInv /\ ServerNext => FilesInv'
<1> SUFFICES ASSUME TypeInv /\ LaunchInv /\ FilesInv, ServerNext PROVE FilesInv'
  OBVIOUS
<1>0. ASSUME NEW j \in Jobs
      PROVE  \A i \in Jobs : /\ [meta EXCEPT ![j].worker = TRUE][i].status = meta[i].status
                            /\ i # j => [meta EXCEPT ![j].worker = TRUE][i] = meta[i]
  BY PatchStatus DEF TypeInv
<1> USE JobsAssumption DEF serverVars, fileVars, procVars, histVars, TypeInv, TypeOK, InHandler, FilesInv, WorkerInv, TerminalForgetsCommand, ResultMeansExited, LaunchInv, Creating, BeforeSpawn, Running, Known, Terminal, Results, Abandoned
<1>1. ASSUME NEW k \in Keys, StartReuse(k) PROVE FilesInv'
  BY <1>1, ReconcileFiles DEF StartReuse
<1>2. ASSUME NEW k \in Keys \cup {NoKey}, StartRefused(k) PROVE FilesInv'
  BY <1>2, ReconcileFiles DEF StartRefused
<1>3. ASSUME NEW k \in Keys \cup {NoKey}, NEW j \in Jobs, StartAccepted(k, j) PROVE FilesInv'
  <2>1. /\ cmd' \subseteq cmd
        /\ \A i \in Jobs : Known(i)' <=> Known(i)
        /\ \A i \in Jobs : meta[i] = NoMeta => meta'[i] = NoMeta
        /\ \A i \in cmd' : i \notin left' => i \notin left /\ meta'[i] = meta[i]
    BY <1>3, ReconcileFiles DEF StartAccepted
  <2>2. /\ UNCHANGED <<marker, result, wproc, wpc, cproc>>
        /\ j \notin used /\ used' = used \cup {j} /\ srv' = "command" /\ cur' = j
    BY <1>3 DEF StartAccepted
  <2>3. WorkerInv'
    <3>1. ~Known(j)
      BY <2>2 DEF NoMeta
    <3>2. ~Known(j)'
      BY <2>1, <3>1
    <3> QED BY <2>1, <2>2, <3>2
  <2>4. TerminalForgetsCommand' /\ ResultMeansExited'
    BY <2>1, <2>2
  <2> QED BY <2>3, <2>4
<1>4. CASE WriteCommand
  BY <1>4 DEF WriteCommand
<1>5. CASE WriteMetadata
  BY <1>5 DEF WriteMetadata, NewMeta
<1>6. CASE WriteMapping
  BY <1>6 DEF WriteMapping
<1>7. CASE Launch
  BY <1>7 DEF Launch, ReapAll
<1>8. CASE LaunchFails
  BY <1>8 DEF LaunchFails, ReapAll
<1>9. CASE RecordWorker
  <2>1. cur \in Jobs /\ cur \in used
    BY <1>9 DEF RecordWorker
  <2>2. \A i \in Jobs : meta'[i].status = meta[i].status /\ (i # cur => meta'[i] = meta[i])
    BY <1>0, <1>9, <2>1 DEF RecordWorker
  <2>3. srv' = "idle" /\ UNCHANGED <<cmd, left, result, wproc, wpc, cproc, used>>
    BY <1>9 DEF RecordWorker
  <2>4. WorkerInv'
    BY <2>1, <2>2, <2>3
  <2>5. TerminalForgetsCommand' /\ ResultMeansExited'
    BY <2>2, <2>3
  <2> QED BY <2>4, <2>5
<1>10. CASE StartRaises
  BY <1>10 DEF StartRaises
<1>11. CASE RemoveTree
  <2>1. cur \in Jobs /\ srv' \in {"recover", "idle"} /\ UNCHANGED <<wproc, wpc, cproc, used>>
    BY <1>11 DEF RemoveTree
  <2>2. /\ cmd' \subseteq cmd /\ cur \notin cmd' /\ left' = left
        /\ \A i \in Jobs : i # cur => meta'[i] = meta[i]
        /\ meta'[cur] = NoMeta
        /\ \A i \in Jobs : result'[i] \in {result[i], "none"}
    BY <1>11, <2>1 DEF RemoveTree
  <2>3. WorkerInv'
    BY <2>1, <2>2
  <2>4. TerminalForgetsCommand' /\ ResultMeansExited'
    BY SMTT(30), <2>1, <2>2
  <2> QED BY <2>3, <2>4
<1>12. CASE RecoverEnd
  BY <1>12 DEF RecoverEnd
<1>13. CASE ServerStops
  BY <1>13 DEF ServerStops, ServerDies
<1>14. CASE StopsInRemoveTree
  <2>1. cur \in Jobs /\ srv' = "down" /\ UNCHANGED <<wpc, cproc, used>>
    BY <1>14 DEF StopsInRemoveTree, ServerDies
  <2>2. /\ cmd' \subseteq cmd /\ left' = left
        /\ \A i \in Jobs : meta'[i] \in {meta[i], NoMeta}
        /\ \A i \in Jobs : result'[i] \in {result[i], "none"}
    BY <1>14, <2>1 DEF StopsInRemoveTree
  <2>3. WorkerInv'
    BY <2>1, <2>2
  <2>4. TerminalForgetsCommand'
    BY <2>1, <2>2 DEF NoMeta
  <2>5. ResultMeansExited'
    BY <2>1, <2>2
  <2> QED BY <2>3, <2>4, <2>5
<1>15. CASE ServerStarts
  BY <1>15 DEF ServerStarts
<1>16. CASE Reap
  BY <1>16 DEF Reap, ReapAll
<1>17. ASSUME NEW j \in Jobs, Observe(j) PROVE FilesInv'
  BY <1>17, ReconcileFiles DEF Observe
<1>18. ASSUME NEW j \in Jobs, CancelBegin(j) PROVE FilesInv'
  BY <1>18 DEF CancelBegin
<1>19. ASSUME NEW j \in Jobs, CancelPoll(j) PROVE FilesInv'
  BY <1>19, ReconcileFiles DEF CancelPoll
<1>20. ASSUME NEW j \in Jobs, CancelDeadline(j) PROVE FilesInv'
  BY <1>20 DEF CancelDeadline
<1>21. ASSUME NEW j \in Jobs, CancelEnd(j) PROVE FilesInv'
  <2>1. /\ cmd' \subseteq cmd
        /\ \A i \in Jobs : Known(i)' <=> Known(i)
        /\ \A i \in Jobs : meta[i] = NoMeta => meta'[i] = NoMeta
        /\ \A i \in cmd' : i \notin left' => i \notin left /\ meta'[i] = meta[i]
    BY <1>21, ReconcileFiles DEF CancelEnd
  <2>2. UNCHANGED <<srv, cur, used, marker, result, wproc, wpc, cproc>>
    BY <1>21 DEF CancelEnd
  <2>3. WorkerInv'
    BY <2>1, <2>2
  <2>4. TerminalForgetsCommand' /\ ResultMeansExited'
    BY <2>1, <2>2
  <2> QED BY <2>3, <2>4
<1>22. ASSUME NEW j \in Jobs, Cleanup(j) PROVE FilesInv'
  BY <1>22, ReconcileFiles DEF Cleanup, CleanupMark
<1>23. ASSUME NEW j \in Jobs, RecoverOne(j) PROVE FilesInv'
  <2>1. /\ cmd' \subseteq cmd
        /\ \A i \in Jobs : Known(i)' <=> Known(i)
        /\ \A i \in Jobs : meta[i] = NoMeta => meta'[i] = NoMeta
        /\ \A i \in cmd' : i \notin left' => i \notin left /\ meta'[i] = meta[i]
    <3>1. CASE Reconcile({j})
      <4>1. {j} \in SUBSET Jobs /\ TypeOK
        OBVIOUS
      <4> HIDE DEF TypeInv, TypeOK, FilesInv, LaunchInv, Known, Abandoned, NoMeta
      <4> QED BY <3>1, <4>1, ReconcileFiles
    <3>2. CASE UNCHANGED <<meta, cmd, left>>
      BY <3>2
    <3> QED BY <1>23, <3>1, <3>2 DEF RecoverOne, CleanupMark
  <2>2. /\ UNCHANGED <<used, marker, result, wproc, wpc, cproc>>
        /\ srv' \in {"recover", "rmtree"}
    BY <1>23 DEF RecoverOne, CleanupMark
  <2>3. WorkerInv'
    BY <2>1, <2>2
  <2>4. TerminalForgetsCommand' /\ ResultMeansExited'
    BY <2>1, <2>2
  <2> QED BY <2>3, <2>4
<1>24. ASSUME NEW j \in Jobs, StopsInStatus(j) PROVE FilesInv'
  <2>1. /\ \A i \in Jobs : i # j => meta'[i] = meta[i]
        /\ srv' = "down" /\ left' = left \cup ({j} \cap cmd)
        /\ UNCHANGED <<used, cmd, marker, result, wpc, cproc>>
    BY <1>24 DEF StopsInStatus, ServerDies
  <2>2. meta[j] # NoMeta
    BY <1>24 DEF StopsInStatus, NoMeta
  <2>3. WorkerInv'
    BY <2>1, <2>2
  <2>4. TerminalForgetsCommand' /\ ResultMeansExited'
    BY <2>1
  <2> QED BY <2>3, <2>4
<1> QED
  BY <1>1, <1>2, <1>3, <1>4, <1>5, <1>6, <1>7, <1>8, <1>9, <1>10, <1>11, <1>12, <1>13, <1>14, <1>15, <1>16, <1>17, <1>18, <1>19, <1>20, <1>21, <1>22, <1>23, <1>24 DEF ServerNext

\* No step of a worker publishes a result before its command has exited.
LEMMA WorkerFilesInv ==
  ASSUME TypeInv, LaunchInv, FilesInv, NEW j \in Jobs, WorkerNext(j) \/ WorkerKilled(j) \/ CommandExits(j)
  PROVE  FilesInv'
<1>0. ASSUME NEW s
      PROVE  \A i \in Jobs : i # j => [meta EXCEPT ![j].status = s][i] = meta[i]
  BY DEF TypeInv, TypeOK
<1> USE DEF serverVars, fileVars, procVars, histVars, TypeInv, TypeOK, InHandler, FilesInv, WorkerInv, TerminalForgetsCommand, ResultMeansExited, LaunchInv, Creating, BeforeSpawn, Running, Known, Terminal, Results, WorkerAt, Goto, Exited, Outcome, Killed
<1>1. CASE ReadCommand(j)
  BY <1>1 DEF ReadCommand
<1>2. CASE UnlinkCommand(j)
  BY <1>2 DEF UnlinkCommand
<1>3. CASE CheckCancel(j)
  <2>1. /\ j \in used /\ j \notin cmd /\ cproc[j] = "none" /\ wpc[j] = "check"
        /\ wpc'[j] \in {"spawn", "done", "fail"}
        /\ \A i \in Jobs : i # j => wpc'[i] = wpc[i]
        /\ \A i \in Jobs : cproc'[i] = cproc[i]
        /\ UNCHANGED <<srv, cur, used, cmd, left>>
    BY <1>3 DEF CheckCancel, WorkerEnds
  <2>2. /\ \A i \in Jobs : i # j => meta'[i] = meta[i] /\ result'[i] = result[i]
        /\ wpc'[j] = "spawn" => result'[j] = "none"
    BY <1>0, <1>3 DEF CheckCancel, WriteResult, WriteBreaks, WorkerEnds
  <2>3. WorkerInv'
    <3>1. srv \in Creating \cup {"patch"} => cur \in used /\ (srv # "patch" => cur # j)
      BY <2>1
    <3>2. \A i \in Jobs : i # j => Known(i)' = Known(i) /\ result'[i] = result[i]
      BY <2>2
    <3> QED BY <2>1, <2>2, <3>1, <3>2, SMTT(30)
  <2>4. TerminalForgetsCommand' /\ ResultMeansExited'
    BY <2>1, <2>2
  <2> QED BY <2>3, <2>4
<1>4. CASE SpawnCommand(j)
  <2>1. /\ j \notin cmd /\ result[j] = "none" /\ wpc'[j] \in {"record", "fail"}
        /\ \A i \in Jobs : i # j => wpc'[i] = wpc[i] /\ cproc'[i] = cproc[i]
        /\ UNCHANGED <<srv, cur, used, cmd, left, meta, result>>
    BY <1>4 DEF SpawnCommand
  <2>2. j \in used /\ (srv \in Creating => cur # j)
    BY <1>4 DEF SpawnCommand
  <2>3. WorkerInv'
    <3>1. \A i \in Jobs : Known(i)' = Known(i) /\ result'[i] = result[i]
      BY <2>1
    <3> QED BY <2>1, <2>2, <3>1, SMTT(60)
  <2>4. TerminalForgetsCommand' /\ ResultMeansExited'
    BY <2>1
  <2> QED BY <2>3, <2>4
<1>5. CASE RecordChild(j)
  BY <1>5 DEF RecordChild
<1>6. CASE PatchRaises(j)
  BY <1>6 DEF PatchRaises
<1>7. CASE SeeCancel(j)
  BY <1>7 DEF SeeCancel
<1>8. CASE SeeDeadline(j)
  BY <1>8 DEF SeeDeadline
<1>9. CASE KillCommand(j)
  BY <1>9 DEF KillCommand
<1>10. CASE WaitCommand(j)
  BY <1>10 DEF WaitCommand
<1>11. CASE Classify(j)
  BY <1>11 DEF Classify
<1>12. CASE Finish(j)
  <2>1. /\ j \in used /\ j \notin cmd /\ cproc[j] # "alive" /\ wpc[j] = "finish"
        /\ wpc'[j] \in {"done", "fail"}
        /\ \A i \in Jobs : i # j => wpc'[i] = wpc[i] /\ cproc'[i] = cproc[i]
        /\ cproc'[j] # "alive"
        /\ UNCHANGED <<srv, cur, used, cmd, left>>
    BY <1>12 DEF Finish, WorkerEnds
  <2>2. \A i \in Jobs : i # j => meta'[i] = meta[i] /\ result'[i] = result[i]
    BY <1>0, <1>12 DEF Finish, WriteResult, WriteBreaks
  <2>3. WorkerInv'
    <3>1. srv \in Creating \cup {"patch"} => cur \in used /\ (srv # "patch" => cur # j)
      BY <2>1
    <3>2. \A i \in Jobs : i # j => Known(i)' = Known(i) /\ result'[i] = result[i]
      BY <2>2
    <3> QED BY <2>1, <2>2, <3>1, <3>2, SMTT(60)
  <2>4. TerminalForgetsCommand'
    BY <2>1, <2>2
  <2>5. ResultMeansExited'
    <3>1. \A i \in Jobs : cproc'[i] = "alive" => i # j /\ cproc[i] = "alive" /\ result'[i] = result[i]
      BY <2>1, <2>2
    <3> QED BY <3>1
  <2> QED BY <2>3, <2>4, <2>5
<1>13. CASE Fail(j)
  <2>1. /\ j \in used /\ wpc[j] = "fail" /\ wpc'[j] = "done"
        /\ \A i \in Jobs : i # j => wpc'[i] = wpc[i]
        /\ \A i \in Jobs : cproc'[i] = "alive" <=> cproc[i] = "alive"
        /\ \A i \in Jobs : cproc'[i] = "none" <=> cproc[i] = "none"
        /\ UNCHANGED <<srv, cur, used>>
    BY <1>13 DEF Fail, WorkerEnds
  <2>5. cmd' \subseteq cmd /\ \A i \in cmd' : i \notin left' => i # j /\ i \notin left
    BY <1>13, {j} \in SUBSET Jobs, DropKeeps DEF Fail
  <2>2. /\ \A i \in Jobs : i # j => meta'[i] = meta[i] /\ result'[i] = result[i]
        /\ result'[j] \in {result[j], "start_failed"}
    BY <1>0, <1>13 DEF Fail, WriteResult
  <2>3. WorkerInv'
    <3>1. srv \in Creating \cup {"patch"} => cur \in used /\ (srv # "patch" => cur # j)
      BY <2>1
    <3>2. \A i \in Jobs : i # j => Known(i)' = Known(i) /\ result'[i] = result[i]
      BY <2>2
    <3> QED BY <2>1, <2>2, <2>5, <3>1, <3>2, SMTT(30)
  <2>4. TerminalForgetsCommand' /\ ResultMeansExited'
    BY <2>1, <2>2, <2>5
  <2> QED BY <2>3, <2>4
<1>14. CASE WorkerKilled(j)
  BY <1>14 DEF WorkerKilled, WorkerEnds
<1>15. CASE CommandExits(j)
  BY <1>15 DEF CommandExits
<1> QED
  BY <1>1, <1>2, <1>3, <1>4, <1>5, <1>6, <1>7, <1>8, <1>9, <1>10, <1>11, <1>12, <1>13, <1>14, <1>15 DEF WorkerNext

\* FilesInv holds in every reachable state.
LEMMA FilesInvariant == Spec => []FilesInv
<1>1. Init => TypeInv /\ LaunchInv /\ FilesInv
  BY TypeInvInit DEF Init, LaunchInv, Creating, BeforeSpawn, Running, FilesInv, WorkerInv,
     TerminalForgetsCommand, ResultMeansExited, NoMeta, Known
<1>2. TypeInv /\ LaunchInv /\ FilesInv /\ [Next]_vars => FilesInv'
  <2>1. TypeInv /\ LaunchInv /\ FilesInv /\ Next => FilesInv'
    BY ServerFilesInv, WorkerFilesInv DEF Next
  <2>2. FilesInv /\ UNCHANGED vars => FilesInv'
    BY DEF vars, serverVars, fileVars, procVars, histVars, FilesInv, WorkerInv,
       TerminalForgetsCommand, ResultMeansExited, Known
  <2> QED BY <2>1, <2>2
<1> QED BY <1>1, <1>2, TypeInvStep, LaunchInvStep, PTL DEF Spec

\* The plaintext command of a finished job is gone for good, but for an unlink
\* that failed or that a crash forestalled; one that ran is gone even then.
THEOREM CommandForgotten == Spec => []TerminalForgetsCommand
<1>1. FilesInv => TerminalForgetsCommand
  BY DEF FilesInv
<1> QED BY <1>1, FilesInvariant, PTL

\* Every published outcome of a run is the outcome of a command that has exited.
THEOREM OutcomeIsFinal == Spec => []ResultMeansExited
<1>1. FilesInv => ResultMeansExited
  BY DEF FilesInv
<1> QED BY <1>1, FilesInvariant, PTL
-----------------------------------------------------------------------------
(* A used key stays used.                                                   *)

\* The property with what the mapping files say of the jobs.
KeyInv == MappingInv /\ CleanedKeyIsTombstoned

\* Marking a job's mapping changes no binding.
LEMMA TombstoneKeeps ==
  ASSUME TypeOK, NEW j \in Jobs, Tombstone(j)
  PROVE  \A k \in Keys : /\ idem'[k].job = idem[k].job
                         /\ idem[k] = NoMap => idem'[k] = NoMap
                         /\ idem[k].tombstone => idem'[k].tombstone
                         /\ k = keyOf[j] /\ idem[k].job = j => idem'[k].tombstone
<1> DEFINE Maps == [job : Jobs \cup {NoJob}, tombstone : BOOLEAN]
<1>1. TAKE k \in Keys
<1>2. idem[k] \in Maps
  BY DEF TypeOK
<1>3. /\ [idem[k] EXCEPT !.tombstone = TRUE].job = idem[k].job
      /\ [idem[k] EXCEPT !.tombstone = TRUE].tombstone = TRUE
  BY <1>2
<1>4. NoMap.job # j
  BY JobsAssumption DEF NoMap
<1> QED BY <1>2, <1>3, <1>4 DEF Tombstone

\* Patching a status makes no known job unknown.
LEMMA PatchKnown ==
  ASSUME TypeOK, NEW j \in Jobs, NEW s, s # "none", NEW i \in Jobs, meta[i].status # "none"
  PROVE  /\ [meta EXCEPT ![j].status = s][i].status # "none"
         /\ [meta EXCEPT ![j] = [@ EXCEPT !.status = "running", !.child = TRUE]][i].status # "none"
<1>1. meta[j] \in Metas /\ meta \in [Jobs -> Metas]
  BY DEF TypeOK, Metas, Statuses
<1>2. [meta[j] EXCEPT !.status = s].status = s
  BY <1>1 DEF Metas
<1>3. [meta[j] EXCEPT !.status = "running", !.child = TRUE].status = "running"
  BY <1>1 DEF Metas
<1> QED BY <1>1, <1>2, <1>3

\* A status check makes no job known or unknown.
LEMMA ReconcileKnown ==
  ASSUME TypeInv, NEW S \in SUBSET Jobs, Reconcile(S)
  PROVE  \A i \in Jobs : (meta'[i].status # "none") <=> (meta[i].status # "none")
BY ReconcileFiles DEF TypeInv, Known

\* Starting to clean up a job leaves every key bound as it was, the job's marked.
LEMMA MarkKeepsKeys ==
  ASSUME TypeInv, KeyInv, NEW j \in Jobs, CleanupMark(j), UNCHANGED <<keyOf, used>>
  PROVE  KeyInv'
<1>1. TypeOK /\ Tombstone(j) /\ Reconcile({j}) /\ srv' = "rmtree" /\ cur' = j
  BY DEF CleanupMark, TypeInv
<1>2. \A k \in Keys : /\ idem'[k].job = idem[k].job
                      /\ idem[k] = NoMap => idem'[k] = NoMap
                      /\ idem[k].tombstone => idem'[k].tombstone
                      /\ k = keyOf[j] /\ idem[k].job = j => idem'[k].tombstone
  BY <1>1, TombstoneKeeps
<1>3. \A i \in Jobs : (meta'[i].status # "none") <=> (meta[i].status # "none")
  BY <1>1, ReconcileKnown
<1>4. used \subseteq Jobs
  BY <1>1 DEF TypeOK
<1>5. ASSUME NEW k \in Keys, idem'[k].job = j PROVE idem'[k].tombstone
  <2>1. idem[k].job = j
    BY <1>2, <1>5
  <2>2. idem[k] # NoMap
    BY <2>1, JobsAssumption DEF NoMap
  <2>3. keyOf[j] = k
    BY <2>1, <2>2 DEF KeyInv, MappingInv
  <2> QED BY <1>2, <2>1, <2>3
<1>6. MappingInv'
  BY <1>1, <1>2, <1>5 DEF KeyInv, MappingInv, Creating
<1>7. CleanedKeyIsTombstoned'
  BY <1>2, <1>3, <1>4 DEF KeyInv, MappingInv, CleanedKeyIsTombstoned, Known
<1> QED BY <1>6, <1>7 DEF KeyInv

\* No step of the server unbinds a key or leaves one open.
LEMMA ServerKeyInv == TypeInv /\ KeyInv /\ ServerNext => KeyInv'
<1> SUFFICES ASSUME TypeInv /\ KeyInv, ServerNext PROVE KeyInv'
  OBVIOUS
<1>0. ASSUME NEW j \in Jobs
      PROVE  \A i \in Jobs : /\ [meta EXCEPT ![j].worker = TRUE][i].status = meta[i].status
                             /\ meta[i].status # "none" => [meta EXCEPT ![j].status = "start_failed"][i].status # "none"
                             /\ meta[i].status # "none" => [meta EXCEPT ![j].status = "interrupted"][i].status # "none"
  <2>1. TypeOK
    BY DEF TypeInv
  <2>2. \A i \in Jobs : [meta EXCEPT ![j].worker = TRUE][i].status = meta[i].status
    BY <2>1, PatchStatus
  <2>3. \A i \in Jobs : meta[i].status # "none" =>
          /\ [meta EXCEPT ![j].status = "start_failed"][i].status # "none"
          /\ [meta EXCEPT ![j].status = "interrupted"][i].status # "none"
    BY <2>1, PatchKnown
  <2> QED BY <2>2, <2>3
<1> USE JobsAssumption DEF serverVars, fileVars, procVars, histVars, TypeInv, TypeOK, InHandler, KeyInv, MappingInv, CleanedKeyIsTombstoned, Creating, Known
<1>1. ASSUME NEW k \in Keys, StartReuse(k) PROVE KeyInv'
  <2>1. \A i \in Jobs : (meta'[i].status # "none") <=> (meta[i].status # "none")
    BY SMTT(30), <1>1, ReconcileKnown DEF StartReuse
  <2> QED BY <1>1, <2>1 DEF StartReuse
<1>2. ASSUME NEW k \in Keys \cup {NoKey}, StartRefused(k) PROVE KeyInv'
  <2>1. \A i \in Jobs : (meta'[i].status # "none") <=> (meta[i].status # "none")
    BY <1>2, ReconcileKnown DEF StartRefused
  <2> QED BY <1>2, <2>1 DEF StartRefused
<1>3. ASSUME NEW k \in Keys \cup {NoKey}, NEW j \in Jobs, StartAccepted(k, j) PROVE KeyInv'
  BY <1>3, ReconcileKnown DEF StartAccepted, NoMap
<1>4. CASE WriteCommand
  BY <1>4 DEF WriteCommand
<1>5. CASE WriteMetadata
  BY <1>5 DEF WriteMetadata, NewMeta, NoMap
<1>6. CASE WriteMapping
  BY ZenonT(60), <1>6 DEF WriteMapping, NoMap
<1>7. CASE Launch
  BY <1>7 DEF Launch
<1>8. CASE LaunchFails
  BY <1>0, <1>8 DEF LaunchFails
<1>9. CASE RecordWorker
  BY <1>0, <1>9 DEF RecordWorker
<1>10. CASE StartRaises
  BY <1>10 DEF StartRaises
<1>11. CASE RemoveTree
  BY <1>11 DEF RemoveTree, NoMeta, NoMap
<1>12. CASE RecoverEnd
  BY <1>12 DEF RecoverEnd
<1>13. CASE ServerStops
  BY <1>13 DEF ServerStops, ServerDies
<1>14. CASE StopsInRemoveTree
  BY <1>14 DEF StopsInRemoveTree, ServerDies, NoMeta, NoMap
<1>15. CASE ServerStarts
  BY <1>15 DEF ServerStarts
<1>16. CASE Reap
  BY <1>16 DEF Reap
<1>17. ASSUME NEW j \in Jobs, Observe(j) PROVE KeyInv'
  <2>1. \A i \in Jobs : (meta'[i].status # "none") <=> (meta[i].status # "none")
    BY <1>17, ReconcileKnown DEF Observe
  <2> QED BY <1>17, <2>1 DEF Observe
<1>18. ASSUME NEW j \in Jobs, CancelBegin(j) PROVE KeyInv'
  BY <1>18 DEF CancelBegin
<1>19. ASSUME NEW j \in Jobs, CancelPoll(j) PROVE KeyInv'
  BY <1>19, ReconcileKnown DEF CancelPoll
<1>20. ASSUME NEW j \in Jobs, CancelDeadline(j) PROVE KeyInv'
  BY <1>20 DEF CancelDeadline
<1>21. ASSUME NEW j \in Jobs, CancelEnd(j) PROVE KeyInv'
  <2>1. \A i \in Jobs : (meta'[i].status # "none") <=> (meta[i].status # "none")
    BY <1>21, ReconcileKnown DEF CancelEnd
  <2> QED BY <1>21, <2>1 DEF CancelEnd
<1>22. ASSUME NEW j \in Jobs, Cleanup(j) PROVE KeyInv'
  <2>1. UNCHANGED <<keyOf, used>> /\ srv' = "rmtree" /\ cur' = j
    BY <1>22 DEF Cleanup, CleanupMark
  <2> QED BY <1>22, <2>1, MarkKeepsKeys DEF Cleanup
<1>23. ASSUME NEW j \in Jobs, RecoverOne(j) PROVE KeyInv'
  <2>1. UNCHANGED <<keyOf, used>>
    BY <1>23 DEF RecoverOne
  <2>2. CASE UNCHANGED <<srv, cur, idem>>
    <3>1. \A i \in Jobs : (meta'[i].status # "none") <=> (meta[i].status # "none")
      <4>1. CASE Reconcile({j})
        BY SMTT(30), <4>1, ReconcileKnown
      <4>2. CASE UNCHANGED meta
        BY <4>2
      <4> QED BY <1>23, <4>1, <4>2 DEF RecoverOne, CleanupMark
    <3> QED BY <2>1, <2>2, <3>1
  <2>3. CASE CleanupMark(j)
    BY <2>1, <2>3, MarkKeepsKeys
  <2> QED BY <1>23, <2>2, <2>3 DEF RecoverOne
<1>24. ASSUME NEW j \in Jobs, StopsInStatus(j) PROVE KeyInv'
  <2>1. \A i \in Jobs : meta[i].status # "none" => meta'[i].status # "none"
    BY <1>0, <1>24 DEF StopsInStatus
  <2> QED BY <1>24, <2>1 DEF StopsInStatus, ServerDies
<1> QED
  BY <1>1, <1>2, <1>3, <1>4, <1>5, <1>6, <1>7, <1>8, <1>9, <1>10, <1>11, <1>12, <1>13, <1>14, <1>15, <1>16, <1>17, <1>18, <1>19, <1>20, <1>21, <1>22, <1>23, <1>24 DEF ServerNext

\* No worker removes a job's metadata.
LEMMA WorkerKeyInv ==
  ASSUME TypeInv, KeyInv, NEW j \in Jobs, WorkerNext(j) \/ WorkerKilled(j) \/ CommandExits(j)
  PROVE  KeyInv'
<1>1. UNCHANGED <<srv, cur, idem, keyOf, used>>
  BY DEF WorkerNext, ReadCommand, UnlinkCommand, CheckCancel, SpawnCommand, RecordChild, PatchRaises,
     SeeCancel, SeeDeadline, KillCommand, WaitCommand, Classify, Finish, Fail, WorkerKilled,
     CommandExits, serverVars, fileVars, procVars, histVars
<1>2. \/ UNCHANGED meta
      \/ \E s \in Results : meta' = [meta EXCEPT ![j].status = s]
      \/ meta' = [meta EXCEPT ![j] = [@ EXCEPT !.status = "running", !.child = TRUE]]
  <2>1. ASSUME NEW s \in Results, WriteResult(j, s) \/ WriteBreaks(j, s)
        PROVE  UNCHANGED meta \/ meta' = [meta EXCEPT ![j].status = s]
    BY <2>1 DEF WriteResult, WriteBreaks
  <2>2. "canceled" \in Results /\ "start_failed" \in Results
    BY DEF Results, Terminal
  <2>3. Outcome(j) \in Results
    BY DEF Outcome, Results, Terminal, TypeInv, TypeOK
  <2>4. CASE CheckCancel(j)
    BY <2>1, <2>2, <2>4 DEF CheckCancel
  <2>5. CASE Finish(j)
    BY <2>1, <2>3, <2>5 DEF Finish
  <2>6. CASE Fail(j)
    BY <2>1, <2>2, <2>6 DEF Fail
  <2>7. CASE RecordChild(j)
    BY <2>7 DEF RecordChild
  <2> QED
    BY <2>4, <2>5, <2>6, <2>7 DEF WorkerNext, ReadCommand, UnlinkCommand, SpawnCommand, PatchRaises,
       SeeCancel, SeeDeadline, KillCommand, WaitCommand, Classify, WorkerKilled, CommandExits, fileVars
<1>3. \A i \in Jobs : Known(i) => Known(i)'
  <2>1. "none" \notin Results
    BY DEF Results, Terminal
  <2>2. TypeOK
    BY DEF TypeInv
  <2>3. CASE UNCHANGED meta
    BY <2>3 DEF Known
  <2>4. ASSUME NEW s \in Results, meta' = [meta EXCEPT ![j].status = s]
        PROVE  \A i \in Jobs : Known(i) => Known(i)'
    BY <2>1, <2>2, <2>4, PatchKnown DEF Known
  <2>5. CASE meta' = [meta EXCEPT ![j] = [@ EXCEPT !.status = "running", !.child = TRUE]]
    BY <2>2, <2>5, PatchKnown DEF Known
  <2> QED BY <1>2, <2>3, <2>4, <2>5
<1> QED BY <1>1, <1>3 DEF KeyInv, MappingInv, CleanedKeyIsTombstoned, Creating, TypeInv, TypeOK, InHandler

\* A key whose job was cleaned up refuses every later request, so the command
\* behind it is never started again.
THEOREM KeyStaysConsumed == Spec => []CleanedKeyIsTombstoned
<1>1. Init => TypeInv /\ KeyInv
  BY TypeInvInit DEF Init, KeyInv, MappingInv, CleanedKeyIsTombstoned, Creating, NoMap
<1>2. TypeInv /\ KeyInv /\ [Next]_vars => KeyInv'
  <2>1. TypeInv /\ KeyInv /\ Next => KeyInv'
    BY ServerKeyInv, WorkerKeyInv DEF Next
  <2>2. KeyInv /\ UNCHANGED vars => KeyInv'
    BY DEF vars, serverVars, fileVars, procVars, histVars, KeyInv, MappingInv, CleanedKeyIsTombstoned, Known
  <2> QED BY <2>1, <2>2
<1>3. KeyInv => CleanedKeyIsTombstoned
  BY DEF KeyInv
<1> QED BY <1>1, <1>2, <1>3, TypeInvStep, PTL DEF Spec
=============================================================================
