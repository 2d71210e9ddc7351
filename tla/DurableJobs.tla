----------------------------- MODULE DurableJobs -----------------------------
(***************************************************************************)
(* Durable background jobs of the host server: jobs.py (the server's side) *)
(* and job_worker.py (one detached worker process per job).                *)
(*                                                                         *)
(* The server runs every job tool on one event loop, so a handler is       *)
(* interrupted by another handler only where it awaits; only job_cancel    *)
(* does.  Worker processes, commands, operators and crashes interleave     *)
(* with every durable step of a handler.  A job is a directory of files    *)
(* (command.bin, metadata.json, result.json, cancel.request) that server   *)
(* and worker share; a section under the per-job lock is one action.       *)
(***************************************************************************)
EXTENDS FiniteSets, Naturals

CONSTANTS
  Jobs,      \* the job identifiers secrets.token_hex(16) may draw
  Keys,      \* the idempotency keys clients use
  NoKey,     \* a request without a key
  NoJob,     \* no job
  MaxJobs,   \* settings.max_jobs
  Timed,     \* the jobs started with a timeout_ms
  Faults     \* what the environment may do, a subset of AllFaults

(***************************************************************************)
(* restart       the server is stopped between two handlers                *)
(* server_crash  the server dies at any step of a handler                  *)
(* worker_kill   a worker process dies at any step                         *)
(* spawn_error   fork/exec of the worker or of the command fails           *)
(* io_error      a write into the job directory, or the removal of its     *)
(*               command.bin, fails                                        *)
(***************************************************************************)
AllFaults == {"restart", "server_crash", "worker_kill", "spawn_error", "io_error"}

ASSUME JobsAssumption ==
  /\ NoKey \notin Keys
  /\ NoJob \notin Jobs
  /\ MaxJobs \in Nat \ {0}
  /\ Timed \subseteq Jobs
  /\ Faults \subseteq AllFaults

VARIABLES
  srv,       \* where the server is: down, recovering, idle, or inside a handler
  cur,       \* the job of the handler it is inside
  todo,      \* the directories recover_jobs has still to look at
  canceling, \* per job: where a cancel_job call on it awaits
  dirs,      \* the job directories that exist
  cmd,       \* ... with a command.bin
  left,      \* history: ... that the last attempt to remove it did not remove
  marker,    \* ... with a cancel.request
  meta,      \* metadata.json: reported status, worker and child identity recorded or not
  result,    \* the status in result.json, or "none"
  idem,      \* per key: the mapping file written by start_job
  wproc,     \* the worker process of each job
  wpc,       \* where it is in job_worker.run
  verdict,   \* its locals canceled / timed_out
  cproc,     \* the command's process
  code,      \* its exit code
  keyOf,     \* the key of the request that created the job
  used,      \* history: the identifiers drawn so far
  runs,      \* history: how often the job's command was spawned
  early      \* history: jobs whose cancel was requested before their command had exited

serverVars == <<srv, cur, todo, canceling>>
fileVars   == <<dirs, cmd, left, marker, meta, result, idem>>
procVars   == <<wproc, wpc, verdict, cproc, code>>
histVars   == <<keyOf, used, runs, early>>
vars       == <<serverVars, fileVars, procVars, histVars>>

-----------------------------------------------------------------------------
Terminal == {"completed", "failed", "canceled", "timed_out", "interrupted", "start_failed"}
Results  == Terminal \ {"interrupted"}

NoMeta  == [status |-> "none", worker |-> FALSE, child |-> FALSE]
NewMeta == [status |-> "starting", worker |-> FALSE, child |-> FALSE]
NoMap   == [job |-> NoJob, tombstone |-> FALSE]

ServerSteps == {"down", "recover", "idle", "command", "metadata", "idem", "launch", "patch", "rmtree"}
WorkerSteps == {"none", "read", "unlink", "check", "spawn", "record", "poll", "terminate",
                "classify", "finish", "fail", "done"}

TypeOK ==
  /\ srv \in ServerSteps
  /\ cur \in Jobs \cup {NoJob}
  /\ todo \subseteq Jobs
  /\ canceling \in [Jobs -> {"no", "grace", "final"}]
  /\ dirs \subseteq Jobs
  /\ cmd \subseteq Jobs
  /\ left \subseteq Jobs
  /\ marker \subseteq Jobs
  /\ meta \in [Jobs -> [status : {"none", "starting", "running"} \cup Terminal,
                        worker : BOOLEAN, child : BOOLEAN]]
  /\ result \in [Jobs -> {"none"} \cup Results]
  /\ idem \in [Keys -> [job : Jobs \cup {NoJob}, tombstone : BOOLEAN]]
  /\ wproc \in [Jobs -> {"none", "alive", "adopted", "zombie", "gone"}]
  /\ wpc \in [Jobs -> WorkerSteps]
  /\ verdict \in [Jobs -> {"none", "canceled", "timed_out"}]
  /\ cproc \in [Jobs -> {"none", "alive", "zombie", "gone"}]
  /\ code \in [Jobs -> {"none", "zero", "nonzero"}]
  /\ keyOf \in [Jobs -> Keys \cup {NoKey}]
  /\ used \subseteq Jobs
  /\ runs \in [Jobs -> Nat]
  /\ early \subseteq Jobs

Init ==
  /\ srv = "idle" /\ cur = NoJob /\ todo = {}
  /\ canceling = [j \in Jobs |-> "no"]
  /\ dirs = {} /\ cmd = {} /\ left = {} /\ marker = {}
  /\ meta = [j \in Jobs |-> NoMeta]
  /\ result = [j \in Jobs |-> "none"]
  /\ idem = [k \in Keys |-> NoMap]
  /\ wproc = [j \in Jobs |-> "none"]
  /\ wpc = [j \in Jobs |-> "none"]
  /\ verdict = [j \in Jobs |-> "none"]
  /\ cproc = [j \in Jobs |-> "none"]
  /\ code = [j \in Jobs |-> "none"]
  /\ keyOf = [j \in Jobs |-> NoKey]
  /\ used = {} /\ early = {}
  /\ runs = [j \in Jobs |-> 0]

-----------------------------------------------------------------------------
(* job_status: what the server reports, and what reporting does.            *)

\* metadata.json exists: job_status raises "Unknown job_id" otherwise.
Known(j) == meta[j].status # "none"

Running(j) == wproc[j] \in {"alive", "adopted"}

\* Mutant of WorkerAlive: only a child of this server counts as alive.
WorkerAliveOwnChild(j) == meta[j].worker /\ wproc[j] = "alive"

\* proc_identity_alive reads /proc/<pid>/stat, where a zombie is still listed.
WorkerAlive(j) == meta[j].worker /\ wproc[j] \in {"alive", "adopted", "zombie"}
ChildAlive(j)  == meta[j].child /\ cproc[j] \in {"alive", "zombie"}

Status(j) ==
  CASE result[j] # "none" -> result[j]
    [] result[j] = "none" /\ (ChildAlive(j) \/ WorkerAlive(j)) /\ j \in marker -> "cancel_requested"
    [] result[j] = "none" /\ ChildAlive(j) /\ WorkerAlive(j) /\ j \notin marker -> "running"
    [] result[j] = "none" /\ ChildAlive(j) /\ ~WorkerAlive(j) /\ j \notin marker -> "lost"
    [] result[j] = "none" /\ ~ChildAlive(j) /\ WorkerAlive(j) /\ j \notin marker -> "starting"
    [] OTHER -> "interrupted"

\* Neither a result nor a recorded process: job_status calls it interrupted.
Abandoned(j) == Known(j) /\ result[j] = "none" /\ ~ChildAlive(j) /\ ~WorkerAlive(j)

\* Mutant of Reconcile: the command is kept for a job that lost its worker.
ReconcileKeepsCommand(S) ==
  /\ meta' = [j \in Jobs |-> IF j \in S /\ Abandoned(j) /\ meta[j].status \notin Terminal
                             THEN [meta[j] EXCEPT !.status = "interrupted"] ELSE meta[j]]
  /\ UNCHANGED <<cmd, left>>

\* command.bin is unlinked for the jobs of S, and an OSError is swallowed.
DropCommands(S) ==
  \E kept \in SUBSET (S \cap cmd) :
    /\ kept # {} => "io_error" \in Faults
    /\ cmd' = cmd \ (S \ kept)
    /\ left' = (left \ S) \cup kept

\* job_status on every job of S persists "interrupted", then drops the command.
\* (If the metadata cannot be written it raises before it has done anything.)
Reconcile(S) ==
  LET lost == {j \in S : Abandoned(j)} IN
  /\ meta' = [j \in Jobs |-> IF j \in lost /\ meta[j].status \notin Terminal
                             THEN [meta[j] EXCEPT !.status = "interrupted"] ELSE meta[j]]
  /\ DropCommands(lost)

\* job_status / job_read / tasks/get on a job.
Observe(j) ==
  /\ srv = "idle" /\ Known(j)
  /\ Reconcile({j})
  /\ UNCHANGED <<serverVars, dirs, marker, result, idem, procVars, histVars>>

\* Mutant of Active: only jobs reported as running take a slot.
ActiveRunning == {j \in Jobs : Known(j) /\ Status(j) = "running"}

\* _active_job_count: every known job whose reported status is not terminal.
Active == {j \in Jobs : Known(j) /\ Status(j) \notin Terminal}

-----------------------------------------------------------------------------
(* start_job, one action per durable step.                                   *)

\* The key is bound and its directory still there: the original job is
\* reported.  (A different request under the key, a cleaned job and an
\* unreadable one are refused without any effect.)
StartReuse(k) ==
  /\ srv = "idle"
  /\ idem[k] # NoMap /\ idem[k].job \in dirs /\ Known(idem[k].job)
  /\ Reconcile({idem[k].job})
  /\ UNCHANGED <<serverVars, dirs, marker, result, idem, procVars, histVars>>

\* Mutant of Unbound: a key is free again once its job's directory is gone.
UnboundAfterCleanup == {NoKey} \cup {k \in Keys : idem[k].job \notin dirs}

\* The keys no mapping file exists for.
Unbound == {NoKey} \cup {k \in Keys : idem[k] = NoMap}

\* The active-job limit refuses the request, after a status check of every job.
StartRefused(k) ==
  /\ srv = "idle" /\ k \in Unbound
  /\ Cardinality(Active) >= MaxJobs
  /\ Reconcile(Jobs)
  /\ UNCHANGED <<serverVars, dirs, marker, result, idem, procVars, histVars>>

StartAccepted(k, j) ==
  /\ srv = "idle" /\ k \in Unbound
  /\ Cardinality(Active) < MaxJobs
  /\ j \notin used
  /\ Reconcile(Jobs)
  /\ dirs' = dirs \cup {j}
  /\ used' = used \cup {j}
  /\ keyOf' = [keyOf EXCEPT ![j] = k]
  /\ srv' = "command" /\ cur' = j
  /\ UNCHANGED <<todo, canceling, marker, result, idem, procVars, runs, early>>

WriteCommand ==
  /\ srv = "command"
  /\ cmd' = cmd \cup {cur}
  /\ srv' = "metadata"
  /\ UNCHANGED <<cur, todo, canceling, dirs, left, marker, meta, result, idem, procVars, histVars>>

WriteMetadata ==
  /\ srv = "metadata"
  /\ meta' = [meta EXCEPT ![cur] = NewMeta]
  /\ srv' = IF keyOf[cur] = NoKey THEN "launch" ELSE "idem"
  /\ UNCHANGED <<cur, todo, canceling, dirs, cmd, left, marker, result, idem, procVars, histVars>>

WriteMapping ==
  /\ srv = "idem"
  /\ idem' = [idem EXCEPT ![keyOf[cur]] = [job |-> cur, tombstone |-> FALSE]]
  /\ srv' = "launch"
  /\ UNCHANGED <<cur, todo, canceling, dirs, cmd, left, marker, meta, result, procVars, histVars>>

\* subprocess.Popen first reaps exited children that nobody waited for.
ReapAll(w) == [j \in Jobs |-> IF w[j] = "zombie" THEN "gone" ELSE w[j]]

Launch ==
  /\ srv = "launch"
  /\ wproc' = [ReapAll(wproc) EXCEPT ![cur] = "alive"]
  /\ wpc' = [wpc EXCEPT ![cur] = "read"]
  /\ srv' = "patch"
  /\ UNCHANGED <<cur, todo, canceling, fileVars, verdict, cproc, code, histVars>>

\* Popen raises OSError; dropping the command and recording that may fail in turn.
LaunchFails ==
  /\ srv = "launch" /\ "spawn_error" \in Faults
  /\ wproc' = ReapAll(wproc)
  /\ \/ /\ cmd' = cmd \ {cur}
        /\ result' = [result EXCEPT ![cur] = "start_failed"]
        /\ \/ meta' = [meta EXCEPT ![cur].status = "start_failed"]
           \/ "io_error" \in Faults /\ UNCHANGED meta
     \/ "io_error" \in Faults /\ cmd' \in {cmd, cmd \ {cur}} /\ UNCHANGED <<result, meta>>
  /\ srv' = "idle" /\ cur' = NoJob
  /\ UNCHANGED <<todo, canceling, dirs, left, marker, idem, wpc, verdict, cproc, code, histVars>>

\* Mutant of RecordWorker: the identity of the worker is not recorded.
RecordWorkerNothing ==
  /\ srv = "patch"
  /\ srv' = "idle" /\ cur' = NoJob
  /\ UNCHANGED <<todo, canceling, fileVars, procVars, histVars>>

RecordWorker ==
  /\ srv = "patch"
  /\ meta' = [meta EXCEPT ![cur].worker = TRUE]
  /\ srv' = "idle" /\ cur' = NoJob
  /\ UNCHANGED <<todo, canceling, dirs, cmd, left, marker, result, idem, procVars, histVars>>

\* A write fails and the exception leaves the files written so far behind.
StartRaises ==
  /\ srv \in {"command", "metadata", "idem", "patch"} /\ "io_error" \in Faults
  /\ srv' = "idle" /\ cur' = NoJob
  /\ UNCHANGED <<todo, canceling, fileVars, procVars, histVars>>

-----------------------------------------------------------------------------
(* cancel_job: segments between its awaits.                                  *)

CancelBegin(j) ==
  /\ srv = "idle" /\ Known(j) /\ canceling[j] = "no"
  /\ Status(j) \notin Terminal
  /\ marker' = marker \cup {j}
  /\ early' = IF cproc[j] \in {"none", "alive"} THEN early \cup {j} ELSE early
  \* SIGTERM goes to a recorded, living child: CommandExits may follow.
  /\ canceling' = [canceling EXCEPT ![j] = IF ChildAlive(j) THEN "grace" ELSE "final"]
  /\ UNCHANGED <<srv, cur, todo, dirs, cmd, left, meta, result, idem, procVars, keyOf, used, runs>>

\* An iteration of the grace loop that leaves it: unknown job, terminal job, or no
\* child any more.
CancelPoll(j) ==
  /\ srv = "idle" /\ canceling[j] = "grace"
  /\ \/ ~Known(j) /\ canceling' = [canceling EXCEPT ![j] = "no"] /\ UNCHANGED <<meta, cmd, left>>
     \/ /\ Known(j) /\ Reconcile({j})
        /\ \/ Status(j) \in Terminal /\ canceling' = [canceling EXCEPT ![j] = "no"]
           \/ /\ Status(j) \notin Terminal /\ ~ChildAlive(j)
              /\ canceling' = [canceling EXCEPT ![j] = "final"]
  /\ UNCHANGED <<srv, cur, todo, dirs, marker, result, idem, procVars, histVars>>

\* What a SIGKILL leaves of a living process that its parent has not waited for.
Killed(j) == IF Running(j) THEN "zombie" ELSE "gone"

\* The grace period is over.  job_lock creates the directory it locks in.
CancelDeadline(j) ==
  /\ srv = "idle" /\ canceling[j] = "grace"
  /\ dirs' = dirs \cup {j}
  /\ canceling' = [canceling EXCEPT ![j] = IF Known(j) THEN "final" ELSE "no"]
  /\ IF ChildAlive(j) /\ cproc[j] = "alive"
     THEN /\ cproc' = [cproc EXCEPT ![j] = Killed(j)]
          /\ code' = [code EXCEPT ![j] = "nonzero"]
     ELSE UNCHANGED <<cproc, code>>
  /\ UNCHANGED <<srv, cur, todo, cmd, left, marker, meta, result, idem, wproc, wpc, verdict, histVars>>

CancelEnd(j) ==
  /\ srv = "idle" /\ canceling[j] = "final"
  /\ canceling' = [canceling EXCEPT ![j] = "no"]
  /\ Reconcile({j})
  /\ UNCHANGED <<srv, cur, todo, dirs, marker, result, idem, procVars, histVars>>

-----------------------------------------------------------------------------
(* cleanup_job and recover_jobs.                                             *)

\* Mutant of Tombstone: the mapping is left as start_job wrote it.
TombstoneNothing(j) == UNCHANGED idem

\* The mapping file keeps the key consumed after the directory is gone.
Tombstone(j) ==
  idem' = [k \in Keys |-> IF k = keyOf[j] /\ idem[k].job = j
                          THEN [idem[k] EXCEPT !.tombstone = TRUE] ELSE idem[k]]

CleanupMark(j) ==
  /\ Known(j) /\ Status(j) \in Terminal
  /\ Reconcile({j})
  /\ Tombstone(j)
  /\ srv' = "rmtree" /\ cur' = j

Cleanup(j) ==
  /\ srv = "idle"
  /\ CleanupMark(j)
  /\ UNCHANGED <<todo, canceling, dirs, marker, result, procVars, histVars>>

RemoveTree ==
  /\ srv = "rmtree"
  /\ dirs' = dirs \ {cur} /\ cmd' = cmd \ {cur} /\ marker' = marker \ {cur}
  /\ meta' = [meta EXCEPT ![cur] = NoMeta]
  /\ result' = [result EXCEPT ![cur] = "none"]
  /\ early' = early \ {cur}
  /\ srv' = IF cur \in todo THEN "recover" ELSE "idle"
  /\ todo' = todo \ {cur} /\ cur' = NoJob
  /\ UNCHANGED <<canceling, left, idem, procVars, keyOf, used, runs>>

\* recover_jobs at startup looks at one directory: status, then cleanup if retention is over.
RecoverOne(j) ==
  /\ srv = "recover" /\ j \in todo
  /\ \/ /\ Known(j) /\ Reconcile({j}) /\ todo' = todo \ {j}
        /\ UNCHANGED <<srv, cur, idem>>
     \/ ~Known(j) /\ todo' = todo \ {j} /\ UNCHANGED <<srv, cur, meta, cmd, left, idem>>
     \/ /\ meta[j].status \in Terminal \/ result[j] # "none"  \* retention counts from completed_at
        /\ CleanupMark(j) /\ UNCHANGED todo
  /\ UNCHANGED <<canceling, dirs, marker, result, procVars, histVars>>

RecoverEnd ==
  /\ srv = "recover" /\ todo = {}
  /\ srv' = "idle"
  /\ UNCHANGED <<cur, todo, canceling, fileVars, procVars, histVars>>

-----------------------------------------------------------------------------
(* The server process dies and is started again.                            *)

\* Workers live in their own session: they survive, adopted by init, which
\* also reaps the exited ones.  Awaiting cancel_job calls are gone.
ServerDies ==
  /\ srv' = "down" /\ cur' = NoJob /\ todo' = {}
  /\ canceling' = [j \in Jobs |-> "no"]
  /\ wproc' = [j \in Jobs |-> IF wproc[j] = "alive" THEN "adopted"
                              ELSE IF wproc[j] = "zombie" THEN "gone" ELSE wproc[j]]
  /\ UNCHANGED <<wpc, verdict, cproc, code, keyOf, used, runs, idem, dirs>>

ServerStops ==
  /\ \/ srv = "idle" /\ "restart" \in Faults
     \/ srv # "down" /\ "server_crash" \in Faults
  /\ ServerDies
  /\ UNCHANGED <<cmd, left, marker, meta, result, early>>

\* ... in the middle of rmtree: any part of the directory's files is gone.
StopsInRemoveTree ==
  /\ srv = "rmtree" /\ "server_crash" \in Faults
  /\ ServerDies
  /\ cmd' \in {cmd, cmd \ {cur}} /\ marker' \in {marker, marker \ {cur}}
  /\ meta' \in {meta, [meta EXCEPT ![cur] = NoMeta]}
  /\ result' \in {result, [result EXCEPT ![cur] = "none"]}
  /\ early' = early \ {cur}
  /\ UNCHANGED left

\* ... or in a status check, between metadata.json and command.bin.
StopsInStatus(j) ==
  /\ srv = "idle" \/ (srv = "recover" /\ j \in todo)
  /\ "server_crash" \in Faults
  /\ Abandoned(j) /\ meta[j].status \notin Terminal
  /\ ServerDies
  /\ meta' = [meta EXCEPT ![j].status = "interrupted"]
  /\ left' = left \cup ({j} \cap cmd)
  /\ UNCHANGED <<cmd, marker, result, early>>

ServerStarts ==
  /\ srv = "down"
  /\ srv' = "recover" /\ todo' = dirs
  /\ UNCHANGED <<cur, canceling, fileVars, procVars, histVars>>

\* Any other tool that spawns a process reaps the exited workers.
Reap ==
  /\ srv = "idle"
  /\ \E j \in Jobs : wproc[j] = "zombie"
  /\ wproc' = ReapAll(wproc)
  /\ UNCHANGED <<serverVars, fileVars, wpc, verdict, cproc, code, histVars>>

-----------------------------------------------------------------------------
(* job_worker.run                                                            *)

WorkerAt(j, step) == Running(j) /\ wpc[j] = step
Goto(j, step) == wpc' = [wpc EXCEPT ![j] = step]

\* What is left of the worker once it has ended: its server is its parent.
Exited(j) == IF wproc[j] = "alive" THEN "zombie" ELSE "gone"

WorkerEnds(j) == /\ wproc' = [wproc EXCEPT ![j] = Exited(j)]
                 /\ wpc' = [wpc EXCEPT ![j] = "done"]
                 /\ cproc' = [cproc EXCEPT ![j] = IF @ = "zombie" THEN "gone" ELSE @]

\* _write_result under the job lock.  Without metadata.json it raises after
\* result.json is out, and the handler of that exception writes start_failed.
WriteResult(j, status) ==
  /\ dirs' = dirs \cup {j}
  /\ result' = [result EXCEPT ![j] = IF Known(j) THEN status ELSE "start_failed"]
  /\ meta' = IF Known(j) THEN [meta EXCEPT ![j].status = status] ELSE meta

\* _write_result fails at its second write, or at its first (PatchRaises).
WriteBreaks(j, status) ==
  /\ "io_error" \in Faults
  /\ dirs' = dirs \cup {j}
  /\ result' = [result EXCEPT ![j] = status]
  /\ UNCHANGED meta

ReadCommand(j) ==
  /\ WorkerAt(j, "read")
  /\ Goto(j, IF j \in cmd THEN "unlink" ELSE "fail")
  /\ UNCHANGED <<serverVars, fileVars, wproc, verdict, cproc, code, histVars>>

UnlinkCommand(j) ==
  /\ WorkerAt(j, "unlink")
  /\ \/ cmd' = cmd \ {j} /\ Goto(j, "check")
     \/ "io_error" \in Faults /\ Goto(j, "fail") /\ UNCHANGED cmd
  /\ UNCHANGED <<serverVars, dirs, left, marker, meta, result, idem, wproc, verdict, cproc, code, histVars>>

CheckCancel(j) ==
  /\ WorkerAt(j, "check")
  /\ \/ /\ j \notin marker /\ Goto(j, "spawn")
        /\ UNCHANGED <<dirs, meta, result, wproc, cproc>>
     \/ j \in marker /\ WriteResult(j, "canceled") /\ WorkerEnds(j)
     \/ j \in marker /\ WriteBreaks(j, "canceled") /\ Goto(j, "fail") /\ UNCHANGED <<wproc, cproc>>
  /\ UNCHANGED <<serverVars, cmd, left, marker, idem, verdict, code, histVars>>

SpawnCommand(j) ==
  /\ WorkerAt(j, "spawn")
  /\ \/ /\ cproc' = [cproc EXCEPT ![j] = "alive"]
        /\ runs' = [runs EXCEPT ![j] = @ + 1]
        /\ Goto(j, "record")
     \/ "spawn_error" \in Faults /\ Goto(j, "fail") /\ UNCHANGED <<cproc, runs>>
  /\ UNCHANGED <<serverVars, fileVars, wproc, verdict, code, keyOf, used, early>>

\* _patch_meta with the child's identity.
RecordChild(j) ==
  /\ WorkerAt(j, "record") /\ Known(j)
  /\ meta' = [meta EXCEPT ![j] = [@ EXCEPT !.status = "running", !.child = TRUE]]
  /\ Goto(j, "poll")
  /\ UNCHANGED <<serverVars, dirs, cmd, left, marker, result, idem, wproc, verdict, cproc, code, histVars>>

\* _patch_meta raises: the directory was removed (the lock recreates it), or a
\* write failed.  The heartbeat and the last size update are such patches too.
PatchRaises(j) ==
  /\ Running(j) /\ wpc[j] \in {"record", "poll", "finish"}
  /\ ~Known(j) \/ "io_error" \in Faults
  /\ dirs' = dirs \cup {j}
  /\ Goto(j, "fail")
  /\ UNCHANGED <<serverVars, cmd, left, marker, meta, result, idem, wproc, verdict, cproc, code, histVars>>

\* The loop's three exits: cancel.request, the deadline, the process.
SeeCancel(j) ==
  /\ WorkerAt(j, "poll") /\ cproc[j] \in {"alive", "zombie"} /\ j \in marker
  /\ verdict' = [verdict EXCEPT ![j] = "canceled"]
  /\ Goto(j, "terminate")
  /\ UNCHANGED <<serverVars, fileVars, wproc, cproc, code, histVars>>

\* Mutant of SeeDeadline: the deadline is forgotten when the server goes away.
SeeDeadlineOfServer(j) ==
  /\ WorkerAt(j, "poll") /\ cproc[j] \in {"alive", "zombie"} /\ j \in Timed
  /\ wproc[j] = "alive"
  /\ verdict' = [verdict EXCEPT ![j] = "timed_out"]
  /\ Goto(j, "terminate")
  /\ UNCHANGED <<serverVars, fileVars, wproc, cproc, code, histVars>>

SeeDeadline(j) ==
  /\ WorkerAt(j, "poll") /\ cproc[j] \in {"alive", "zombie"} /\ j \in Timed
  /\ verdict' = [verdict EXCEPT ![j] = "timed_out"]
  /\ Goto(j, "terminate")
  /\ UNCHANGED <<serverVars, fileVars, wproc, cproc, code, histVars>>

\* Mutant of KillCommand: only a deadline is followed up with SIGKILL.
KillCommandLate(j) ==
  /\ WorkerAt(j, "terminate") /\ cproc[j] = "alive" /\ verdict[j] = "timed_out"
  /\ cproc' = [cproc EXCEPT ![j] = "zombie"]
  /\ code' = [code EXCEPT ![j] = "nonzero"]
  /\ UNCHANGED <<serverVars, fileVars, wproc, wpc, verdict, histVars>>

\* _terminate_process_group after the grace period of its SIGTERM.
KillCommand(j) ==
  /\ WorkerAt(j, "terminate") /\ cproc[j] = "alive"
  /\ cproc' = [cproc EXCEPT ![j] = "zombie"]
  /\ code' = [code EXCEPT ![j] = "nonzero"]
  /\ UNCHANGED <<serverVars, fileVars, wproc, wpc, verdict, histVars>>

\* Mutant of WaitCommand: after SIGTERM the command is not waited for.
WaitCommandNever(j) ==
  /\ Running(j) /\ wpc[j] \in {"poll", "terminate"}
  /\ wpc[j] = "poll" => cproc[j] = "zombie"
  /\ cproc' = [cproc EXCEPT ![j] = IF @ = "zombie" THEN "gone" ELSE @]
  /\ Goto(j, "classify")
  /\ UNCHANGED <<serverVars, fileVars, wproc, verdict, code, histVars>>

WaitCommand(j) ==
  /\ Running(j) /\ wpc[j] \in {"poll", "terminate"} /\ cproc[j] = "zombie"
  /\ cproc' = [cproc EXCEPT ![j] = "gone"]
  /\ Goto(j, "classify")
  /\ UNCHANGED <<serverVars, fileVars, wproc, verdict, code, histVars>>

\* Mutant of Classify: cancel.request is not looked at again.
ClassifyLoopOnly(j) ==
  /\ WorkerAt(j, "classify")
  /\ Goto(j, "finish")
  /\ UNCHANGED <<serverVars, fileVars, wproc, verdict, cproc, code, histVars>>

\* The marker decides even if the loop never saw it.
Classify(j) ==
  /\ WorkerAt(j, "classify")
  /\ verdict' = [verdict EXCEPT ![j] = IF @ # "timed_out" /\ j \in marker THEN "canceled" ELSE @]
  /\ Goto(j, "finish")
  /\ UNCHANGED <<serverVars, fileVars, wproc, cproc, code, histVars>>

Outcome(j) == IF verdict[j] # "none" THEN verdict[j]
              ELSE IF code[j] = "zero" THEN "completed" ELSE "failed"

\* Mutant of Finish: the handler of exceptions runs after the result is out.
FinishThenFail(j) ==
  /\ WorkerAt(j, "finish") /\ Known(j)
  /\ WriteResult(j, Outcome(j)) /\ Goto(j, "fail")
  /\ UNCHANGED <<serverVars, cmd, left, marker, idem, wproc, verdict, cproc, code, histVars>>

Finish(j) ==
  /\ WorkerAt(j, "finish") /\ Known(j)
  /\ \/ WriteResult(j, Outcome(j)) /\ WorkerEnds(j)
     \/ WriteBreaks(j, Outcome(j)) /\ Goto(j, "fail") /\ UNCHANGED <<wproc, cproc>>
  /\ UNCHANGED <<serverVars, cmd, left, marker, idem, verdict, code, histVars>>

\* The handler of every exception: the command is dropped and start_failed
\* recorded, each of them if it can be.
Fail(j) ==
  /\ WorkerAt(j, "fail")
  /\ DropCommands({j})
  /\ \/ WriteResult(j, "start_failed")
     \/ "io_error" \in Faults /\ UNCHANGED <<dirs, result, meta>>
  /\ WorkerEnds(j)
  /\ UNCHANGED <<serverVars, marker, idem, verdict, code, histVars>>

WorkerKilled(j) ==
  /\ Running(j) /\ "worker_kill" \in Faults
  /\ WorkerEnds(j)
  /\ UNCHANGED <<serverVars, fileVars, verdict, code, histVars>>

CommandExits(j) ==
  /\ cproc[j] = "alive"
  /\ cproc' = [cproc EXCEPT ![j] = Killed(j)]
  /\ \E c \in {"zero", "nonzero"} : code' = [code EXCEPT ![j] = c]
  /\ UNCHANGED <<serverVars, fileVars, wproc, wpc, verdict, histVars>>

-----------------------------------------------------------------------------
ServerNext ==
  \/ \E k \in Keys : StartReuse(k)
  \/ \E k \in Keys \cup {NoKey} : StartRefused(k)
  \/ \E k \in Keys \cup {NoKey}, j \in Jobs : StartAccepted(k, j)
  \/ WriteCommand \/ WriteMetadata \/ WriteMapping
  \/ Launch \/ LaunchFails \/ RecordWorker \/ StartRaises
  \/ RemoveTree \/ RecoverEnd
  \/ ServerStops \/ StopsInRemoveTree \/ ServerStarts \/ Reap
  \/ \E j \in Jobs :
       \/ Observe(j) \/ CancelBegin(j) \/ CancelPoll(j) \/ CancelDeadline(j) \/ CancelEnd(j)
       \/ Cleanup(j) \/ RecoverOne(j) \/ StopsInStatus(j)

WorkerNext(j) ==
  \/ ReadCommand(j) \/ UnlinkCommand(j) \/ CheckCancel(j) \/ SpawnCommand(j)
  \/ RecordChild(j) \/ PatchRaises(j) \/ SeeCancel(j) \/ SeeDeadline(j)
  \/ KillCommand(j) \/ WaitCommand(j) \/ Classify(j) \/ Finish(j) \/ Fail(j)

Next ==
  \/ ServerNext
  \/ \E j \in Jobs : WorkerNext(j) \/ WorkerKilled(j) \/ CommandExits(j)

Spec == Init /\ [][Next]_vars

(***************************************************************************)
(* Fairness: a worker that lives takes its next step, which includes       *)
(* noticing a deadline that has passed.  Nothing is assumed of commands:   *)
(* they may ignore SIGTERM and run for ever.                               *)
(***************************************************************************)
FairSpec == Spec /\ \A j \in Jobs : WF_vars(WorkerNext(j))

-----------------------------------------------------------------------------
(* Properties.                                                              *)

\* "Same key+request returns the original job_id and never replays shell":
\* a command is spawned at most once per job and at most once per key, across
\* retries, crashes, recoveries and cleanups of the job.
ExecutedAtMostOnce ==
  /\ \A j \in Jobs : runs[j] <= 1
  /\ \A i, j \in Jobs :
       keyOf[i] = keyOf[j] /\ keyOf[i] # NoKey /\ runs[i] > 0 /\ runs[j] > 0 => i = j

\* A result of the run itself is published only when the command has exited,
\* so its exit code and logs are final (the wait before _write_result).
ResultMeansExited ==
  \A j \in Jobs :
    result[j] \in {"completed", "failed", "canceled", "timed_out"} => cproc[j] # "alive"

\* "The marker is authoritative": a job whose cancellation was requested before
\* its command had exited is never reported as completed or failed.
CancelIsAuthoritative ==
  \A j \in early : result[j] \notin {"completed", "failed"}

\* The plaintext command does not outlive the job: once metadata.json or
\* result.json says the job is over, command.bin is gone and stays gone, unless
\* the unlink was tried and failed, or the server died just before it.  A command
\* that ran is gone even then: it was removed before it was started.
TerminalForgetsCommand ==
  \A j \in cmd :
    /\ Known(j) /\ (meta[j].status \in Terminal \/ result[j] # "none") => j \in left
    /\ cproc[j] = "none" /\ result[j] \in {"none", "start_failed"}

\* cleanup_job consumes the key before it removes the directory, so the record
\* of a used key survives a crash at any point of the cleanup.
CleanedKeyIsTombstoned ==
  \A k \in Keys : idem[k] # NoMap /\ ~Known(idem[k].job) => idem[k].tombstone

\* What result.json says never changes while the job exists.
ResultIsFinal ==
  [][\A j \in Jobs : result[j] # "none" =>
       result'[j] = result[j] \/ (srv = "rmtree" /\ cur = j)]_vars

\* No handler can ask for the status of a job that start_job is still creating.
Visible(j) == Known(j) /\ ~(cur = j /\ srv \in {"idem", "launch", "patch"})

\* A terminal status, once reported, is the last one reported for the job.
TerminalIsStable ==
  [][\A j \in Jobs : Visible(j) /\ Status(j) \in Terminal =>
       Status(j)' = Status(j) \/ ~Known(j)']_vars

\* A job reported terminal has no command running: clients may act on it and
\* job_cleanup may remove its state.
TerminalMeansStopped ==
  \A j \in Jobs : Visible(j) /\ Status(j) \in Terminal => cproc[j] # "alive"

\* The active-job limit bounds the commands that run at the same time.
CommandsBounded == Cardinality({j \in Jobs : cproc[j] = "alive"}) <= MaxJobs

\* A job with a deadline gets a result, whatever its command does.
TimedJobSettles ==
  \A j \in Timed : wpc[j] = "read" ~> (result[j] # "none" \/ ~Known(j))

\* A requested cancellation ends a job that has no deadline of its own.
CancelSettles ==
  \A j \in Jobs : (j \in marker /\ Running(j)) ~> (result[j] # "none" \/ ~Known(j))

-----------------------------------------------------------------------------
(* Why the safety properties hold: what start_job and the workers keep true *)
(* between each other's steps.                                              *)

BeforeSpawn == {"none", "read", "unlink", "check", "spawn"}
Creating    == {"command", "metadata", "idem", "launch"}

\* A job is launched once and its key is bound to it, and to no other job,
\* before the launch.
LaunchInv ==
  /\ \A j \in Jobs : j \notin used => wpc[j] = "none"
  /\ \A j \in Jobs : Running(j) => wpc[j] # "none"
  /\ \A j \in Jobs : runs[j] <= 1 /\ (wpc[j] \in BeforeSpawn => runs[j] = 0)
  /\ srv \in Creating => cur \in used /\ wpc[cur] = "none"
  /\ srv \in {"command", "metadata", "idem"} /\ keyOf[cur] # NoKey => idem[keyOf[cur]] = NoMap
  /\ srv = "idem" => keyOf[cur] # NoKey
  /\ srv = "launch" /\ keyOf[cur] # NoKey => idem[keyOf[cur]].job = cur
  /\ \A j \in Jobs : wpc[j] # "none" /\ keyOf[j] # NoKey => idem[keyOf[j]].job = j

\* Where a worker is decides what it has left of the command, of its process
\* and of the result.
WorkerInv ==
  /\ \A j \in Jobs : wpc[j] \in BeforeSpawn => cproc[j] = "none"
  /\ \A j \in Jobs : wpc[j] \in {"classify", "finish"} => cproc[j] # "alive"
  /\ \A j \in Jobs : wpc[j] \in {"check", "spawn", "record", "poll", "terminate", "classify", "finish"}
       => j \notin cmd
  /\ \A j \in Jobs : wpc[j] \in {"read", "unlink", "check", "spawn"} => result[j] = "none"
  /\ \A j \in Jobs : j \notin used => wpc[j] = "none" /\ meta[j] = NoMeta /\ result[j] = "none"
  /\ srv \in Creating => cur \in used /\ wpc[cur] = "none" /\ result[cur] = "none"
  /\ srv \in {"command", "metadata"} => ~Known(cur)
  /\ srv = "patch" => cur \in used

\* A mapping names a job created under its key, which exists or was marked.
MappingInv ==
  /\ \A k \in Keys : idem[k] # NoMap =>
       idem[k].job \in used /\ keyOf[idem[k].job] = k
  /\ srv \in {"idem", "launch", "patch"} => Known(cur)
  /\ srv \in Creating \cup {"patch"} => cur \in used
  /\ srv = "idem" => keyOf[cur] # NoKey
  /\ srv = "rmtree" => \A k \in Keys : idem[k].job = cur => idem[k].tombstone
=============================================================================
