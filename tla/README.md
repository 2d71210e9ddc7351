# Remote Host MCP in TLA+

Remote Host MCP is a server that offers a host's shell, files, terminals and
services as MCP tools. This directory models the parts of it whose correctness
depends on order: on what other processes do between two steps, on what a crash
leaves on disk, and on what happens when an answer is late or lost. TLC checks
the models on small instances; TLAPS proves the most important safety
properties for every instance.

`src/remote_host_mcp/` is the Python package of the repository (its file paths
below are relative to that directory).

## The system

One server process (`host_server.py`, `app.py`) runs all tools on one asyncio
event loop. A tool handler that does not `await` is atomic with respect to other
handlers. It is *not* atomic with respect to worker processes, commands, the
report agent, other programs on the host, or a crash. State that outlives the
server is kept in JSON files that are replaced atomically
(`jobs.atomic_json_write`).

| Component | State | Operations | Interacts with | What is hard |
|---|---|---|---|---|
| Durable jobs, server (`jobs.py`) | a directory per job (`command.bin`, `metadata.json`, `result.json`, `cancel.request`), a mapping file per idempotency key | start, status, read, list, cancel, cleanup, recovery at startup | worker processes through the directory and the per-job lock; the tasks extension | crash between durable steps, awaits in cancel, status inferred from process identities |
| Durable jobs, worker (`job_worker.py`) | its position in `run`, the command's process | read and forget the command, spawn, poll, terminate, publish | the server through the directory | races of cancel, deadline and exit; failing writes; being killed |
| Audit log (`audit.py`) | `calls.jsonl` and its rotated generations | append, rotate | report agent through the files | rotation is several renames, each may fail |
| Report agent (`report_agent.py`) | checkpoint file, pending queue, catch-up plan | read, plan, drain, flush, commit, heartbeat, configuration | audit log, Hub | rotation under the reader, lost answers, restarts |
| Uploads (`transfer.py`) | metadata and staging file per upload | begin, chunk, status, finish, abort, expire | clients that retry, the target's directory | crash between publication and metadata, expiry against a late chunk |
| Guarded writes (`filesystem.py`, `atomic_fs.py`) | files of the host | write with a content guard, move, copy, remove | any other program on the host | check and exchange are two steps; the rollback must not undo somebody else's write |
| Terminals (`terminal.py`) | sessions, output ring, the pending command | open, exec, read, write, signal, close, janitor | shells, reader threads, monitor tasks | tasks that are cancelled, commands that are left pending |
| Leases (`agent_ops.py`) | `leases/registry.json` | acquire, status, list, release | other server processes on the host, through the registry and an flock | expiry against release, a registry every call replaces |
| Snapshots, bundles, patches (`agent_ops.py`) | snapshot directories | create, restore, delete; artifact bundle; line patch | the same files as the file tools | partial restore, budgets over paths that change |
| Tasks extension (`tasks_extension.py`) | none of its own | map job status to task state, get, cancel | durable jobs | monotonicity of the task state |
| Command execution (`executor.py`, `run_argv`), SSH (`ssh_helpers.py`) | a process group and an output budget; a remote temporary file | run, time out, terminate; upload, verify, publish | processes, a remote host | timeout against exit, partial transfer |
| Installer (`installer/`) | a progress file and resource records | stages, promotion, rollback, repair | systemd, the releases' directories | interruption between stages |
| The rest (configuration, redaction, path confinement, queries of `/proc` and systemd, tool registration) | none | | | stateless |

What makes each correct:

* **Jobs.** A command runs at most once per job and per key; an outcome is
  published once, after the command has exited, and agrees with a cancellation
  that came in time; a status reported as terminal is final and means that
  nothing runs; the plaintext command does not outlive the job; the limit bounds
  what runs; deadlines and cancellations end jobs.
* **Audit and report.** Every record reaches the Hub, in order, unless rotation
  pruned it first; the checkpoint never runs ahead of the Hub; catching up ends.
* **Uploads.** What is published has the announced content; a retried call has
  no second effect; an upload ends published or without a trace.
* **Guarded writes.** A write whose guard fails changes nothing, and a
  concurrent writer's content is not lost without a trace.
* **Terminals.** One command at a time; every command's completion is seen, or
  its terminal is closed; a closed terminal leaves no process
  that heeds the signals it gets.
* **Leases.** At most one holder per resource; nobody else's step takes a
  current lease away.
* **Snapshots.** Restoring treats each path as a whole, whatever fails.
* **Commands and transfers.** A call that ends leaves no process it could have
  ended and accounts for its output; a transfer delivers what it says it did, or
  leaves the destination alone; every call comes to its end.

## Modules

| Module | What it is |
|---|---|
| `DurableJobs.tla` | durable jobs: server, workers, commands, faults; properties and the inductive invariants |
| `JobTasks.tla` | the tasks extension: what a client is told about a job |
| `DurableJobsProofs.tla` | proofs about `DurableJobs` |
| `JobOutcomesProofs.tla` | extends both by proofs about outcomes: cancellation, finality, the limit, the tasks |
| `MCDurableJobs.tla`, `JobsFaults.cfg`, `JobsReplay.cfg`, `JobsRestart.cfg` | instances of both for TLC |
| `AuditReport.tla` | audit log writer, report agent and Hub |
| `AuditReportProofs.tla` | proofs about it |
| `MCAuditReport.tla`, `ReportRotation.cfg`, `ReportCatchUp.cfg`, `ReportTwoRotations.cfg` | its instances |
| `Uploads.tla` | upload sessions, failing steps, other programs at the destination |
| `AtomicUpload.tla` | the abstract upload that `Uploads` implements |
| `UploadsProofs.tla` | proofs about `Uploads` |
| `MCUploads.tla`, `UploadsFaults.cfg` | its instance |
| `Leases.tla` | the lease registry and the servers that share it |
| `LeasesProofs.tla`, `MCLeases.tla`, `Leases.cfg` | proofs and instance |
| `FileTools.tla` | objects, names and other programs; `write_text_file` and `apply_line_patch` |
| `TreeTools.tla` | extends it by copy, move, remove, mkdir and bundle, and states the properties of all file tools |
| `Snapshots.tla` | extends that by snapshots, and is the specification that is checked |
| `FilesProofs.tla`, `MCFiles.tla`, `Files.cfg`, `CopyTears.cfg` | proofs about the three and their instances |
| `Terminals.tla` | persistent terminals with their shells, monitors, closes and the janitor |
| `TerminalsProofs.tla`, `MCTerminals.tla`, `Terminals.cfg` | proofs and instance |
| `Commands.tla` | one bounded local process: `run_shell`, `run_argv`, `_run_process` |
| `SshTransfers.tla` | extends it by uploads and downloads over OpenSSH |
| `SshTransfersProofs.tla`, `MCSshTransfers.tla`, `Remote.cfg` | proofs about both and their instance |

A definition whose comment starts with *Mutant of* is a plausible bug. It is
used by no specification; replacing the definition it names by it must make TLC
report the property listed beside it in `PROJECT.json`, which shows that the
property depends on that piece of code.

### DurableJobs

`dirs`, `cmd`, `marker`, `meta`, `result` and `idem` are the files. `srv`, `cur`
and `todo` say where the server is inside a handler; `canceling` where a call of
`cancel_job` awaits. `wproc`, `wpc`, `verdict`, `cproc` and `code` are the
worker and the command of each job. `left`, `keyOf`, `used`, `runs` and `early` are
history: no guard of the code reads them, except that `keyOf` also stands for the
`idempotency_hash` in `metadata.json`, and `used` for the randomness of job
identifiers. `left` holds the jobs whose plaintext command the last attempt to remove it
has not removed.

* `start_job` is one action per durable step: `StartAccepted` (directory),
  `WriteCommand`, `WriteMetadata`, `WriteMapping`, `Launch` or `LaunchFails`,
  `RecordWorker`. `StartRaises` is the exception of a failing write, which leaves
  behind what was written.
* `job_status` has effects. `Reconcile(S)` is what a status check on the jobs `S`
  persists, and it is part of every action whose handler performs one, the
  active-job count included. It writes the metadata and then unlinks the command: the unlink may
  fail and is not reported (`DropCommands`), and the server may die between the two
  (`StopsInStatus`).
* `cancel_job` is split at its awaits: `CancelBegin`, `CancelPoll`,
  `CancelDeadline`, `CancelEnd`. Every other handler may run in between.
* `cleanup_job` is `Cleanup` (tombstone) and `RemoveTree`; `recover_jobs` is
  `ServerStarts`, one `RecoverOne` per directory and `RecoverEnd`.
* `job_worker.run` is a sequence of actions from `ReadCommand` to `Finish`, with
  `Fail` for its handler of every exception, whose unlink may fail too.
* A process is alive, a zombie or gone. `/proc` still lists a zombie, so the
  server counts its own exited worker as alive until it reaps it, which happens
  when it starts another process (`Reap`, `Launch`). Workers of an earlier server
  are adopted by init, which reaps them at once.

`io_error` is a write into the job's directory that fails, or the removal of
`command.bin`. Outcomes of the environment (time, PIDs, the file system) are choices. Process
identities (PID and start time) never collide, as the code assumes. Log contents,
offsets and sizes are left out. One server manages the state directory at a time,
as `deployments/modelscope-dsw/README.md` demands.

### JobTasks

A task is a job. `tasks/get` and `tasks/update` are status checks, the action
`Observe` of `DurableJobs`; `tasks/cancel` is `CancelBegin` and what follows.
What the extension adds is a function of the job's status: `TaskState` and
`IsError`. `TaskIsFinal` is about that function over time. It is checked without
killed workers: a job that lost its worker is `lost`, which counts as completed,
and when its cancellation is asked for afterwards the task is `working` again.

### AuditReport

A log file is an inode number and its records; generation 0 is `calls.jsonl`.
The writer's rotation is one action per rename. The agent's `read_new` is one
action per look at the file system: `StatMain`, `MakePlan`, `DrainReads`,
`StatAgain`, `ReadMain`. An offset counts records instead of bytes, so a read
never starts inside a record, and how many records a chunk holds is a choice.
Inode numbers are not reused. Records that cannot be parsed, or that lack a
field the Hub requires, are `Unusable`: the agent drops them. Backoff only
decides when the agent tries again, so every attempt is simply possible.
Heartbeats and configuration touch none of this state.

The faults: the Hub is down (`hub_down`) or refuses a batch (`hub_reject`), the
agent dies (`agent_crash`, or `early_crash` while the log has not rotated), the
checkpoint cannot be written (`cursor_error`), a generation cannot be read
(`read_error`), a rotation breaks off (`rename_error`), or it falls between two
looks of one read (`overlap`).

### Uploads

`part` and `data` are the staging files, `status`, `replaced` and `late` the
metadata, `target` the one destination the uploads compete for; it may also hold
another program's file, a link or a directory. `pc`, `cur` and `exists` are the
handler in progress. The handlers never await and hold the upload's lock, so at
most one is in progress; an action ends where the outside world can step in.

* `begin_upload` is `Begin` (staging file) and `BeginMeta` or `BeginFails`.
* `upload_chunk` is `Append1`, `Repeat` or, when it fails on the way, `AppendBreaks`.
  A rejected chunk changes nothing and has no action.
* `finish_upload` is `Mismatch`, or `Verify` (hash, then look at the destination),
  `PublishNew`, `Collide`, `LookAgain`, `Replace`, `ReplaceFails`, and `Commit`.
* `abort_upload` is `Abort` and `AbortMeta`; the expiry every other call performs
  first is `Expire` and `ExpireMeta`.
* `Interrupted` is a crash or an exception between two of these.

Content is a sequence of units that are as announced or not; hashes are exact.
Other programs are assumed to leave the staging file alone (`finish_upload`
checks its inode again before the rename, but cannot notice a write into it).

`AtomicUpload` has one variable for the destination and a phase per upload. An
upload counts as published from the rename on. A destination that holds anything
but an announced file or another program's is mapped to a value the abstract
specification never produces.

### Leases

`registry` is `leases/registry.json`, and `before` what the last `os.replace`
replaced, for a power loss that takes the rename back. `lock` is the flock. A
handler of a server goes through `Lock`, `Load`, then `Grant`, `Keep` or `Forget`, then `Save`
and `Return`: every call loads what has not expired and saves the registry, a
`lease_status` too. Its locals are `call` and `view`. The clock advances
(`Tick`) and may be set back (`SetBack`); servers die (`Crash`), writes fail, the host loses
power (`PowerLoss`). A registry above `Capacity` is refused before it is purged, so
nothing makes it smaller (`LoadFails`). `granted`, `released` and `reverted` are history: what
clients believe, what they have given up, and whether the clock or the disk went
back, after which the code promises nothing.

### FileTools, TreeTools, Snapshots

A handler never awaits, so at most one is in progress; but it works with path
names, and between two of its system calls other programs act. `entry` says which
object each of three names stands for: a source, a destination and the hidden
staging name of the handler. `obj` are the objects: an identity (device and
inode), a kind, a content, a version (mtime) and the children of a directory.
`pc` and `call` are the step and the arguments, `seen`, `from` and `ours` what the handler
remembers. Other programs `Put` a new object at a name, `Drop` it, `Edit` a file in place
or `Fill` a directory; they leave hidden names alone, and everything else is open
to them at every step.

* `write_text_file` is `Write`, `WriteLook`, `WriteHash`, `WriteStage`, `WriteExchange`,
  `WriteVerify`, `RollbackLooks`, `RollBack`, `WriteDrop`, with `WriteReplace` for the unguarded
  `os.replace` and `WriteNew` for `rename_noreplace`; `apply_line_patch` is `Patch` and
  `PatchRead` before the same steps.
* `copy_path`, `move_path`, `remove_path`, `make_directory` and `artifact_bundle` are in
  `TreeTools`. `BreaksOff` is the removal of a tree that fails half-way.
* `snapshot_create` builds `stage` path by path and publishes it as `snap`;
  `snapshot_restore` treats one path after the other (`left`), each with an exchange.
  A path is copied in one step, and the two budgets are an error that may hit any path
  (`CreateFails`). `snapshot_delete` may break off and leave a part of what the snapshot holds.
* `Crash` may follow every step. The staging name stays.

History: `theirs` is what each name would stand for without the call in progress,
`unseen` the objects a call destroyed that it had neither staged nor looked at nor
been told to overwrite, `torn` the directories that lost children to a removal
that broke off. There are windows in which the code cannot notice what others do:
between the look of a rollback and its exchange, at the source's name after the
exchange of a move (`Exposed`), and inside an object that is being taken back or
replaced (`ExposedInside`). A step in one of them sets `slipped`; the properties that
depend on it say `~slipped`.

### Terminals

The handlers, the monitors, the closes and the janitor are tasks of one event
loop, so an action reaches from one await to the next; the reader thread, the
writing thread, the shell and its programs run beside them.

`life`, `closer` and `last` are a session and its close, `shell` its process, `stopped` says whether
programs that were stopped are in it. `cmd` has a record
for every command ever asked for: where its handler is, whether it is being
typed, what the shell has made of it, its marker and done file, its monitor, by
what it was completed, and what of a close its program has `escaped`. `pending` and `task` are `session.pending` and
`session.pending_task`; `janitor` and `stale` are the janitor task.

* `terminal_open` is `OpenTerm`. `terminal_exec` is `ExecBegin`, the thread's `Type` or
  `TypeFails`, `ExecMonitors` and `ExecReturns`, or `ExecCancelled` when the call is withdrawn
  while the thread types: the thread goes on, and nothing monitors the command.
* The shell runs a command (`Runs`), which may fork (`Forks`), ends (`Ends`) and writes the done
  file (`WritesFile`), while the reader parses the marker (`ReaderParses`) at a time of its own;
  `terminal_signal` is `Signal`, a typed Ctrl-C or Ctrl-Z `Interrupt`. A signal ends the
  program in the foreground, is ignored, or stops it (`Suspended`), and then the shell takes the
  foreground back.
* `_monitor_command` is `Monitor`, with one disjunct for each way it completes a
  command. `terminal_list` clears what is complete (`Clear`); `terminal_status`
  leaves it alone.
* `terminal_close` is `Close` (by a client or the janitor), `CloseSleeps`, `CloseShell` and
  `CloseEnds`, which cancels the janitor when it believes no session is left.
  `unwatched` records that one was. `Close` sends SIGTERM once to what is in the foreground
  (`Terminated`), and `CloseShell` hangs up (`HangsUp`); with the fault `ignores` programs ignore
  either signal or both.

Bytes of the output ring, cursors, resizing and screens are left out.

### Commands, SshTransfers

`Commands` is one coroutine and the processes of one call. `pc` is what it awaits, `live` the
processes that run, `away` those outside the leader's group, `deaf` those SIGTERM
does not end, `quiet` those that do not hold the output open; `pipe`, `used`, `seen` and
`truncated` are the streams and the budget both share. `_terminate_group` is `Terminate`
up to its first await, then `GraceHeeded` or `GraceOver` and `Killed`. A client may cancel
in every await, and once more (`CancelSpawn`, `Cancel`, `CancelAnew`). `run_shell`, `run_argv` and
`_run_process` differ in `kind`: in what they do when their input breaks or they are
cancelled. Calls share nothing, so one is modelled.

`SshTransfers` puts transfers over it. `Upload` freezes the source in a thread, copies
it with scp to a temporary name, commits it with a remote script, checks it,
and cleans up after a failure; `Download` checks the remote SHA-256, copies, and publishes in a
thread. `at` is the step, `thread` the thread, `temp`, `dest` and `got` what is at the
other end. The client of a transfer may have a child (`Assistants`), as scp forks ssh, which may
hold the output open; reading that output has no deadline (`ssh_helpers.py:153`). What a client has started on the remote host goes on without it: its
scripts are `remote`, with `Moves`, `Links`, `Unlinks`, `Cleans` and `Hashes`. `Others` writes the source or the
destination at any time; `since` is history and says that it was the destination,
after the transfer had settled.

## What TLC checks

`CHECK_DEADLOCK FALSE` appears in every configuration: jobs end, bounds on calls,
records and terminals are reached, and then nothing need happen any more.

| Run | Instance | Shows |
|---|---|---|
| `jobs_faults` | 1 job with a deadline, every fault | `ResultMeansExited`; `CancelIsAuthoritative`; `TerminalForgetsCommand` |
| `jobs_replay` | 2 jobs, 1 key, crashes at every step | `ExecutedAtMostOnce`; `CleanedKeyIsTombstoned` |
| `jobs_restart` | 2 jobs, restarts, failing spawns, fairness | `TerminalMeansStopped`; `CommandsBounded`; `TerminalIsStable`; `ResultIsFinal`; `TaskIsFinal`; `TimedJobSettles`; `CancelSettles` |
| `report_rotation` | 8 records, two unusable, one rotation, crashes before it, Hub and checkpoint faults, fairness | `NothingLost`; `CheckpointAcknowledged`; `ReportedInOrder`; `EventuallyReported` |
| `report_catch_up` | 5 records, two rotations, overlapping and failing reads, broken rotations, Hub down, fairness | `CatchesUp` |
| `uploads` | 2 uploads (1 and 2 units; without and with overwrite), crashes, failing steps, another program | `AcceptedIsKept`; `NoResidue`; `PublishesAtomically` |
| `leases` | 2 servers, 2 resources, 2 leases, every fault | `MutualExclusion`; `LeaseHolds` |
| `files` | 1 call of every tool, 2 steps of other programs, every fault | `GuardHolds`; `UnseenSurvives`; `FailedCallKeepsDestination`; `CrashLosesNothing`; `PerPathAtomic` |
| `terminals` | 2 terminals, or 1 with 2 commands, every fault, fairness | `NoOverlap`; `CompletionIsTrue`; `CloseStrandsNothing`; `BusyEnds`; `DeadIsClosed` |
| `remote` | 1 command of each kind, or an upload or a download; every fault, one write of another program, fairness | `NothingStranded`; `OutputIsHonest`; `DestIsWhole`; `SuccessIsDelivered`; `NoLocalResidue`; `KeepsOthers`; `EveryCallEnds` |

Two runs must find a violation, each a place where the code does something else
than its documentation says:

| Run | What happens |
|---|---|
| `report_two_rotations` | Against `NothingLost`: a record pending from before a rotation commits its old offset as a position in the new file; the next rotation plans from there and skips that many records. |
| `copy_tears` | Against `FailedCopyKeepsOld`: `copy_path` has published the copy, and removing the displaced directory breaks off half-way. The rollback puts the torn directory back, and the call fails. |

More of the kind were met while modelling, and are described here without a run:

* **Jobs.** `cancel_job` awaits its grace period, `job_cleanup` removes the ended job, and
  the cancel call takes `job_lock`, which creates the directory again, without
  metadata. When the server dies between `command.bin` and `metadata.json`, recovery skips
  the directory and the plaintext command stays. When it dies between `Popen` and
  recording the worker, a job that runs is called interrupted and may be cleaned up
  (with `Faults = {"server_crash"}` `TerminalMeansStopped` fails). A failing unlink of `command.bin`
  is swallowed (`jobs.py:415-418`, `job_worker.py:306-309`): the next status check of an
  interrupted job tries again, but one that has a result, `start_failed` then, keeps the
  plaintext command until it is cleaned up. `TerminalForgetsCommand` excepts exactly this, and a
  server that dies just before the unlink.
* **Report.** The checkpoint carries the new file's inode from the start of a
  catch-up, so after a crash (`agent_crash`) the agent does not see that there is anything to
  catch up on. When the log rotates between the agent's `stat` and its `open`
  (`overlap`), the newer records are reported first, against `ReportedInOrder`.
* **Uploads.** When the rename has happened and writing the metadata fails,
  `upload_finish` fails, the destination has changed, and the upload ends as aborted or
  expired. A chunk whose write stopped half-way can be resumed at the offset
  `upload_status` tells, but the same call repeated is refused as an overlap.
* **Commands.** "MCP/HTTP cancellation must not strand a still-running short exec"
  (`executor.py:177`), "SSH/SCP timeout or client cancellation terminates the local process group"
  (`docs/SSH_AND_ARTIFACTS.md:30`), "Short exec cancellation already terminates/reaps its process
  group" (`docs/AUDIT_CLOSURE_20260913.md:26`), and `tests/test_mature.py:137-144` tests it. There are
  two windows in which it does not. A call that is cancelled while its group is given its grace
  period never sends SIGKILL, so a process that ignores SIGTERM goes on. On a broken
  input `drain` sleeps once before it raises (`agent_ops.py:661`, `ssh_helpers.py:143`), outside
  every handler of a cancellation; cancelled there, a call sends no signal at all. `NothingStranded` excepts exactly
  these two.
* **Transfers.** `gather` waits for the client's output without a deadline (`ssh_helpers.py:153`).
  When the client has ended and a child of it outside its group holds the output open, the
  transfer does not end; `EveryCallEnds` excepts it (`OutOfReach`).
* **Snapshots.** A file is charged with the size it has when it is opened (`agent_ops.py:714`)
  and then copied to its end (718-722), so a file that grows meanwhile takes a snapshot beyond the total bytes it is
  "bounded by" (`docs/AGENT_NATIVE_OPS.md:19`). A snapshot of which a broken delete has
  left the manifest but not every child of a directory restores the directory without them: the manifest
  does not list children.
* **Terminals.** `terminal_close` is to "terminate that exact process group before closing the
  shell so terminal_close cannot strand a child" (`terminal.py:721-722`), and "terminal close
  already terminates foreground work" (`docs/AUDIT_CLOSURE_20260913.md:26`). SIGTERM is sent once
  (725-730) and `child.close` ends the shell alone, so a program that ignores SIGTERM and SIGHUP
  survives. So does one that ignores SIGHUP and was not in the foreground at the look: it was
  started after it, its shell had ended, or it had been stopped. `CloseStrandsNothing` excepts exactly these.
  A terminal opened while the last other one is being closed may lose
  its janitor (`unwatched`); until the next one is opened, only clients close it.

### Bounds

One key and two jobs are the smallest instance in which a retry, a second job
under a consumed key and competition for the single slot (`MaxJobs = 1`) occur.
Jobs are spent, not reused, so a run ends when all identifiers are drawn. A
rotation needs `Cap` records; the ceiling of three pending records and batches of
two make partial reads, partial batches and a full queue happen within five to
eight records (`MaxRecords`). Two uploads to one destination, one of them of two units so
that a chunk may stop half-way, contain every race of `finish_upload`.

Two leases are what it takes for an expired one to be released after the
resource has been granted again (`MaxLeases`, `MaxClock`), and a capacity of one makes
the registry overflow. One call and two steps of other programs (`MaxCalls`, `MaxOthers`)
contain every race of a handler with a change and a change back; one child's name makes
empty and full directories differ. `MaxTerms` and `MaxWork` allow two terminals and a command, or
two commands in one terminal; `MaxSessions` is not smaller, so that the close of one can meet the
opening of the other. `MaxBytes` is one more than the budget `Limit` and than the pipe (`PipeSize`),
so that the output is cut and the pipe fills.

The proofs remove these bounds for the properties they cover.

### Fairness

* `DurableJobs!FairSpec` asks that a worker that lives keeps taking steps. The loop
  of `job_worker.run` sleeps 0.1 s between iterations, so it sees a marker or a passed
  deadline; `SIGKILL` ends any command. Nothing is assumed of commands, clients or
  the server.
* `AuditReport!FairSpec` asks that `cycle` keeps being called (it is, each
  second), that a rotation once begun ends, and that among infinitely many attempts
  the Hub answers one (strong fairness, as the Hub may be down again and again).
* `Terminals!FairSpec` asks that the event loop resumes what is ready: each close, the
  janitor, each monitor. Nothing is assumed of shells, programs, clients and the threads at
  the pseudo-terminal, which may block.
* `SshTransfers!Spec` asks that the event loop takes its steps (`Loop`), that timers fire (`Timers`), that
  the transfer's coroutine (`Handler`) and its threads (`Threads`) go on. Nothing is assumed of any
  process or of the remote host, which may hang for ever: the deadlines have to do.

## What is proved

Every proof starts from the named assumptions about the constants alone, which
say of what kind they are, and holds for any instance and, unless the tables below
say otherwise, any combination of faults: a few properties are false when certain
things fail, and their theorems name what may. Each follows the same line: a conjunction `IInv` (in the two oldest modules
several smaller ones) that the first state satisfies and every step preserves, of
which the properties are consequences. In the modules that are proved about, a step
writes a function at one index once (`[@ EXCEPT ...]` or a helper such as `Changed`), which is
what the provers handle.

### Jobs

`DurableJobsProofs.tla`, from `JobsAssumption` alone, for any sets of jobs and keys,
any limit and any combination of faults:

| Theorem | States |
|---|---|
| `TypeCorrect` | `Spec => []TypeOK` |
| `NeverReplayed` | `Spec => []ExecutedAtMostOnce` |
| `CommandForgotten` | `Spec => []TerminalForgetsCommand` |
| `OutcomeIsFinal` | `Spec => []ResultMeansExited` |
| `KeyStaysConsumed` | `Spec => []CleanedKeyIsTombstoned` |

* `TypeOK` is inductive together with `InHandler`: inside a handler the server has
  a job at hand.
* `ExecutedAtMostOnce` does not say why it holds: a job is launched only by the
  `start_job` that drew its identifier, and before the launch its key names
  it and no other. `LaunchInv` says so for every point of `start_job` and of the
  worker.
* `CommandForgotten` and `OutcomeIsFinal` share `FilesInv`. A worker that
  has read the command has also removed it, and one that publishes an outcome
  has waited for its command; conversely no result exists before a worker decides. `WorkerInv` ties these
  facts to the worker's position. The lemma `ReconcileFiles` carries the argument
  through every status check.
* `KeyStaysConsumed` needs `MappingInv`: a mapping names a job created under its key, and a
  cleanup in progress has already marked it.

`JobOutcomesProofs.tla`, on top of these, for any sets of jobs and keys and any limit:

| Theorem | States | Faults allowed |
|---|---|---|
| `CancelIsHeeded` | `Spec => []CancelIsAuthoritative` | all |
| `ResultWrittenOnce` | `Spec => ResultIsFinal` | all but `io_error` |
| `OverIsStopped` | `Spec => []TerminalMeansStopped` | `restart`, `spawn_error` |
| `LimitIsKept` | `Spec => []CommandsBounded` | `restart`, `spawn_error` |
| `TaskAnswerStands` | `Spec => TaskIsFinal` | `restart`, `spawn_error` |
| `OverIsFinal` | `Spec => TerminalIsStable` | `restart`, `spawn_error`, `worker_kill` |

The exceptions are tight: with any further fault TLC finds the property violated on
the instance of `jobs_restart`. A server that dies between `Popen` and recording the worker, a worker
that dies before it has recorded its command, or a result whose metadata cannot be
written leave something that no reader can know.

* `CancelInv`: a cancellation that came in time is on disk when the worker, its command
  gone, decides between the outcomes, and in its verdict afterwards. No fault takes it back.
* `OnceInv`: a job whose worker is under way has no result, so a worker writes the
  first one, and `Kept` says that the server never replaces one.
* `AwareInv`, as long as the server lives to note what it has started: a worker under way is alive and
  recorded as soon as a reader can ask. So a job that a reader finds over has none
  (`OverMeansEnded`), and nothing brings it back (`Settled`, for every step of every process).
* `HeldInv`, as long as no worker is killed either: a command has its worker until it has been waited
  for. Hence `TerminalMeansStopped`, and no task is ever "lost".
* `BoundInv` counts jobs, not commands: those under way and the one being created are at
  most `MaxJobs`, because every one of them takes a slot in the count that accepts the next.

### Audit and report, proved

`AuditReportProofs.tla`, from `ReportAssumption`, for any size of a log file, of the queue and of a
batch:

| Theorem | States | Under |
|---|---|---|
| `TypeCorrect` | `Spec => []TypeOK` | |
| `CheckpointStands` | `Spec => []CheckpointAcknowledged` | `Keep >= 2`, every fault but `rename_error` |
| `NothingIsLost` | `Spec => []NothingLost` | one rotation (`MaxRecords <= 2 * Cap`), `hub_down`, `hub_reject`, `early_crash`, `cursor_error`, `rename_error` |
| `OrderIsKept` | `Spec => ReportedInOrder` | the same |

`CheckpointAcknowledged` speaks of a log that has never rotated. With `Keep < 2`, or after a rename
that fails, a rotated log looks as if it had not, and TLC finds the property violated. With
`overlap`, `agent_crash` or `read_error`, or after a second rotation (`report_two_rotations`), records are lost
or come late, as said above. These are limits of the code, not of the proof.

* `TypeOK` is inductive with `StepInv`; `PlanIsAPlan` says what a plan made of the
  generations on disk looks like, and `UsableSelects` what the parser keeps of the lines of a read.
* Before the rotation (`Early`), a record's number is its position: `LogInv`. `EarlyInv` says that the agent's
  offsets are positions of the first file behind which everything is settled or in the
  queue (`Tracks`), and that the queue is in order (`Pairs`).
* `RotatedInv`: a log that has rotated never looks unrotated again. `CheckpointStands` follows.
* A rotation may break off and be tried again, so the first file can grow beyond `Cap` before it is
  moved. After the rotation, `OnceInv` says what is in the two files and `LaterInv` where the agent is: it has not noticed
  yet and still `Tracks` the first file, or it re-reads that from a position behind which
  everything is covered, and then the second (`Rereads`).
* `OrderInv`: a record is in the queue only behind every older one that is not settled.
* Some of the lemmas need an induction over a sequence. The library's induction theorems
  take a predicate, which no prover here can instantiate; `Induction` states it over a
  set of numbers instead, from the well-foundedness of `<`.

### Uploads, proved

`UploadsProofs.tla`, from `UploadsAssumption` alone, for any uploads of any size under any
faults:

| Theorem | States |
|---|---|
| `UploadTypes` | `Spec => []TypeOK` |
| `UploadAtomic` | `Spec => PublishesAtomically`, the refinement of `AtomicUpload` |
| `UploadLeavesNothing` | `Spec => []NoResidue` |
| `UploadReportsReplacement` | `Spec => []ReplacementIsReported` |
| `UploadKeepsAccepted` | `Spec => []AcceptedIsKept` |

* The refinement rests on `Inv`: a handler about to rename still has the announced
  file in staging (`Ready`), a file is staged or published but never both (`Whole`), and
  the metadata about to be written belongs to an upload in that state (`Writes`). Each action then
  maps to a step of `AtomicUpload` or to a stutter.
* `Over` adds that a handler past its unlink has nothing left to unlink, and that
  one past a replacing rename knows of it. `Kept` says that a staging file only grows.

### Leases, proved

`LeasesProofs.tla`, from `LeaseAssumption` and `ServerAssumption`:

| Theorem | States |
|---|---|
| `TypeCorrect` | `Spec => []TypeOK` |
| `LeasesAreKept` | `Spec => []LeaseHolds` |
| `Exclusion` | `Spec => []MutualExclusion` |

* `TypeOK` includes that a server past its `flock` is the one that holds it.
* A registry holds one lease per resource (`UniqueInv`), and so does every view, because
  `Grant` adds a lease only to a view that has none of its resource.
* `ViewInv` is what the lock is for: a view that will be saved contains every current lease of
  the registry that nobody has given up. With `ReleasedInv`, only a lease that its client has given up
  is removed, hence `LeaseHolds`; and two current leases of one resource would be two in
  one registry.

### Files and snapshots

`FilesProofs.tla`, from `FileAssumption`:

| Theorem | States |
|---|---|
| `FilesTypeCorrect` | `SnapSpec => []TypeOK` |
| `GuardAlwaysHolds` | `SnapSpec => []GuardHolds` |
| `UnseenAlwaysSurvives` | `SnapSpec => []UnseenSurvives` |
| `DestinationSurvivesFailure` | `SnapSpec => []FailedCallKeepsDestination` |
| `CrashesLoseNothing` | `SnapSpec => []CrashLosesNothing` |
| `RestoreIsPerPathAtomic` | `SnapSpec => []PerPathAtomic` |

* No two names stand for one object (`NamesInv`), so what is under the staging name is
  nobody else's to change: `StageInv` says what it is at every step, and `SeenInv` that it
  is what the handler has looked at, when it is about to remove it.
* `KeptInv`: what a name would stand for without the call is under some name.
  `RestoreInv` is that of a restore, path by path.
* `WindowInv` and `DestInv` hold as long as nothing has slipped through a window: a
  rollback finds what its look has found, and the destination is at every step what others
  believe it to be, or the new object with the old one beside it. Without `~slipped` neither
  is true, which is what the windows are.
* `PlainInv` says that only directories have children, in whatever a tool makes or a snapshot holds.

### Terminals, proved

`TerminalsProofs.tla`, from `TerminalAssumption`:

| Theorem | States |
|---|---|
| `TypeCorrect` | `Spec => []TypeOK` |
| `CommandsDoNotOverlap` | `Spec => []NoOverlap` |
| `MarkersAreTrue` | `Spec => []CompletionIsTrue` |
| `CloseIsClean` | `Spec => []CloseStrandsNothing` |

* `OwnInv` is about one command: what its marker, file, monitor and completion say of how
  far it has run. `CompletionIsTrue` follows. `Moves` bounds what any step may do to a record.
* `TaskInv` and `PendInv`: a terminal's pending command is its newest, and every other one is
  complete. `OrderInv` is then `NoOverlap`, strengthened for commands not yet typed.
* `TermInv` ties a terminal to its commands: a closed one has a dead shell and only programs
  that have escaped the hang-up, and the SIGTERM or the look before it.

### Commands and transfers, proved

`SshTransfersProofs.tla`, from `CommandAssumption` and `TransferAssumption`:

| Theorem | States |
|---|---|
| `GroupIsEnded` | `Spec => []NothingStranded` |
| `OutputIsAccounted` | `Spec => []OutputIsHonest` |
| `TypeCorrect` | `Spec => []TypeOK` |
| `DestinationIsWhole` | `Spec => []DestIsWhole` |
| `SuccessIsTrue` | `Spec => []SuccessIsDelivered` |
| `NothingReplaced` | `Spec => KeepsOthers` |
| `NoResidueIsLeft` | `Spec => []NoLocalResidue` |

* `CallInv` is about one command: where the coroutine is (`CourseInv`), its leader
  (`LeaderInv`), what a signal has left of the group (`GroupInv`), and that every byte is read or in the
  pipe and counted once (`BudgetInv`).
* `WayInv` ties a transfer to its command: a client that ended well has seen the end
  of its script. `OrderInv`: the scripts follow each other, so a commit has a whole copy
  and a check a commit, although scripts outlive their clients. `UploadInv` and `DownloadInv` say what
  is in each place.
* `ResidueInv` follows the two local files, the frozen copy and the temporary file, through
  every way in which a call may end. A cancelled call may end while a thread or its client goes on:
  that one still holds what it works on, and the property excepts just that.

### Not proved

Every safety property of every passing run is the statement of a theorem. Model-checked
only are the liveness properties, `TimedJobSettles`, `CancelSettles`, `CatchesUp`, `EventuallyReported`, `BusyEnds`,
`DeadIsClosed` and `EveryCallEnds`: they need fairness, which is out of the prover's reach.

## Plan

1. The identity check of `process_signal` (`system_helpers.py`) before its signal.
2. The output ring of a terminal with its cursors, as an algorithm against a reference.
3. The installer's stages, promotion and rollback.

## Not modelled

* Path confinement, redaction, argument validation, configuration parsing, the
  registration of tools, queries of `/proc` and systemd, HTTP and authentication keep no
  state between calls. The models take confined names and valid arguments for granted.
* Building and truncating audit events, the agent's heartbeat and configuration, chmod and
  the reading tools, inline artifacts, and a terminal's bytes, cursors and size touch
  no state that the properties are about.
* The node and byte budgets of a snapshot count what is being copied while other programs
  change it. The model copies a path at once and knows a budget only as an error; that a
  published snapshot keeps to its budgets is no property of this development.
* The installer, the management scripts and the lifecycle scripts are shell
  front ends to systemd; the sandbox node agent is a separate JavaScript server.

## Running

    tlc -config JobsFaults.cfg MCDurableJobs
    tlc -config JobsReplay.cfg MCDurableJobs
    tlc -config JobsRestart.cfg MCDurableJobs
    tlc -config ReportRotation.cfg MCAuditReport
    tlc -config ReportCatchUp.cfg MCAuditReport
    tlc -config ReportTwoRotations.cfg MCAuditReport
    tlc -config UploadsFaults.cfg MCUploads
    tlc -config Leases.cfg MCLeases
    tlc -config Files.cfg MCFiles
    tlc -config CopyTears.cfg MCFiles
    tlc -config Terminals.cfg MCTerminals
    tlc -config Remote.cfg MCSshTransfers
    tlapm DurableJobsProofs.tla
    tlapm JobOutcomesProofs.tla
    tlapm AuditReportProofs.tla
    tlapm UploadsProofs.tla
    tlapm LeasesProofs.tla
    tlapm FilesProofs.tla
    tlapm TerminalsProofs.tla
    tlapm SshTransfersProofs.tla
