------------------------------ MODULE Commands ------------------------------
(***************************************************************************)
(* One bounded local process: run_shell of executor.py, run_argv of        *)
(* agent_ops.py and _run_process of ssh_helpers.py.  They start a process  *)
(* in a session of its own, drain its output into a budget, end its group  *)
(* at a timeout or a cancellation, and wait for the end of its output.     *)
(* The call is a coroutine, which a client can cancel at every await; the  *)
(* processes run beside it.  Calls share nothing, so one is modelled.      *)
(***************************************************************************)
EXTENDS Integers

CONSTANTS
  Kinds,     \* the callers: a subset of {"shell", "argv", "ssh"}
  Kids,      \* processes that the command may start
  Limit,     \* max_output_bytes
  PipeSize,  \* what the pipes hold
  MaxBytes,  \* bound: what the processes write
  CallFaults \* what may happen, a subset of AllCallFaults

(***************************************************************************)
(* cancelled     the client withdraws the call, once or again              *)
(* spawn_error   the process cannot be started                             *)
(* deaf          processes may not end at SIGTERM                          *)
(* away          processes may start a session of their own                *)
(* stdin_closed  the process closes its standard input, or ends, early     *)
(***************************************************************************)
AllCallFaults == {"cancelled", "spawn_error", "deaf", "away", "stdin_closed"}

Leader == "leader"
ASSUME CommandAssumption ==
  /\ Kinds \subseteq {"shell", "argv", "ssh"} /\ Leader \notin Kids
  /\ Limit \in Nat /\ PipeSize \in Nat \ {0} /\ MaxBytes \in Nat
  /\ CallFaults \subseteq AllCallFaults

VARIABLES
  kind,      \* which of the callers it is
  pc,        \* what the coroutine awaits
  why,       \* why the group is being ended, or is about to be
  termBy,    \* terminated_by
  outcome,   \* how the call has ended
  live,      \* the processes that run
  away,      \* those outside the group of the leader
  deaf,      \* those that SIGTERM does not, or no longer, end
  quiet,     \* those that do not hold its output open
  code,      \* the leader's exit status
  exit,      \* whether it is reaped, and returncode is set
  pipe,      \* bytes written and not yet read
  wrote,     \* history: bytes written
  used,      \* _Budget: bytes kept
  seen,      \* bytes read
  truncated  \* whether some were dropped

callVars == <<kind, pc, why, termBy, outcome>>
setVars  == <<away, deaf, quiet>>
outVars  == <<pipe, wrote, used, seen, truncated>>
cmdVars  == <<callVars, setVars, outVars, live, code, exit>>

-----------------------------------------------------------------------------
NoProcess ==
  /\ why = "none" /\ termBy = "none" /\ outcome = "none"
  /\ live = {} /\ away = {} /\ deaf = {} /\ quiet = {}
  /\ code = "none" /\ exit = "no"
  /\ pipe = 0 /\ wrote = 0 /\ used = 0 /\ seen = 0 /\ truncated = FALSE

CmdInit == kind = "none" /\ pc = "idle" /\ NoProcess

\* The caller goes on, and may run another process.
Forget ==
  /\ pc' = "idle" /\ why' = "none" /\ termBy' = "none" /\ outcome' = "none"
  /\ live' = {} /\ away' = {} /\ deaf' = {} /\ quiet' = {}
  /\ code' = "none" /\ exit' = "no"
  /\ pipe' = 0 /\ wrote' = 0 /\ used' = 0 /\ seen' = 0 /\ truncated' = FALSE
  /\ UNCHANGED kind

Group   == live \ away
Holders == live \ quiet
Output  == pipe > 0 \/ Holders # {}

-----------------------------------------------------------------------------
(* The processes.                                                          *)

Started == pc \notin {"idle", "over"}

\* SIGTERM never ends a process that is forked after it was sent.
Fork(p, k) ==
  /\ p \in live /\ k \in Kids \ live
  /\ live' = live \cup {k}
  /\ \E far \in {FALSE} \cup {"away" \in CallFaults} :
       away' = IF far \/ p \in away THEN away \cup {k} ELSE away \ {k}
  /\ \E d \in {FALSE} \cup {"deaf" \in CallFaults} :
       deaf' = IF d \/ termBy # "none" THEN deaf \cup {k} ELSE deaf \ {k}
  /\ \E q \in BOOLEAN : quiet' = IF q \/ p \in quiet THEN quiet \cup {k} ELSE quiet \ {k}
  /\ UNCHANGED <<callVars, outVars, code, exit>>

Writes(p) ==
  /\ p \in Holders /\ pipe < PipeSize /\ wrote < MaxBytes
  /\ pipe' = pipe + 1 /\ wrote' = wrote + 1
  /\ UNCHANGED <<callVars, setVars, used, seen, truncated, live, code, exit>>

KidEnds(k) ==
  /\ k \in live \cap Kids /\ live' = live \ {k}
  /\ UNCHANGED <<callVars, setVars, outVars, code, exit>>

LeaderEnds(c) ==
  /\ Leader \in live /\ live' = live \ {Leader} /\ code' = c
  /\ UNCHANGED <<callVars, setVars, outVars, exit>>

\* The watcher of child processes, and the loop after it.
Reap ==
  /\ Started /\ exit = "no" /\ code # "none" /\ exit' = "reaped"
  /\ UNCHANGED <<callVars, setVars, outVars, live, code>>
Notice ==
  /\ Started /\ exit = "reaped" /\ exit' = "noticed"
  /\ UNCHANGED <<callVars, setVars, outVars, live, code>>

-----------------------------------------------------------------------------
(* Output.                                                                 *)

\* What is left of the budget.
Room == Limit - used

\* A drain reads what is there and keeps what fits (_Budget.keep, _drain).
Drain(n) ==
  /\ Started /\ n <= pipe
  /\ pipe' = pipe - n /\ seen' = seen + n
  /\ used' = used + IF n < Room THEN n ELSE Room
  /\ truncated' = (truncated \/ n > Room)
  /\ UNCHANGED <<callVars, setVars, wrote, live, code, exit>>

-----------------------------------------------------------------------------
(* The coroutine.                                                          *)

OnlyCall == UNCHANGED <<setVars, outVars, exit>>
Still    == UNCHANGED <<live, code>>

Spawn(k) ==
  /\ pc = "idle" /\ kind' = k /\ pc' = "spawn"
  /\ live' = {Leader}
  /\ \E d \in {FALSE} \cup {"deaf" \in CallFaults} : deaf' = IF d THEN {Leader} ELSE {}
  /\ UNCHANGED <<why, termBy, outcome, away, quiet, outVars, code, exit>>

Over(o) == pc' = "over" /\ outcome' = o

FailsAtOnce(k) ==
  /\ pc = "idle" /\ kind' = k /\ Over("failed")
  /\ UNCHANGED <<why, termBy>> /\ Still /\ OnlyCall

\* The arguments are not acceptable: nothing is started.
ShellRefuses == FailsAtOnce("shell")
ArgvRefuses  == FailsAtOnce("argv")
SshRefuses   == FailsAtOnce("ssh")

\* run_shell and run_argv answer EXEC_SETUP_FAILED, _run_process raises.
SpawnFails(k) == "spawn_error" \in CallFaults /\ FailsAtOnce(k)

\* Started, and whatever input there is written: it fits the pipe.
Watches ==
  /\ pc = "spawn" /\ pc' = "wait"
  /\ UNCHANGED <<kind, why, termBy, outcome>> /\ Still /\ OnlyCall

\* The pipe to the process is broken: drain sleeps once before it raises.
InputBreaks ==
  /\ pc = "spawn" /\ kind # "shell" /\ "stdin_closed" \in CallFaults
  /\ pc' = "broken" /\ why' = "broken"
  /\ UNCHANGED <<kind, termBy, outcome>> /\ Still /\ OnlyCall

Exits ==
  /\ pc = "wait" /\ exit = "noticed" /\ pc' = "gather"
  /\ UNCHANGED <<kind, why, termBy, outcome>> /\ Still /\ OnlyCall

\* What follows the end of _terminate_group.
After(w) ==
  CASE w = "cancel" /\ kind = "ssh"  -> Over("cancelled")
    [] w = "broken" /\ kind = "argv" -> Over("failed")
    [] OTHER                         -> pc' = "gather" /\ UNCHANGED outcome

\* Mutant of Mortal: only the leader gets the signal.
MortalLeader == {Leader} \ deaf

\* Those that SIGTERM ends.
Mortal == Group \ deaf

Strike(S) ==
  /\ live' = live \ S
  /\ code' = IF Leader \in live \cap S THEN "signal" ELSE code

\* A group without any process: its leader is reaped and not yet noticed.
Vanished == exit = "reaped" /\ Group = {}

\* _terminate_group up to its first await.
Terminate(w) ==
  /\ why' = w
  /\ \/ exit = "noticed" /\ After(w) /\ Still /\ UNCHANGED termBy
     \/ Vanished /\ After(w) /\ Still /\ termBy' = "SIGTERM"
     \/ /\ exit # "noticed" /\ ~Vanished
        /\ Strike(Mortal) /\ termBy' = "SIGTERM"
        /\ pc' = "grace" /\ UNCHANGED outcome
  /\ UNCHANGED kind /\ OnlyCall

TimesOut   == pc = "wait" /\ Terminate("timeout")
InputFails == pc = "broken" /\ Terminate("broken")

\* The leader ends within the grace period.
GraceHeeded ==
  /\ pc = "grace" /\ exit = "noticed" /\ After(why)
  /\ UNCHANGED <<kind, why, termBy>> /\ Still /\ OnlyCall

\* Mutant of GraceOver: no second signal.
GraceOverMild ==
  /\ pc = "grace" /\ After(why) /\ termBy' = "SIGKILL"
  /\ UNCHANGED <<kind, why>> /\ Still /\ OnlyCall

GraceOver ==
  /\ pc = "grace" /\ Strike(Group) /\ termBy' = "SIGKILL"
  /\ pc' = "kill"
  /\ UNCHANGED <<kind, why, outcome>> /\ OnlyCall

Killed ==
  /\ pc = "kill" /\ exit = "noticed" /\ After(why)
  /\ UNCHANGED <<kind, why, termBy>> /\ Still /\ OnlyCall

\* Mutant of Ended: the end of the process is taken for that of its output.
EndedEarly == pipe = 0 /\ Leader \notin live

\* Both streams have come to their end.
Ended == ~Output

Returns ==
  /\ pc = "gather" /\ Ended
  /\ Over(CASE why = "cancel" -> "cancelled" [] why = "broken" -> "failed" [] OTHER -> "returned")
  /\ UNCHANGED <<kind, why, termBy>> /\ Still /\ OnlyCall

\* While the process is being started, asyncio kills it and nothing else.
CancelSpawn ==
  /\ pc = "spawn" /\ "cancelled" \in CallFaults
  /\ Strike({Leader}) /\ Over("cancelled")
  /\ UNCHANGED <<kind, why, termBy>> /\ OnlyCall

\* Mutant of Cancel: no handler ends the group.
CancelUnhandled ==
  /\ pc = "wait" /\ "cancelled" \in CallFaults
  /\ Over("cancelled")
  /\ UNCHANGED <<kind, why, termBy>> /\ Still /\ OnlyCall

Cancel == pc = "wait" /\ "cancelled" \in CallFaults /\ Terminate("cancel")

\* Cancelled in any other await, the call is over at once.
CancelAnew ==
  /\ pc \in {"broken", "grace", "kill", "gather"} /\ "cancelled" \in CallFaults
  /\ Over("cancelled")
  /\ UNCHANGED <<kind, why, termBy>> /\ Still /\ OnlyCall

-----------------------------------------------------------------------------
Processes ==
  \/ \E p \in live : (\E k \in Kids : Fork(p, k)) \/ Writes(p)
  \/ \E k \in Kids : KidEnds(k)

\* The steps the event loop takes sooner or later.
Loop ==
  \/ Reap \/ Notice \/ (\E n \in 1..PipeSize : Drain(n))
  \/ Watches \/ InputBreaks \/ Exits \/ InputFails \/ GraceHeeded \/ Killed \/ Returns
Timers == TimesOut \/ GraceOver
Withdrawn == CancelSpawn \/ Cancel \/ CancelAnew

-----------------------------------------------------------------------------
(* Properties.                                                             *)

CmdTypeOK ==
  /\ kind \in {"none", "shell", "argv", "ssh"}
  /\ pc \in {"idle", "spawn", "broken", "wait", "grace", "kill", "gather", "over"}
  /\ why \in {"none", "timeout", "cancel", "broken"}
  /\ termBy \in {"none", "SIGTERM", "SIGKILL"}
  /\ outcome \in {"none", "returned", "failed", "cancelled"}
  /\ live \subseteq Kids \cup {Leader} /\ away \subseteq Kids
  /\ deaf \subseteq Kids \cup {Leader} /\ quiet \subseteq Kids
  /\ code \in {"none", "ok", "fail", "signal"} /\ exit \in {"no", "reaped", "noticed"}
  /\ pipe \in 0..PipeSize /\ wrote \in 0..MaxBytes
  /\ used \in 0..Limit /\ seen \in Nat /\ truncated \in BOOLEAN

\* When a call is over, its process is too, unless the call was cancelled
\* either within the grace period, after the SIGTERM that the process does not
\* heed, or while its input was broken and no signal was sent yet; a group that
\* got SIGTERM has only members left that it could not end, and one that got
\* SIGKILL has none that was there (_terminate_group, and the handlers of a
\* cancellation).
NothingStranded ==
  pc = "over" =>
    /\ Leader \in live =>
         outcome = "cancelled" /\ (termBy = "SIGTERM" \/ (termBy = "none" /\ why = "broken"))
    /\ termBy # "none" => Group \subseteq deaf
    /\ termBy = "SIGKILL" => Group = {}

\* A result accounts for every byte that the command and whatever it left
\* running have written, keeps as many as the budget allows, and says
\* whether it dropped some (_Budget.keep, _drain).
OutputIsHonest ==
  pc = "over" /\ outcome = "returned" =>
    /\ seen = wrote
    /\ used = (IF wrote < Limit THEN wrote ELSE Limit)
    /\ truncated <=> wrote > Limit

\* A call comes to its end, unless a process it does not reach keeps its
\* output open: one in another session, one that SIGTERM does not end, or
\* one that the command left behind when it ended in time.
OutOfReach ==
  \E p \in (live \cap Kids) \ quiet :
    p \in away \/ termBy = "none" \/ (termBy = "SIGTERM" /\ p \in deaf)
CallEnds == []<>(pc \in {"idle", "over"}) \/ <>[]OutOfReach
=============================================================================
