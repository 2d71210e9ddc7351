----------------------------- MODULE Terminals -----------------------------
(***************************************************************************)
(* The persistent terminals of terminal.py: terminal_open, terminal_exec   *)
(* with the monitor of its command, terminal_signal, terminal_status and   *)
(* terminal_list, terminal_close and the janitor.  The handlers, the       *)
(* monitors and the janitor are tasks of one event loop, so a step reaches *)
(* from one await to the next; the threads that read and write the         *)
(* pseudo-terminal and the shell with its jobs run beside them.            *)
(***************************************************************************)
EXTENDS Integers, Sequences, FiniteSets

CONSTANTS
  MaxTerms,    \* bound: terminals ever opened
  MaxSessions, \* terminal_max_sessions
  MaxWork,     \* bound: terminals opened and commands started
  Osc133,      \* terminal_osc133_enabled
  Faults       \* what may happen, a subset of AllFaults

(***************************************************************************)
(* send_error  writing to the pseudo-terminal fails                        *)
(* cancelled   a terminal_exec is withdrawn while its command is typed     *)
(* ignores     a command's programs may ignore SIGHUP or SIGTERM or both   *)
(***************************************************************************)
AllFaults == {"send_error", "cancelled", "ignores"}

ASSUME TerminalAssumption ==
  /\ MaxTerms \in Nat /\ MaxSessions \in Nat /\ MaxWork \in Nat
  /\ Osc133 \in BOOLEAN
  /\ Faults \subseteq AllFaults

VARIABLES
  life,    \* how far a terminal has come: open, or being closed
  shell,   \* its shell process
  cmd,     \* the commands of all calls of terminal_exec
  stopped, \* whether programs that were stopped in it are there
  pending, \* session.pending, or None
  task,    \* session.pending_task: the command it monitors, or None
  closer,  \* who is closing it
  last,    \* no_sessions_left, as the close has seen it
  janitor, \* the janitor task
  stale,   \* terminals it is about to close
  unwatched \* history: it was cancelled although a terminal was open

procVars  == <<shell, stopped, cmd>>
closeVars == <<life, closer, last>>
janVars   == <<janitor, stale, unwatched>>
vars      == <<procVars, closeVars, janVars, pending, task>>

-----------------------------------------------------------------------------
None     == 0
Terms    == 1..MaxTerms
Closing  == {"killed", "closing", "shut"}
Running  == {"typed", "shell", "group"}

\* A command: the handler that waits for it, the thread that types it, what
\* has become of it in the shell, whether its marker and its done file are
\* there, its monitor, and how it was found complete.  Of its program in the
\* foreground: what of a close it has escaped, the look for it there
\* included.
NewCommand(s) ==
  [term |-> s, exec |-> "send", typing |-> TRUE, run |-> "new", escaped |-> {},
   marker |-> "none", file |-> FALSE, mon |-> "none",
   saw |-> FALSE, sig |-> FALSE, by |-> "none"]

Commands     == 1..Len(cmd)
Of(s)        == {c \in Commands : cmd[c].term = s}
Completed(c) == cmd[c].by # "none"
Open         == {s \in Terms : life[s] = "open"}
Work         == Len(cmd) + Cardinality({s \in Terms : life[s] # "none"})
Alive(s)     == life[s] = "open" /\ shell[s] = "alive"

\* The foreground process group is a command's, not the shell's.  Without the
\* shell the terminal has none.
Group(s) == {c \in Of(s) : cmd[c].run = "group" /\ shell[s] = "alive"}

\* A command that has its monitor still at work.
Busy(s) == pending[s] # None /\ ~Completed(pending[s])

Init ==
  /\ life = [s \in Terms |-> "none"] /\ shell = [s \in Terms |-> "none"]
  /\ stopped = [s \in Terms |-> "none"] /\ cmd = <<>>
  /\ pending = [s \in Terms |-> None] /\ task = [s \in Terms |-> None]
  /\ closer = [s \in Terms |-> "none"] /\ last = [s \in Terms |-> FALSE]
  /\ janitor = "none" /\ stale = {} /\ unwatched = FALSE

-----------------------------------------------------------------------------
(* terminal_open.                                                          *)

\* Mutant of Watching: a janitor that has returned counts as there.
WatchingOnce(j) == IF j = "none" THEN "sleep" ELSE j

\* _ensure_janitor.
Watching(j) == IF j \in {"none", "done"} THEN "sleep" ELSE j

OpenTerm(s) ==
  /\ life[s] = "none" /\ (\A t \in Terms : t < s => life[t] # "none")
  /\ Work < MaxWork
  /\ Cardinality({t \in Terms : Alive(t)}) < MaxSessions
  /\ life' = [life EXCEPT ![s] = "open"]
  /\ shell' = [shell EXCEPT ![s] = "alive"]
  /\ janitor' = Watching(janitor)
  /\ unwatched' = (unwatched /\ janitor # "none")
  /\ UNCHANGED <<stopped, cmd, pending, task, closer, last, stale>>

-----------------------------------------------------------------------------
(* terminal_exec: accept, type in a thread, start the monitor, wait.       *)

ExecBegin(s) ==
  /\ Alive(s) /\ ~Busy(s) /\ Work < MaxWork
  /\ cmd' = Append(cmd, NewCommand(s))
  /\ pending' = [pending EXCEPT ![s] = Len(cmd) + 1]
  /\ UNCHANGED <<shell, stopped, closeVars, janVars, task>>

\* Only the command's record changes.
Record(c, r) == cmd' = [cmd EXCEPT ![c] = r]
OnlyCommands == UNCHANGED <<shell, stopped, closeVars, janVars, pending, task>>

\* send_bytes in its thread, which a cancelled handler leaves running.
Type(c) ==
  /\ cmd[c].typing /\ Alive(cmd[c].term)
  /\ Record(c, [cmd[c] EXCEPT !.typing = FALSE, !.run = "typed"])
  /\ OnlyCommands

\* It raises: the command stays pending and nothing monitors it.
TypeFails(c) ==
  /\ cmd[c].typing /\ (~Alive(cmd[c].term) \/ "send_error" \in Faults)
  /\ Record(c, [cmd[c] EXCEPT !.typing = FALSE, !.exec = "lost"])
  /\ OnlyCommands

ExecMonitors(c) ==
  /\ cmd[c].exec = "send" /\ ~cmd[c].typing
  /\ Record(c, [cmd[c] EXCEPT !.exec = "wait", !.mon = "poll"])
  /\ task' = [task EXCEPT ![cmd[c].term] = c]
  /\ UNCHANGED <<shell, stopped, closeVars, janVars, pending>>

ExecCancelled(c) ==
  /\ "cancelled" \in Faults /\ cmd[c].exec = "send"
  /\ Record(c, [cmd[c] EXCEPT !.exec = "lost"])
  /\ OnlyCommands

\* The wait ends with the completion; when it times out, or is withdrawn,
\* nothing changes.
ExecReturns(c) ==
  /\ cmd[c].exec = "wait" /\ Completed(c) /\ pending[cmd[c].term] = c
  /\ pending' = [pending EXCEPT ![cmd[c].term] = None]
  /\ UNCHANGED <<procVars, closeVars, janVars, task>>

\* Mutant of Clear: the pending command is forgotten before it completes.
ClearAny(s) ==
  /\ life[s] = "open" /\ pending[s] # None
  /\ pending' = [pending EXCEPT ![s] = None]
  /\ UNCHANGED <<procVars, closeVars, janVars, task>>

\* terminal_list.
Clear(s) ==
  /\ life[s] = "open" /\ pending[s] # None /\ ~Busy(s)
  /\ pending' = [pending EXCEPT ![s] = None]
  /\ UNCHANGED <<procVars, closeVars, janVars, task>>

-----------------------------------------------------------------------------
(* The shell and its programs.                                             *)

\* Mutant of Runs: the wrapper prints the marker before the command.
RunsMarked(c) ==
  /\ cmd[c].run = "typed" /\ shell[cmd[c].term] = "alive"
  /\ \A d \in Of(cmd[c].term) : d < c => cmd[d].run \notin Running
  /\ Record(c, [cmd[c] EXCEPT !.run = "shell", !.marker = "sent"])
  /\ OnlyCommands

\* Commands are run in the order in which they are typed.
Runs(c) ==
  /\ cmd[c].run = "typed" /\ shell[cmd[c].term] = "alive"
  /\ \A d \in Of(cmd[c].term) : d < c => cmd[d].run \notin Running
  /\ Record(c, [cmd[c] EXCEPT !.run = "shell"])
  /\ OnlyCommands

\* The command's list goes on: with an external program, which gets the
\* foreground, or inside the shell again.
InShell(r) == [r EXCEPT !.run = "shell", !.escaped = {}]
Forks(c) ==
  /\ cmd[c].run = "shell" /\ shell[cmd[c].term] = "alive"
  /\ Record(c, [cmd[c] EXCEPT !.run = "group", !.escaped = IF life[cmd[c].term] = "open" THEN {} ELSE {"look"}])
  /\ OnlyCommands
GoesOn(c) ==
  /\ cmd[c].run = "group" /\ shell[cmd[c].term] = "alive"
  /\ Record(c, InShell(cmd[c]))
  /\ OnlyCommands

\* The shell prints the marker D, and then writes the done file.
Ends(c) ==
  /\ cmd[c].run = "shell" /\ shell[cmd[c].term] = "alive"
  /\ Record(c, [cmd[c] EXCEPT !.run = "marked", !.marker = IF Osc133 THEN "sent" ELSE "none"])
  /\ OnlyCommands
WritesFile(c) ==
  /\ cmd[c].run = "marked" /\ shell[cmd[c].term] = "alive"
  /\ Record(c, [cmd[c] EXCEPT !.run = "ended", !.file = TRUE])
  /\ OnlyCommands

\* _strip_rhmcp_osc133 in the reader thread takes the marker of the pending
\* command only.
ReaderParses(c) ==
  /\ cmd[c].marker = "sent"
  /\ Record(c, [cmd[c] EXCEPT !.marker =
       IF pending[cmd[c].term] = c /\ ~Completed(c) THEN "seen" ELSE "none"])
  /\ OnlyCommands

\* Any of the programs S may ignore a signal.
Ignoring(S) == IF "ignores" \in Faults THEN SUBSET S ELSE {{}}

\* A hang-up leaves the programs that ignore it, the stopped ones too; they are
\* in the foreground of nothing then.
HungUp(s, deaf) ==
  [c \in Commands |->
     IF c \in Of(s) /\ cmd[c].run \in Running
       THEN IF c \in deaf THEN [cmd[c] EXCEPT !.escaped = @ \cup
                                   IF life[s] = "open" THEN {"SIGHUP", "look"} ELSE {"SIGHUP"}]
                          ELSE [InShell(cmd[c]) EXCEPT !.run = "aborted"]
       ELSE cmd[c]]
HangsUp(s) ==
  /\ shell' = [shell EXCEPT ![s] = "dead"]
  /\ \E deaf \in Ignoring({c \in Of(s) : cmd[c].run = "group"}) : cmd' = HungUp(s, deaf)
  /\ \E t \in {"none"} \cup (IF "ignores" \in Faults THEN {"deaf"} ELSE {}) :
       stopped' = [stopped EXCEPT ![s] = IF @ = "stopped" THEN t ELSE @]

ShellDies(s) ==
  /\ Alive(s) /\ HangsUp(s)
  /\ UNCHANGED <<closeVars, janVars, pending, task>>

-----------------------------------------------------------------------------
(* terminal_signal, and a control character sent with terminal_write.      *)

\* The signal ends what runs in the foreground: an interactive shell aborts
\* the list of commands and writes no marker, or it goes on with the list.
Struck(s, r) ==
  [c \in Commands |->
     IF c \in Of(s) /\ cmd[c].run \in {"shell", "group"}
       THEN [InShell(r[c]) EXCEPT !.run = "aborted"] ELSE r[c]]

\* It stops the program there: the shell takes the foreground back and goes on
\* with the list.  (The shell itself ignores SIGTSTP.)
Suspended(s, r) ==
  [c \in Commands |-> IF c \in Group(s) THEN InShell(r[c]) ELSE r[c]]
Stopping(s) ==
  stopped' = [stopped EXCEPT ![s] = IF Group(s) = {} THEN @ ELSE "stopped"]

\* What the handler notes at the pending command first, of a signal that may
\* complete it or not.
Noted(s, completing) ==
  [c \in Commands |-> IF c = pending[s] /\ ~Completed(c)
     THEN [cmd[c] EXCEPT !.sig = IF completing THEN TRUE ELSE @,
                         !.saw = IF Group(s) # {} THEN TRUE ELSE @]
     ELSE cmd[c]]

\* SIGINT, SIGQUIT, SIGTERM or SIGHUP; SIGTSTP; SIGCONT, which the foreground
\* does not need.  Any of them may be ignored or handled.
Signal(s) ==
  /\ Alive(s)
  /\ \/ cmd' \in {Noted(s, TRUE), Struck(s, Noted(s, TRUE)), Noted(s, FALSE)}
        /\ UNCHANGED stopped
     \/ cmd' = Suspended(s, Noted(s, FALSE)) /\ Stopping(s)
  /\ UNCHANGED <<shell, closeVars, janVars, pending, task>>

Interrupt(s) ==
  /\ Alive(s)
  /\ \/ cmd' = Struck(s, cmd) /\ UNCHANGED stopped
     \/ cmd' = Suspended(s, cmd) /\ Stopping(s)
  /\ UNCHANGED <<shell, closeVars, janVars, pending, task>>

-----------------------------------------------------------------------------
(* _monitor_command.                                                       *)

Polls(c) == cmd[c].mon = "poll" /\ ~Completed(c)

MonMarker(c) ==
  /\ Polls(c) /\ cmd[c].marker = "seen"
  /\ Record(c, [cmd[c] EXCEPT !.mon = "osc133"])
  /\ OnlyCommands
MonFile(c) ==
  /\ Polls(c) /\ cmd[c].marker # "seen" /\ cmd[c].file
  /\ Record(c, [cmd[c] EXCEPT !.mon = "sentinel", !.file = FALSE])
  /\ OnlyCommands

\* None of the two is there.
Unmarked(c) == Polls(c) /\ cmd[c].marker # "seen" /\ ~cmd[c].file

MonExit(c) ==
  /\ Unmarked(c) /\ ~Alive(cmd[c].term)
  /\ Record(c, [cmd[c] EXCEPT !.mon = "terminal_exit"])
  /\ OnlyCommands
MonSaw(c) ==
  /\ Unmarked(c) /\ Alive(cmd[c].term)
  /\ Group(cmd[c].term) # {} /\ ~cmd[c].saw
  /\ Record(c, [cmd[c] EXCEPT !.saw = TRUE])
  /\ OnlyCommands
MonBack(c) ==
  /\ Unmarked(c) /\ Alive(cmd[c].term)
  /\ Group(cmd[c].term) = {} /\ cmd[c].saw /\ cmd[c].sig
  /\ Record(c, [cmd[c] EXCEPT !.mon = "handed_back"])
  /\ OnlyCommands

\* _mark_pending_complete; what the monitor noted is of no use any more.
Complete(c, source) ==
  Record(c, [cmd[c] EXCEPT !.by = source, !.mon = "done",
                           !.file = IF source = "osc133" THEN FALSE ELSE @,
                           !.saw = FALSE, !.sig = FALSE,
                           !.marker = IF @ = "seen" THEN "none" ELSE @])

\* After a short sleep.
MonMark(c) ==
  /\ cmd[c].mon \in {"osc133", "sentinel", "terminal_exit"}
  /\ Complete(c, cmd[c].mon)
  /\ OnlyCommands

\* The second look at the foreground, after a longer one.
StillBack(c) ==
  /\ cmd[c].marker # "seen" /\ ~cmd[c].file
  /\ Alive(cmd[c].term) /\ Group(cmd[c].term) = {}

\* Mutant of MonHandedBack: the monitor gives up after the second look.
MonHandedBackOnce(c) ==
  /\ cmd[c].mon = "handed_back"
  /\ IF StillBack(c) THEN Complete(c, "foreground_pgid")
                     ELSE Record(c, [cmd[c] EXCEPT !.mon = "done"])
  /\ OnlyCommands

MonHandedBack(c) ==
  /\ cmd[c].mon = "handed_back"
  /\ IF StillBack(c) THEN Complete(c, "foreground_pgid")
                     ELSE Record(c, [cmd[c] EXCEPT !.mon = "poll"])
  /\ OnlyCommands

Monitor(c) ==
  MonMarker(c) \/ MonFile(c) \/ MonExit(c) \/ MonSaw(c) \/ MonBack(c) \/ MonMark(c)
  \/ MonHandedBack(c)

-----------------------------------------------------------------------------
(* terminal_close, called by a client or by the janitor.                   *)

\* Mutant of Terminated: only the hang-up is left to end the group.
TerminatedNone(s, deaf) == cmd

\* One SIGTERM to the foreground group, and nothing after it.
Terminated(s, deaf) ==
  [c \in Commands |->
     IF c \notin Group(s) THEN cmd[c]
     ELSE IF c \in deaf THEN [cmd[c] EXCEPT !.escaped = @ \cup {"SIGTERM"}]
     ELSE InShell(cmd[c])]

\* The monitor's task is cancelled where it is, and what it noted with it.
WithoutMonitor(s, r) ==
  [c \in Commands |-> IF c = task[s]
     THEN [r[c] EXCEPT !.mon = "done", !.saw = FALSE, !.sig = FALSE] ELSE r[c]]

Close(s, who) ==
  /\ life[s] = "open"
  /\ life' = [life EXCEPT ![s] = IF Group(s) = {} THEN "closing" ELSE "killed"]
  /\ last' = [last EXCEPT ![s] = Open = {s}]
  /\ closer' = [closer EXCEPT ![s] = who]
  /\ \E deaf \in Ignoring(Group(s)) : cmd' = WithoutMonitor(s, Terminated(s, deaf))
  /\ UNCHANGED <<shell, stopped, pending, task>>

CloseByClient(s) == Close(s, "client") /\ UNCHANGED janVars

\* After the sleep, child.close in a thread.
CloseSleeps(s) ==
  /\ life[s] = "killed" /\ closer[s] # "lost"
  /\ life' = [life EXCEPT ![s] = "closing"]
  /\ UNCHANGED <<procVars, closer, last, janVars, pending, task>>

\* The thread goes on when its task is cancelled, and a terminal that nobody
\* holds any more is closed when it is collected.
CloseShell(s) ==
  /\ life[s] = "closing" \/ (life[s] = "killed" /\ closer[s] = "lost")
  /\ life' = [life EXCEPT ![s] = "shut"]
  /\ HangsUp(s)
  /\ UNCHANGED <<closer, last, janVars, pending, task>>

\* The state directory is removed, and the reader has stopped.
Removed(s) ==
  [c \in Commands |-> IF c \in Of(s) THEN [cmd[c] EXCEPT !.file = FALSE, !.marker = "none"]
                                    ELSE cmd[c]]

\* With the last terminal the janitor is cancelled, and what it was closing.
CloseEnds(s) ==
  /\ life[s] = "shut" /\ closer[s] # "lost"
  /\ life' = [life EXCEPT ![s] = "gone"] /\ cmd' = Removed(s)
  /\ last' = [last EXCEPT ![s] = FALSE]
  /\ IF last[s] /\ closer[s] = "client" /\ janitor \in {"sleep", "work"}
       THEN /\ janitor' = "none" /\ stale' = {}
            /\ closer' = [t \in Terms |-> IF t = s THEN "none"
                                          ELSE IF closer[t] = "janitor" THEN "lost" ELSE closer[t]]
            /\ unwatched' = (unwatched \/ Open # {})
       ELSE /\ closer' = [closer EXCEPT ![s] = "none"]
            /\ UNCHANGED <<janitor, stale, unwatched>>
  /\ UNCHANGED <<shell, stopped, pending, task>>

-----------------------------------------------------------------------------
(* The janitor.                                                            *)

\* It wakes up and collects the dead, the idle and the old terminals.
JanitorWakes ==
  /\ janitor = "sleep" /\ janitor' = "work"
  /\ stale' \in {S \in SUBSET Open : \A s \in Open : ~Alive(s) => s \in S}
  /\ UNCHANGED <<procVars, closeVars, pending, task, unwatched>>

\* It closes one after the other, and waits for each.
Waits == \E s \in Terms : closer[s] = "janitor" /\ life[s] \in Closing

JanitorCloses(s) ==
  /\ janitor = "work" /\ s \in stale /\ ~Waits
  /\ stale' = stale \ {s}
  /\ Close(s, "janitor") /\ UNCHANGED <<janitor, unwatched>>
JanitorSkips(s) ==
  /\ janitor = "work" /\ s \in stale /\ ~Waits
  /\ life[s] # "open"
  /\ stale' = stale \ {s}
  /\ UNCHANGED <<procVars, closeVars, pending, task, janitor, unwatched>>

JanitorRests ==
  /\ janitor = "work" /\ stale = {} /\ ~Waits
  /\ janitor' = IF Open = {} THEN "done" ELSE "sleep"
  /\ UNCHANGED <<procVars, closeVars, pending, task, stale, unwatched>>

Janitor == JanitorWakes \/ JanitorRests \/ \E s \in Terms : JanitorCloses(s) \/ JanitorSkips(s)

-----------------------------------------------------------------------------
Closes(s)  == CloseSleeps(s) \/ CloseShell(s) \/ CloseEnds(s)
Handler(c) == ExecMonitors(c) \/ ExecReturns(c)
Thread(c)  == Type(c) \/ ReaderParses(c)

Next ==
  \/ \E s \in Terms :
       OpenTerm(s) \/ ExecBegin(s) \/ Clear(s) \/ ShellDies(s) \/ Signal(s)
       \/ Interrupt(s) \/ CloseByClient(s) \/ Closes(s)
  \/ \E c \in Commands :
       Thread(c) \/ TypeFails(c) \/ Handler(c) \/ ExecCancelled(c) \/ Monitor(c)
       \/ Runs(c) \/ Forks(c) \/ GoesOn(c) \/ Ends(c) \/ WritesFile(c)
  \/ Janitor

(***************************************************************************)
(* The event loop resumes the monitors, the closes and the janitor when    *)
(* they are ready.  What the shell, its programs, the clients and the      *)
(* threads at the pseudo-terminal do is left to them.                      *)
(***************************************************************************)
Fairness ==
  /\ \A s \in Terms : WF_vars(Closes(s))
  /\ WF_vars(Janitor)
  /\ \A c \in 1..(MaxWork - 1) : WF_vars(c \in Commands /\ Monitor(c))

Spec     == Init /\ [][Next]_vars
FairSpec == Spec /\ Fairness

-----------------------------------------------------------------------------
(* Properties.                                                             *)

CommandRecord ==
  [term : Terms, exec : {"send", "wait", "lost"},
   typing : BOOLEAN, escaped : SUBSET {"look", "SIGTERM", "SIGHUP"},
   run : Running \cup {"new", "marked", "ended", "aborted"},
   marker : {"none", "sent", "seen"}, file : BOOLEAN,
   mon : {"none", "poll", "osc133", "sentinel", "terminal_exit", "handed_back", "done"},
   saw : BOOLEAN, sig : BOOLEAN,
   by : {"none", "osc133", "sentinel", "terminal_exit", "foreground_pgid"}]

TypeOK ==
  /\ life \in [Terms -> {"none", "open", "killed", "closing", "shut", "gone"}]
  /\ shell \in [Terms -> {"none", "alive", "dead"}]
  /\ stopped \in [Terms -> {"none", "stopped", "deaf"}]
  /\ cmd \in Seq(CommandRecord)
  /\ Work <= MaxWork
  /\ pending \in [Terms -> 0..Len(cmd)] /\ task \in [Terms -> 0..Len(cmd)]
  /\ closer \in [Terms -> {"none", "client", "janitor", "lost"}]
  /\ last \in [Terms -> BOOLEAN]
  /\ janitor \in {"none", "done", "sleep", "work"} /\ stale \subseteq Terms
  /\ stale # {} => janitor = "work"
  /\ unwatched \in BOOLEAN
  /\ Cardinality({s \in Terms : Alive(s)}) <= MaxSessions

\* terminal_exec types a command only when the one before is over, however
\* its handler ended, unless that one was believed to be over because a
\* signalled command gave the foreground back (exec's check of pending).
NoOverlap ==
  \A c, d \in Commands :
    c < d /\ cmd[c].term = cmd[d].term /\ cmd[d].run # "new" /\ cmd[c].run \in Running
    => cmd[c].by = "foreground_pgid"

\* A command that a marker or the done file completes has really come to its
\* end (_monitor_command).
CompletionIsTrue ==
  \A c \in Commands :
    cmd[c].by \in {"osc133", "sentinel"} => cmd[c].run \in {"marked", "ended"}

\* When a terminal is closed a program of it is left only if it has ignored the
\* hang-up, and the SIGTERM of terminal_close too unless it was not in the
\* foreground when terminal_close looked there: it was started after the look,
\* its shell had ended, or it had been stopped.
CloseStrandsNothing ==
  \A s \in Terms :
    life[s] \in {"shut", "gone"} =>
      /\ stopped[s] # "stopped"
      /\ \A c \in Of(s) :
           cmd[c].run \in Running =>
             "SIGHUP" \in cmd[c].escaped /\ cmd[c].escaped \cap {"look", "SIGTERM"} # {}

\* A monitored command that has ended, or was aborted by a signal in the
\* foreground, is found complete, and the terminal accepts the next one.
Overdue(c) ==
  /\ c \in Commands /\ cmd[c].mon # "none" /\ life[cmd[c].term] = "open"
  /\ ~Completed(c)
  /\ cmd[c].run = "ended" \/ (cmd[c].run = "aborted" /\ cmd[c].sig /\ cmd[c].saw)
BusyEnds == \A c \in 1..(MaxWork - 1) : Overdue(c) ~> ~Overdue(c)

\* A terminal whose shell has ended is closed at last, unless the janitor was
\* cancelled by the close of the last terminal while another was opened.
DeadIsClosed ==
  \A s \in Terms :
    life[s] = "open" /\ shell[s] = "dead" ~> life[s] # "open" \/ unwatched

=============================================================================
