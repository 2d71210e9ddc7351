-------------------------- MODULE TerminalsProofs --------------------------
(***************************************************************************)
(* Proofs about Terminals, for any number of terminals and commands.  A    *)
(* step changes the records of commands in few ways (Moves), and what a    *)
(* record says of itself (Own) explains why completion is true; that every *)
(* command but the pending one is complete explains why commands of one    *)
(* terminal do not overlap.                                                *)
(***************************************************************************)
EXTENDS Terminals, FiniteSetTheorems, TLAPS

Past  == {"marked", "ended"}
Ready == {"osc133", "sentinel"}

\* What the parts of one command's record say of each other.
Own(r) ==
  /\ r.typing => r.run = "new" /\ r.mon = "none"
  /\ r.exec = "send" => r.mon = "none"
  /\ r.by # "none" => r.mon = "done"
  /\ r.marker # "none" => r.run \in Past
  /\ r.file => r.run = "ended"
  /\ r.mon \in Ready \/ r.by \in Ready => r.run \in Past
  /\ r.escaped # {} => r.run = "group"
OwnInv == \A c \in Commands : Own(cmd[c])

\* A monitor's task exists only once it has been started.
TaskInv == \A s \in Terms : task[s] # None => cmd[task[s]].mon # "none"

\* Its monitor found the terminal dead; what a hang-up would end; and what the
\* SIGTERM of a close has not ended.
FoundDead(r) == "terminal_exit" \in {r.mon, r.by}
Mortal(r)    == r.run \in Running /\ "SIGHUP" \notin r.escaped
Excused(r)   == "look" \in r.escaped \/ "SIGTERM" \in r.escaped

\* How a step may change the record o of a command, to n.
Moves(o, n) ==
  /\ n.term = o.term
  /\ n.run \in Running => o.run \in Running \/ o.typing
  /\ o.by # "none" => n.by = o.by
  /\ o.mon # "none" => n.mon # "none"
  /\ FoundDead(n) => FoundDead(o) \/ ~Alive(o.term)
  /\ n.run = "group" => (o.run = "group" /\ (Excused(o) => Excused(n)))
                          \/ "look" \in n.escaped \/ Alive(o.term)
  /\ Mortal(n) => Mortal(o) \/ life[o.term] = "open" \/ shell[o.term] = "alive"

\* No command is accepted in the step.
Settled ==
  /\ cmd' \in [Commands -> CommandRecord]
  /\ \A c \in Commands : Own(cmd'[c]) /\ Moves(cmd[c], cmd'[c])

-----------------------------------------------------------------------------
(* How steps change commands.                                              *)

\* The commands before and after such a step are the same.
LEMMA SettledSeq ==
  ASSUME cmd \in Seq(CommandRecord), Settled
  PROVE  cmd' \in Seq(CommandRecord) /\ Len(cmd') = Len(cmd) /\ Commands' = Commands
  BY DEF Settled, Commands

\* A step that writes the record r of command c.
LEMMA OneRecord ==
  ASSUME cmd \in Seq(CommandRecord), OwnInv,
         NEW c \in Commands, NEW r \in CommandRecord, Record(c, r),
         Own(r), Moves(cmd[c], r)
  PROVE  Settled
<1>1. cmd \in [Commands -> CommandRecord]
  BY DEF Commands
<1>2. \A d \in Commands : Moves(cmd[d], cmd[d])
  BY DEF Moves
<1> QED BY <1>1, <1>2 DEF Settled, Record, OwnInv

\* A step that leaves the commands alone.
LEMMA NoRecord ==
  ASSUME cmd \in Seq(CommandRecord), OwnInv, cmd' = cmd
  PROVE  Settled
  BY DEF Settled, Commands, OwnInv, Moves

\* terminal_exec after its command is accepted, and the threads it uses.
LEMMA ExecSettles ==
  ASSUME TypeOK, OwnInv, NEW c \in Commands,
         Type(c) \/ TypeFails(c) \/ ExecMonitors(c) \/ ExecCancelled(c) \/ ReaderParses(c)
  PROVE  Settled
<1>1. cmd \in Seq(CommandRecord) /\ cmd[c] \in CommandRecord /\ Own(cmd[c])
  BY DEF TypeOK, Commands, OwnInv
<1>2. ASSUME NEW r \in CommandRecord, Record(c, r), Own(r), Moves(cmd[c], r)
      PROVE  Settled
  BY <1>1, <1>2, OneRecord
<1> USE <1>1 DEF CommandRecord, Own, Moves, FoundDead, Mortal, Excused, Alive, Running, Past, Ready
<1>3. CASE Type(c)
  <2> DEFINE r == [cmd[c] EXCEPT !.typing = FALSE, !.run = "typed"]
  <2>1. r \in CommandRecord /\ Own(r) /\ Moves(cmd[c], r)
    BY <1>3 DEF Type
  <2> QED BY <1>2, <1>3, <2>1 DEF Type
<1>4. CASE TypeFails(c)
  <2> DEFINE r == [cmd[c] EXCEPT !.typing = FALSE, !.exec = "lost"]
  <2>1. r \in CommandRecord /\ Own(r) /\ Moves(cmd[c], r)
    BY <1>4 DEF TypeFails
  <2> QED BY <1>2, <1>4, <2>1 DEF TypeFails
<1>5. CASE ExecMonitors(c)
  <2> DEFINE r == [cmd[c] EXCEPT !.exec = "wait", !.mon = "poll"]
  <2>1. r \in CommandRecord /\ Own(r) /\ Moves(cmd[c], r)
    BY <1>5 DEF ExecMonitors
  <2> QED BY <1>2, <1>5, <2>1 DEF ExecMonitors
<1>6. CASE ExecCancelled(c)
  <2> DEFINE r == [cmd[c] EXCEPT !.exec = "lost"]
  <2>1. r \in CommandRecord /\ Own(r) /\ Moves(cmd[c], r)
    BY <1>6 DEF ExecCancelled
  <2> QED BY <1>2, <1>6, <2>1 DEF ExecCancelled
<1>7. CASE ReaderParses(c)
  <2> DEFINE r == [cmd[c] EXCEPT !.marker =
                     IF pending[cmd[c].term] = c /\ ~Completed(c) THEN "seen" ELSE "none"]
  <2>1. r \in CommandRecord /\ Own(r) /\ Moves(cmd[c], r)
    BY <1>7 DEF ReaderParses
  <2> QED BY <1>2, <1>7, <2>1 DEF ReaderParses
<1> QED BY <1>3, <1>4, <1>5, <1>6, <1>7

\* The shell works off what is typed.
LEMMA ShellSettles ==
  ASSUME TypeOK, OwnInv, NEW c \in Commands,
         Runs(c) \/ Forks(c) \/ GoesOn(c) \/ Ends(c) \/ WritesFile(c)
  PROVE  Settled
<1>1. cmd \in Seq(CommandRecord) /\ cmd[c] \in CommandRecord /\ Own(cmd[c])
  BY DEF TypeOK, Commands, OwnInv
<1>2. ASSUME NEW r \in CommandRecord, Record(c, r), Own(r), Moves(cmd[c], r)
      PROVE  Settled
  BY <1>1, <1>2, OneRecord
<1> USE <1>1 DEF CommandRecord, Own, Moves, FoundDead, Mortal, Excused, Alive, Running, Past, Ready
<1>3. CASE Runs(c)
  <2> DEFINE r == [cmd[c] EXCEPT !.run = "shell"]
  <2>1. r \in CommandRecord /\ Own(r) /\ Moves(cmd[c], r)
    BY <1>3 DEF Runs
  <2> QED BY <1>2, <1>3, <2>1 DEF Runs
<1>4. CASE Forks(c)
  <2> DEFINE r == [cmd[c] EXCEPT !.run = "group", !.escaped = IF life[cmd[c].term] = "open" THEN {} ELSE {"look"}]
  <2>1. r \in CommandRecord
    OBVIOUS
  <2>2. Own(r) /\ Moves(cmd[c], r)
    BY <1>4 DEF Forks
  <2>3. Record(c, r)
    BY <1>4 DEF Forks
  <2> HIDE DEF r, Own, Moves, CommandRecord
  <2> QED BY <1>2, <2>1, <2>2, <2>3
<1>5. CASE GoesOn(c)
  <2>1. InShell(cmd[c]) \in CommandRecord /\ Own(InShell(cmd[c])) /\ Moves(cmd[c], InShell(cmd[c]))
    BY <1>5 DEF GoesOn, InShell
  <2> QED BY <1>2, <1>5, <2>1 DEF GoesOn
<1>6. CASE Ends(c)
  <2> DEFINE r == [cmd[c] EXCEPT !.run = "marked", !.marker = IF Osc133 THEN "sent" ELSE "none"]
  <2>1. (IF Osc133 THEN "sent" ELSE "none") \in {"none", "sent", "seen"}
    BY Zenon
  <2>2. r \in CommandRecord
    BY <2>1
  <2>3. Own(r) /\ Moves(cmd[c], r)
    BY <1>6 DEF Ends
  <2>4. Record(c, r)
    BY <1>6 DEF Ends
  <2> HIDE DEF r, Own, Moves, CommandRecord
  <2> QED BY <1>2, <2>2, <2>3, <2>4
<1>7. CASE WritesFile(c)
  <2> DEFINE r == [cmd[c] EXCEPT !.run = "ended", !.file = TRUE]
  <2>1. r \in CommandRecord /\ Own(r) /\ Moves(cmd[c], r)
    BY <1>7 DEF WritesFile
  <2> QED BY <1>2, <1>7, <2>1 DEF WritesFile
<1> QED BY <1>3, <1>4, <1>5, <1>6, <1>7

\* The monitor of a command.
LEMMA MonitorSettles ==
  ASSUME TypeOK, OwnInv, NEW c \in Commands, Monitor(c)
  PROVE  Settled
<1>1. cmd \in Seq(CommandRecord) /\ cmd[c] \in CommandRecord /\ Own(cmd[c])
  BY DEF TypeOK, Commands, OwnInv
<1>2. ASSUME NEW r \in CommandRecord, Record(c, r), Own(r), Moves(cmd[c], r)
      PROVE  Settled
  BY <1>1, <1>2, OneRecord
<1> USE <1>1 DEF CommandRecord, Own, Moves, FoundDead, Mortal, Excused, Alive, Running, Past, Ready, Completed, Polls, Unmarked
<1>3. CASE MonMarker(c)
  <2> DEFINE r == [cmd[c] EXCEPT !.mon = "osc133"]
  <2>1. r \in CommandRecord /\ Own(r) /\ Moves(cmd[c], r)
    BY <1>3 DEF MonMarker
  <2> QED BY <1>2, <1>3, <2>1 DEF MonMarker
<1>4. CASE MonFile(c)
  <2> DEFINE r == [cmd[c] EXCEPT !.mon = "sentinel", !.file = FALSE]
  <2>1. r \in CommandRecord /\ Own(r) /\ Moves(cmd[c], r)
    BY <1>4 DEF MonFile
  <2> QED BY <1>2, <1>4, <2>1 DEF MonFile
<1>5. CASE MonExit(c)
  <2> DEFINE r == [cmd[c] EXCEPT !.mon = "terminal_exit"]
  <2>1. r \in CommandRecord /\ Own(r) /\ Moves(cmd[c], r)
    BY <1>5 DEF MonExit
  <2> QED BY <1>2, <1>5, <2>1 DEF MonExit
<1>6. CASE MonSaw(c)
  <2> DEFINE r == [cmd[c] EXCEPT !.saw = TRUE]
  <2>1. r \in CommandRecord /\ Own(r) /\ Moves(cmd[c], r)
    BY <1>6 DEF MonSaw
  <2> QED BY <1>2, <1>6, <2>1 DEF MonSaw
<1>7. CASE MonBack(c)
  <2> DEFINE r == [cmd[c] EXCEPT !.mon = "handed_back"]
  <2>1. r \in CommandRecord /\ Own(r) /\ Moves(cmd[c], r)
    BY <1>7 DEF MonBack
  <2> QED BY <1>2, <1>7, <2>1 DEF MonBack
<1>8. ASSUME NEW src \in {"osc133", "sentinel", "terminal_exit", "foreground_pgid"},
             Complete(c, src), cmd[c].by = "none", cmd[c].mon # "none",
             src \in Ready \cup {"terminal_exit"} => cmd[c].mon = src
      PROVE  Settled
  <2> DEFINE r == [cmd[c] EXCEPT !.by = src, !.mon = "done", !.file = IF src = "osc133" THEN FALSE ELSE @,
                                 !.saw = FALSE, !.sig = FALSE,
                                 !.marker = IF @ = "seen" THEN "none" ELSE @]
  <2>2. r \in CommandRecord
    BY ZenonT(60)
  <2>3. Own(r) /\ Moves(cmd[c], r)
    BY <1>8
  <2>4. Record(c, r)
    BY <1>8 DEF Complete
  <2> HIDE DEF r, Own, Moves, CommandRecord
  <2> QED BY <1>2, <2>2, <2>3, <2>4
<1>9. CASE MonMark(c)
  BY <1>8, <1>9 DEF MonMark
<1>10. CASE MonHandedBack(c)
  <2>1. cmd[c].mon = "handed_back" /\ cmd[c].by = "none"
    BY <1>10 DEF MonHandedBack
  <2>2. CASE Complete(c, "foreground_pgid")
    BY <1>8, <2>1, <2>2
  <2>3. CASE Record(c, [cmd[c] EXCEPT !.mon = "poll"])
    <3> DEFINE r == [cmd[c] EXCEPT !.mon = "poll"]
    <3>1. r \in CommandRecord /\ Own(r) /\ Moves(cmd[c], r)
      BY <2>1
    <3> QED BY <1>2, <2>3, <3>1
  <2> QED BY <1>10, <2>2, <2>3 DEF MonHandedBack
<1> QED BY <1>3, <1>4, <1>5, <1>6, <1>7, <1>9, <1>10 DEF Monitor

\* A step that may change every command: each change is one of its record.
LEMMA EachRecord ==
  ASSUME cmd \in Seq(CommandRecord), NEW F, cmd' = F, F = [c \in Commands |-> F[c]],
         \A c \in Commands : F[c] \in CommandRecord /\ Own(F[c]) /\ Moves(cmd[c], F[c])
  PROVE  Settled
  BY DEF Settled

\* A hang-up, a signal and the SIGTERM of a close take a command back into
\* its shell, or abort it.
LEMMA BackInShell ==
  ASSUME NEW r \in CommandRecord, Own(r), r.run \in {"shell", "group"}, life[r.term] = "open"
  PROVE  /\ InShell(r) \in CommandRecord /\ Own(InShell(r)) /\ Moves(r, InShell(r))
         /\ [InShell(r) EXCEPT !.run = "aborted"] \in CommandRecord
         /\ Own([InShell(r) EXCEPT !.run = "aborted"])
         /\ Moves(r, [InShell(r) EXCEPT !.run = "aborted"])
  BY DEF CommandRecord, Own, Moves, FoundDead, Mortal, Excused, InShell, Running, Past, Ready

LEMMA HangUpSettles ==
  ASSUME TypeOK, OwnInv, NEW s \in Terms, NEW deaf \in SUBSET {c \in Of(s) : cmd[c].run = "group"},
         cmd' = HungUp(s, deaf)
  PROVE  Settled
<1>1. cmd \in Seq(CommandRecord) /\ \A c \in Commands : cmd[c] \in CommandRecord /\ Own(cmd[c])
  BY DEF TypeOK, Commands, OwnInv
<1> DEFINE F == HungUp(s, deaf)
<1>2. ASSUME NEW c \in Commands
      PROVE  F[c] \in CommandRecord /\ Own(F[c]) /\ Moves(cmd[c], F[c])
  <2>1. CASE c \in Of(s) /\ cmd[c].run \in Running /\ c \in deaf
    <3> DEFINE r == [cmd[c] EXCEPT !.escaped = @ \cup
                       IF life[s] = "open" THEN {"SIGHUP", "look"} ELSE {"SIGHUP"}]
    <3>2. r \in CommandRecord
      BY <1>1 DEF CommandRecord
    <3>3. Own(r) /\ Moves(cmd[c], r)
      BY <1>1, <2>1
      DEF CommandRecord, Own, Moves, FoundDead, Mortal, Excused, Running, Past, Ready
    <3>4. F[c] = r
      BY <2>1 DEF HungUp
    <3> HIDE DEF r, F
    <3> QED BY <3>2, <3>3, <3>4
  <2>2. CASE c \in Of(s) /\ cmd[c].run \in Running /\ c \notin deaf
    <3> DEFINE r == [InShell(cmd[c]) EXCEPT !.run = "aborted"]
    <3>1. r \in CommandRecord /\ Own(r) /\ Moves(cmd[c], r)
      BY ZenonT(60), <1>1, <2>2
      DEF CommandRecord, Own, Moves, FoundDead, Mortal, Excused, InShell, Running, Past, Ready
    <3> QED BY <2>2, <3>1 DEF HungUp
  <2>3. CASE ~(c \in Of(s) /\ cmd[c].run \in Running)
    BY <1>1, <2>3 DEF HungUp, Moves
  <2> QED BY <2>1, <2>2, <2>3
<1>3. F = [c \in Commands |-> F[c]]
  BY DEF HungUp
<1> HIDE DEF F
<1>4. cmd' = F
  BY DEF F
<1> QED BY <1>1, <1>2, <1>3, <1>4, EachRecord

\* What is left of a terminal's programs when it is hung up.
LEMMA HangsUpLeaves ==
  ASSUME TypeOK, OwnInv, NEW s \in Terms, HangsUp(s)
  PROVE  /\ Settled
         /\ shell' = [shell EXCEPT ![s] = "dead"]
         /\ stopped' \in [Terms -> {"none", "stopped", "deaf"}] /\ stopped'[s] # "stopped"
         /\ \A t \in Terms : t # s => stopped'[t] = stopped[t]
         /\ \A c \in Commands : cmd[c].term = s =>
              ~Mortal(cmd'[c]) /\ (life[s] = "open" /\ cmd'[c].run = "group" => "look" \in cmd'[c].escaped)
<1>1. cmd \in Seq(CommandRecord) /\ \A c \in Commands : cmd[c] \in CommandRecord /\ Own(cmd[c])
  BY DEF TypeOK, Commands, OwnInv
<1>2. PICK deaf \in SUBSET {c \in Of(s) : cmd[c].run = "group"} : cmd' = HungUp(s, deaf)
  BY DEF HangsUp, Ignoring
<1>3. Settled
  BY <1>2, HangUpSettles
<1>4. PICK t \in {"none", "deaf"} : stopped' = [stopped EXCEPT ![s] = IF @ = "stopped" THEN t ELSE @]
  BY DEF HangsUp
<1>5. /\ stopped' \in [Terms -> {"none", "stopped", "deaf"}] /\ stopped'[s] # "stopped"
      /\ \A u \in Terms : u # s => stopped'[u] = stopped[u]
  BY <1>4 DEF TypeOK
<1>6. ASSUME NEW c \in Commands, cmd[c].term = s
      PROVE  ~Mortal(cmd'[c]) /\ (life[s] = "open" /\ cmd'[c].run = "group" => "look" \in cmd'[c].escaped)
  <2>1. c \in Of(s)
    BY <1>6 DEF Of
  <2>2. CASE cmd[c].run \in Running /\ c \in deaf
    <3>1. cmd'[c] = [cmd[c] EXCEPT !.escaped = @ \cup
                       IF life[s] = "open" THEN {"SIGHUP", "look"} ELSE {"SIGHUP"}]
      BY <1>2, <2>1, <2>2 DEF HungUp
    <3>2. "SIGHUP" \in cmd'[c].escaped /\ (life[s] = "open" => "look" \in cmd'[c].escaped)
      BY <1>1, <3>1 DEF CommandRecord
    <3> QED BY <3>2 DEF Mortal
  <2>3. CASE cmd[c].run \in Running /\ c \notin deaf
    <3>1. cmd'[c] = [InShell(cmd[c]) EXCEPT !.run = "aborted"]
      BY <1>2, <2>1, <2>3 DEF HungUp
    <3>2. cmd'[c].run = "aborted"
      BY <1>1, <3>1 DEF CommandRecord, InShell
    <3> QED BY <3>2 DEF Mortal, Running
  <2>4. CASE cmd[c].run \notin Running
    <3>1. cmd'[c] = cmd[c]
      BY <1>2, <2>4 DEF HungUp
    <3> QED BY <2>4, <3>1 DEF Mortal, Running
  <2> QED BY <2>2, <2>3, <2>4
<1> QED BY <1>3, <1>5, <1>6 DEF HangsUp

LEMMA SignalSettles ==
  ASSUME TypeOK, OwnInv, NEW s \in Terms, Signal(s) \/ Interrupt(s)
  PROVE  Settled
<1>1. cmd \in Seq(CommandRecord) /\ \A c \in Commands : cmd[c] \in CommandRecord /\ Own(cmd[c])
  BY DEF TypeOK, Commands, OwnInv
<1> DEFINE Harmless(F) ==
      /\ F \in [Commands -> CommandRecord]
      /\ \A c \in Commands : Own(F[c]) /\ Moves(cmd[c], F[c]) /\ F[c].run = cmd[c].run
<1>2. Harmless(cmd)
  BY <1>1 DEF Moves, Commands
<1>3. ASSUME NEW b \in BOOLEAN PROVE Harmless(Noted(s, b))
  <2>1. ASSUME NEW c \in Commands
        PROVE  /\ Noted(s, b)[c] \in CommandRecord /\ Own(Noted(s, b)[c])
               /\ Moves(cmd[c], Noted(s, b)[c]) /\ Noted(s, b)[c].run = cmd[c].run
    <3>1. CASE c = pending[s] /\ ~Completed(c)
      <4> DEFINE r == [cmd[c] EXCEPT !.sig = IF b THEN TRUE ELSE @,
                                     !.saw = IF Group(s) # {} THEN TRUE ELSE @]
      <4>1. /\ (IF Group(s) # {} THEN TRUE ELSE cmd[c].saw) \in BOOLEAN
            /\ (IF b THEN TRUE ELSE cmd[c].sig) \in BOOLEAN
        BY <1>1 DEF CommandRecord
      <4>5. \A p, q \in BOOLEAN : [cmd[c] EXCEPT !.sig = p, !.saw = q] \in CommandRecord
        BY ZenonT(60), <1>1 DEF CommandRecord
      <4>2. r \in CommandRecord
        BY <4>1, <4>5, Zenon
      <4>3. Own(r) /\ Moves(cmd[c], r) /\ r.run = cmd[c].run
        BY <1>1 DEF CommandRecord, Own, Moves, FoundDead, Mortal, Excused, Running, Past, Ready
      <4>4. Noted(s, b)[c] = r
        BY <3>1 DEF Noted
      <4> HIDE DEF r
      <4> QED BY <4>2, <4>3, <4>4
    <3>2. CASE ~(c = pending[s] /\ ~Completed(c))
      BY <1>1, <3>2 DEF Noted, Moves
    <3> QED BY <3>1, <3>2
  <2> QED BY <2>1 DEF Noted
<1>4. ASSUME NEW F, Harmless(F)
      PROVE  /\ Struck(s, F) \in [Commands -> CommandRecord]
             /\ \A c \in Commands : Own(Struck(s, F)[c]) /\ Moves(cmd[c], Struck(s, F)[c])
  <2>1. ASSUME NEW c \in Commands
        PROVE  /\ Struck(s, F)[c] \in CommandRecord /\ Own(Struck(s, F)[c])
               /\ Moves(cmd[c], Struck(s, F)[c])
    <3>1. CASE c \in Of(s) /\ cmd[c].run \in {"shell", "group"}
      <4> DEFINE r == [InShell(F[c]) EXCEPT !.run = "aborted"]
      <4>1. F[c] \in CommandRecord /\ Own(F[c]) /\ F[c].run \in {"shell", "group"} /\ Moves(cmd[c], F[c])
        BY <1>4, <3>1
      <4>5. F[c].term = s /\ cmd[c].term = s /\ life[s] = "open"
        BY <3>1, <4>1 DEF Of, Moves, Signal, Interrupt, Alive
      <4>2. r \in CommandRecord /\ Own(r) /\ Moves(F[c], r)
        BY <4>1, <4>5, BackInShell
      <4>6. r.run = "aborted"
        BY <4>1 DEF CommandRecord, InShell
      <4>3. Moves(cmd[c], r)
        BY <4>1, <4>2, <4>5, <4>6 DEF Moves, FoundDead, Mortal, Excused, Running
      <4>4. Struck(s, F)[c] = r
        BY <3>1 DEF Struck
      <4> HIDE DEF r
      <4> QED BY <4>2, <4>3, <4>4
    <3>2. CASE ~(c \in Of(s) /\ cmd[c].run \in {"shell", "group"})
      BY <1>4, <3>2 DEF Struck
    <3> QED BY <3>1, <3>2
  <2> QED BY <2>1 DEF Struck
<1>5. ASSUME NEW F, Harmless(F)
      PROVE  /\ Suspended(s, F) \in [Commands -> CommandRecord]
             /\ \A c \in Commands : Own(Suspended(s, F)[c]) /\ Moves(cmd[c], Suspended(s, F)[c])
  <2>1. ASSUME NEW c \in Commands
        PROVE  /\ Suspended(s, F)[c] \in CommandRecord /\ Own(Suspended(s, F)[c])
               /\ Moves(cmd[c], Suspended(s, F)[c])
    <3>1. CASE c \in Group(s)
      <4>1. F[c] \in CommandRecord /\ Own(F[c]) /\ F[c].run = "group" /\ Moves(cmd[c], F[c])
        BY <1>5, <3>1 DEF Group, Of
      <4>2. F[c].term = s /\ cmd[c].term = s /\ life[s] = "open" /\ cmd[c].run = "group"
        BY <3>1, <4>1 DEF Group, Of, Moves, Signal, Interrupt, Alive
      <4>3. InShell(F[c]) \in CommandRecord /\ Own(InShell(F[c])) /\ Moves(F[c], InShell(F[c]))
        BY <4>1, <4>2, BackInShell
      <4>4. InShell(F[c]).run = "shell"
        BY <4>1 DEF CommandRecord, InShell
      <4>5. Moves(cmd[c], InShell(F[c]))
        BY <4>1, <4>2, <4>3, <4>4 DEF Moves, FoundDead, Mortal, Running
      <4> QED BY <3>1, <4>3, <4>5 DEF Suspended
    <3>2. CASE c \notin Group(s)
      BY <1>5, <3>2 DEF Suspended
    <3> QED BY <3>1, <3>2
  <2> QED BY <2>1 DEF Suspended
<1>6. CASE cmd' \in {Noted(s, TRUE), Noted(s, FALSE)}
  BY <1>3, <1>6 DEF Settled
<1>7. CASE cmd' \in {Struck(s, Noted(s, TRUE)), Struck(s, cmd)}
  BY <1>2, <1>3, <1>4, <1>7 DEF Settled
<1>8. CASE cmd' \in {Suspended(s, Noted(s, FALSE)), Suspended(s, cmd)}
  BY <1>2, <1>3, <1>5, <1>8 DEF Settled
<1> QED BY <1>6, <1>7, <1>8 DEF Signal, Interrupt

LEMMA CloseSettles ==
  ASSUME TypeOK, OwnInv, TaskInv, NEW s \in Terms, NEW who, Close(s, who)
  PROVE  /\ Settled
         /\ \A c \in Commands : cmd'[c].run = "group" =>
              cmd[c].run = "group" /\ (c \in Group(s) => "SIGTERM" \in cmd'[c].escaped)
<1>1. cmd \in Seq(CommandRecord) /\ \A c \in Commands : cmd[c] \in CommandRecord /\ Own(cmd[c])
  BY DEF TypeOK, Commands, OwnInv
<1>2. PICK deaf \in SUBSET Group(s) : cmd' = WithoutMonitor(s, Terminated(s, deaf))
  BY DEF Close, Ignoring
<1> DEFINE T == Terminated(s, deaf)
           F == WithoutMonitor(s, T)
<1>3. ASSUME NEW c \in Commands
      PROVE  /\ T[c] \in CommandRecord /\ Own(T[c]) /\ Moves(cmd[c], T[c]) /\ T[c].mon = cmd[c].mon
             /\ T[c].run = "group" =>
                  cmd[c].run = "group" /\ (c \in Group(s) => "SIGTERM" \in T[c].escaped)
  <2>1. CASE c \in Group(s) /\ c \in deaf
    <3> DEFINE r == [cmd[c] EXCEPT !.escaped = @ \cup {"SIGTERM"}]
    <3>1. cmd[c].run = "group" /\ T[c] = r
      BY <2>1 DEF Group, Terminated
    <3>2. r \in CommandRecord /\ Own(r) /\ Moves(cmd[c], r) /\ r.mon = cmd[c].mon /\ "SIGTERM" \in r.escaped
      BY <1>1, <3>1
      DEF CommandRecord, Own, Moves, FoundDead, Mortal, Excused, Running, Past, Ready
    <3> HIDE DEF T, r
    <3> QED BY <3>1, <3>2
  <2>2. CASE c \in Group(s) /\ c \notin deaf
    <3>1. cmd[c].run = "group" /\ T[c] = InShell(cmd[c])
      BY <2>2 DEF Group, Terminated
    <3>2. InShell(cmd[c]).mon = cmd[c].mon /\ InShell(cmd[c]).run = "shell"
      BY <1>1 DEF InShell, CommandRecord
    <3>3. life[cmd[c].term] = "open"
      BY <2>2 DEF Group, Of, Close
    <3> HIDE DEF T
    <3> QED BY <1>1, <3>1, <3>2, <3>3, BackInShell
  <2>3. CASE c \notin Group(s)
    BY <1>1, <2>3 DEF Terminated, Moves
  <2> QED BY <2>1, <2>2, <2>3
<1>4. ASSUME NEW c \in Commands
      PROVE  /\ F[c] \in CommandRecord /\ Own(F[c]) /\ Moves(cmd[c], F[c])
             /\ F[c].run = "group" =>
                  cmd[c].run = "group" /\ (c \in Group(s) => "SIGTERM" \in F[c].escaped)
  <2>1. CASE c = task[s]
    <3> DEFINE Cancelled(q) == [q EXCEPT !.mon = "done", !.saw = FALSE, !.sig = FALSE]
    <3>1. cmd[c].mon # "none"
      BY <2>1 DEF TaskInv, Commands, None
    <3>2. F[c] = Cancelled(T[c])
      BY <2>1, Zenon DEF WithoutMonitor
    <3>3. ASSUME NEW q \in CommandRecord, Own(q), Moves(cmd[c], q)
          PROVE  /\ Cancelled(q) \in CommandRecord /\ Own(Cancelled(q)) /\ Moves(cmd[c], Cancelled(q))
                 /\ Cancelled(q).run = q.run /\ Cancelled(q).escaped = q.escaped
      <4>1. Cancelled(q) \in CommandRecord
        BY <3>3 DEF CommandRecord
      <4>2. /\ Cancelled(q).mon = "done"
            /\ \A f \in {"term", "exec", "typing", "escaped", "run", "marker", "file", "by"} :
                 Cancelled(q)[f] = q[f]
        BY <3>3 DEF CommandRecord
      <4>3. q.mon # "none" /\ ~q.typing /\ q.exec # "send"
        BY <3>1, <3>3 DEF Own, Moves
      <4> HIDE DEF Cancelled
      <4>4. Own(Cancelled(q))
        BY <3>3, <4>2, <4>3 DEF Own, Ready
      <4>5. Moves(cmd[c], Cancelled(q))
        BY <3>3, <4>2 DEF Moves, FoundDead, Mortal, Excused
      <4> QED BY <4>1, <4>2, <4>4, <4>5
    <3> HIDE DEF T, F, Cancelled
    <3> QED BY <1>3, <3>2, <3>3
  <2>2. CASE c # task[s]
    <3>1. F[c] = T[c]
      BY <2>2 DEF WithoutMonitor
    <3> HIDE DEF F, T
    <3> QED BY <1>3, <3>1
  <2> QED BY <2>1, <2>2
<1>5. F = [c \in Commands |-> F[c]]
  BY DEF WithoutMonitor
<1>6. cmd' = F
  BY <1>2
<1> HIDE DEF F
<1>7. Settled
  BY <1>1, <1>4, <1>5, <1>6, EachRecord
<1> QED BY <1>4, <1>6, <1>7

\* A close that is over forgets the markers.
LEMMA RemovedSettles ==
  ASSUME TypeOK, OwnInv, NEW s \in Terms, cmd' = Removed(s)
  PROVE  Settled
<1>1. cmd \in Seq(CommandRecord) /\ \A c \in Commands : cmd[c] \in CommandRecord /\ Own(cmd[c])
  BY DEF TypeOK, Commands, OwnInv
<1>2. ASSUME NEW c \in Commands
      PROVE  Removed(s)[c] \in CommandRecord /\ Own(Removed(s)[c]) /\ Moves(cmd[c], Removed(s)[c])
  <2> DEFINE r == [cmd[c] EXCEPT !.file = FALSE, !.marker = "none"]
  <2>1. r \in CommandRecord /\ Own(r) /\ Moves(cmd[c], r)
    BY ZenonT(60), <1>1 DEF CommandRecord, Own, Moves, FoundDead, Mortal, Excused, Running, Past, Ready
  <2>2. Moves(cmd[c], cmd[c])
    BY DEF Moves
  <2> QED BY <1>1, <2>1, <2>2 DEF Removed
<1>3. Removed(s) = [c \in Commands |-> Removed(s)[c]]
  BY DEF Removed
<1> QED BY <1>1, <1>2, <1>3, EachRecord

LEMMA StepSettles ==
  ASSUME TypeOK, OwnInv, TaskInv, [Next]_vars
  PROVE  Settled \/ \E s \in Terms : ExecBegin(s)
<1>1. ASSUME UNCHANGED cmd PROVE Settled
  BY <1>1, NoRecord DEF TypeOK
<1>2. ASSUME NEW s \in Terms,
             OpenTerm(s) \/ Clear(s) \/ CloseSleeps(s) \/ JanitorSkips(s)
      PROVE  Settled
  BY <1>1, <1>2 DEF OpenTerm, Clear, CloseSleeps, JanitorSkips, procVars
<1>3. ASSUME NEW s \in Terms, ShellDies(s) \/ CloseShell(s) \/ CloseEnds(s) PROVE Settled
  BY <1>3, HangsUpLeaves, RemovedSettles DEF ShellDies, CloseShell, CloseEnds
<1>4. ASSUME NEW s \in Terms, CloseByClient(s) \/ JanitorCloses(s) PROVE Settled
  BY <1>4, CloseSettles DEF CloseByClient, JanitorCloses
<1>5. CASE JanitorWakes \/ JanitorRests
  BY <1>1, <1>5 DEF JanitorWakes, JanitorRests, procVars
<1>6. ASSUME NEW c \in Commands, ExecReturns(c) PROVE Settled
  BY <1>1, <1>6 DEF ExecReturns, procVars
<1>7. ASSUME NEW c \in Commands,
             Thread(c) \/ TypeFails(c) \/ ExecMonitors(c) \/ ExecCancelled(c)
      PROVE  Settled
  BY <1>7, ExecSettles DEF Thread
<1>8. CASE UNCHANGED vars
  BY <1>1, <1>8 DEF vars, procVars
<1> QED
  BY <1>2, <1>3, <1>4, <1>5, <1>6, <1>7, <1>8, SignalSettles, ShellSettles, MonitorSettles
  DEF Next, Closes, Handler, Janitor

\* terminal_exec accepts a command.
LEMMA Accepts ==
  ASSUME TypeOK, OwnInv, NEW s \in Terms, ExecBegin(s)
  PROVE  /\ cmd' \in Seq(CommandRecord) /\ Len(cmd') = Len(cmd) + 1
         /\ Commands' = Commands \cup {Len(cmd) + 1}
         /\ \A c \in Commands : cmd'[c] = cmd[c]
         /\ cmd'[Len(cmd) + 1] = NewCommand(s)
         /\ OwnInv'
<1>1. NewCommand(s) \in CommandRecord /\ Own(NewCommand(s))
  BY DEF NewCommand, CommandRecord, Own, Past, Ready, Running
<1>2. cmd \in Seq(CommandRecord) /\ cmd' = Append(cmd, NewCommand(s))
  BY DEF TypeOK, ExecBegin
<1>3. /\ cmd' \in Seq(CommandRecord) /\ Len(cmd') = Len(cmd) + 1
      /\ Commands' = Commands \cup {Len(cmd) + 1}
      /\ \A c \in Commands : cmd'[c] = cmd[c]
      /\ cmd'[Len(cmd) + 1] = NewCommand(s)
  BY <1>1, <1>2 DEF Commands
<1> QED BY <1>1, <1>3 DEF OwnInv

LEMMA OwnNext == TypeOK /\ OwnInv /\ TaskInv /\ [Next]_vars => OwnInv'
<1> SUFFICES ASSUME TypeOK, OwnInv, TaskInv, [Next]_vars PROVE OwnInv'
  OBVIOUS
<1>1. CASE Settled
  BY <1>1, SettledSeq DEF TypeOK, OwnInv, Settled
<1>2. ASSUME NEW s \in Terms, ExecBegin(s) PROVE OwnInv'
  BY <1>2, Accepts
<1> QED BY <1>1, <1>2, StepSettles

-----------------------------------------------------------------------------
(* The type invariant.                                                     *)

LEMMA TermsFinite == ASSUME NEW S, S \subseteq Terms PROVE IsFiniteSet(S) /\ Cardinality(S) \in Nat
<1>1. 1 \in Int /\ MaxTerms \in Int
  BY TerminalAssumption
<1>2. IsFiniteSet(Terms)
  BY <1>1, FS_Interval DEF Terms
<1> QED BY <1>2, FS_Subset, FS_CardinalityType

LEMMA TypeInit == Init => TypeOK
<1> SUFFICES ASSUME Init PROVE TypeOK
  OBVIOUS
<1>1. {s \in Terms : life[s] # "none"} = {} /\ {s \in Terms : Alive(s)} = {} /\ Len(cmd) = 0
  BY DEF Init, Alive
<1>2. Cardinality({s \in Terms : life[s] # "none"}) = 0 /\ Cardinality({s \in Terms : Alive(s)}) = 0
  BY <1>1, FS_EmptySet, Zenon
<1>3. Work <= MaxWork /\ Cardinality({s \in Terms : Alive(s)}) <= MaxSessions
  BY <1>1, <1>2, TerminalAssumption DEF Work
<1>4. pending \in [Terms -> 0..Len(cmd)] /\ task \in [Terms -> 0..Len(cmd)] /\ cmd \in Seq(CommandRecord)
  BY <1>1 DEF Init, None
<1> QED BY <1>3, <1>4 DEF Init, TypeOK

\* How many terminals there are, and how many of them are alive.
Counts == Work <= MaxWork /\ Cardinality({s \in Terms : Alive(s)}) <= MaxSessions

\* Neither grows unless a terminal is opened or a command is accepted.
LEMMA CountsKept ==
  ASSUME TypeOK, Len(cmd') = Len(cmd),
         \A s \in Terms : life[s] = "none" => life'[s] = "none",
         \A s \in Terms : Alive(s)' => Alive(s)
  PROVE  Counts'
<1>1. ASSUME NEW S, NEW T, S \subseteq T, T \subseteq Terms PROVE Cardinality(S) <= Cardinality(T)
  BY <1>1, TermsFinite, FS_Subset
<1>2. {s \in Terms : Alive(s)}' \subseteq {s \in Terms : Alive(s)}
  BY DEF Terms
<1>3. {s \in Terms : life[s] # "none"}' \subseteq {s \in Terms : life[s] # "none"}
  BY DEF Terms
<1>4. Cardinality({s \in Terms : Alive(s)}') <= Cardinality({s \in Terms : Alive(s)})
  BY <1>1, <1>2
<1>5. Cardinality({s \in Terms : life[s] # "none"}') <= Cardinality({s \in Terms : life[s] # "none"})
  BY <1>1, <1>3
<1>6. /\ Cardinality({s \in Terms : life[s] # "none"}) \in Nat
      /\ Cardinality({s \in Terms : life[s] # "none"}') \in Nat
      /\ Cardinality({s \in Terms : Alive(s)}) \in Nat
      /\ Cardinality({s \in Terms : Alive(s)}') \in Nat
  BY <1>2, <1>3, TermsFinite
<1>7. Len(cmd) \in Nat /\ Work <= MaxWork /\ Cardinality({s \in Terms : Alive(s)}) <= MaxSessions
  BY DEF TypeOK
<1> QED BY <1>4, <1>5, <1>6, <1>7, TerminalAssumption DEF Counts, Work

\* The steps of a command's handler, thread and monitor, and of the shell
\* with it, change nothing else.
LEMMA CommandSteps ==
  ASSUME NEW c \in Commands,
         Thread(c) \/ TypeFails(c) \/ ExecCancelled(c) \/ Monitor(c)
         \/ Runs(c) \/ Forks(c) \/ GoesOn(c) \/ Ends(c) \/ WritesFile(c)
  PROVE  OnlyCommands
  BY DEF Thread, Type, ReaderParses, TypeFails, ExecCancelled, Monitor, MonMarker, MonFile,
     MonExit, MonSaw, MonBack, MonMark, MonHandedBack, Runs, Forks, GoesOn, Ends, WritesFile

LEMMA SignalSteps ==
  ASSUME TypeOK, NEW s \in Terms, Signal(s) \/ Interrupt(s)
  PROVE  /\ UNCHANGED <<shell, closeVars, janVars, pending, task>> /\ life[s] = "open"
         /\ stopped' \in [Terms -> {"none", "stopped", "deaf"}]
         /\ \A t \in Terms : t # s => stopped'[t] = stopped[t]
<1>1. CASE UNCHANGED stopped
  BY <1>1 DEF Signal, Interrupt, Alive, TypeOK
<1>2. CASE Stopping(s)
  BY <1>2 DEF Signal, Interrupt, Alive, TypeOK, Stopping
<1> QED BY <1>1, <1>2 DEF Signal, Interrupt

LEMMA TypeNext == TypeOK /\ OwnInv /\ TaskInv /\ [Next]_vars => TypeOK'
<1> SUFFICES ASSUME TypeOK, OwnInv, TaskInv, [Next]_vars PROVE TypeOK'
  OBVIOUS
<1>1. cmd \in Seq(CommandRecord) /\ Len(cmd) \in Nat
  BY DEF TypeOK
<1>2. ASSUME NEW s \in Terms, ExecBegin(s) PROVE TypeOK'
  <2>1. cmd' \in Seq(CommandRecord) /\ Len(cmd') = Len(cmd) + 1
    BY <1>2, Accepts
  <2>2. {t \in Terms : life[t] # "none"}' = {t \in Terms : life[t] # "none"}
        /\ {t \in Terms : Alive(t)}' = {t \in Terms : Alive(t)}
    BY <1>2 DEF ExecBegin, closeVars, Alive, Terms
  <2>3. Cardinality({t \in Terms : life[t] # "none"}) \in Nat
    BY TermsFinite
  <2>6. Cardinality({t \in Terms : life[t] # "none"}') = Cardinality({t \in Terms : life[t] # "none"})
    BY <2>2
  <2>7. Work < MaxWork
    BY <1>2 DEF ExecBegin
  <2>4. Work' <= MaxWork
    BY <1>1, <2>1, <2>3, <2>6, <2>7, TerminalAssumption DEF Work
  <2>5. pending' \in [Terms -> 0..Len(cmd')] /\ task' \in [Terms -> 0..Len(cmd')]
    BY <1>1, <1>2, <2>1 DEF ExecBegin, TypeOK
  <2> QED BY <1>2, <2>1, <2>2, <2>4, <2>5 DEF TypeOK, ExecBegin, closeVars, janVars
<1> SUFFICES ASSUME Settled PROVE TypeOK'
  BY <1>2, StepSettles
<1>3. cmd' \in Seq(CommandRecord) /\ Len(cmd') = Len(cmd) /\ Commands' = Commands
  BY SettledSeq DEF TypeOK
<1>4. ASSUME NEW s \in Terms, OpenTerm(s) PROVE TypeOK'
  <2>1. {t \in Terms : life[t] # "none"}' = {t \in Terms : life[t] # "none"} \cup {s}
        /\ {t \in Terms : Alive(t)}' \subseteq {t \in Terms : Alive(t)} \cup {s}
    BY <1>4 DEF OpenTerm, Alive, Terms, TypeOK
  <2>2. s \notin {t \in Terms : life[t] # "none"} /\ s \notin {t \in Terms : Alive(t)}
    BY <1>4 DEF OpenTerm, Alive
  <2>3. /\ Cardinality({t \in Terms : life[t] # "none"} \cup {s})
             = Cardinality({t \in Terms : life[t] # "none"}) + 1
        /\ Cardinality({t \in Terms : Alive(t)} \cup {s})
             = Cardinality({t \in Terms : Alive(t)}) + 1
    BY <2>2, TermsFinite, FS_AddElement
  <2>4. Cardinality({t \in Terms : Alive(t)}') <= Cardinality({t \in Terms : Alive(t)} \cup {s})
    BY <2>1, TermsFinite, FS_Subset
  <2>5. /\ Cardinality({t \in Terms : life[t] # "none"}) \in Nat
        /\ Cardinality({t \in Terms : Alive(t)}) \in Nat
        /\ Cardinality({t \in Terms : Alive(t)}') \in Nat
    BY <2>1, TermsFinite
  <2>8. Cardinality({t \in Terms : life[t] # "none"}') = Cardinality({t \in Terms : life[t] # "none"}) + 1
    BY <2>1, <2>3
  <2>9. Work < MaxWork /\ Cardinality({t \in Terms : Alive(t)}) < MaxSessions
    BY <1>4 DEF OpenTerm
  <2>6. Counts'
    BY <1>1, <1>3, <2>3, <2>4, <2>5, <2>8, <2>9, TerminalAssumption DEF Counts, Work
  <2>7. janitor' \in {"none", "done", "sleep", "work"} /\ (stale' # {} => janitor' = "work")
        /\ unwatched' \in BOOLEAN
    BY <1>4 DEF OpenTerm, Watching, TypeOK
  <2> QED BY <1>3, <1>4, <2>6, <2>7 DEF Counts, TypeOK, OpenTerm
<1>5. ASSUME UNCHANGED <<shell, closeVars, janVars, pending, task>>,
             stopped' \in [Terms -> {"none", "stopped", "deaf"}]
      PROVE  TypeOK'
  <2>1. Counts'
    BY <1>3, <1>5, CountsKept DEF closeVars, Alive
  <2> QED BY <1>3, <1>5, <2>1 DEF Counts, TypeOK, closeVars, janVars
<1>14. ASSUME OnlyCommands PROVE TypeOK'
  BY <1>5, <1>14 DEF OnlyCommands, TypeOK
<1>6. ASSUME NEW c \in Commands, ExecMonitors(c) \/ ExecReturns(c) PROVE TypeOK'
  <2>1. Counts'
    BY <1>3, <1>6, CountsKept DEF ExecMonitors, ExecReturns, closeVars, procVars, Alive
  <2>2. pending' \in [Terms -> 0..Len(cmd)]
    BY SMTT(40), <1>1, <1>6 DEF ExecMonitors, ExecReturns, TypeOK, None
  <2>3. task' \in [Terms -> 0..Len(cmd)]
    <3>1. CASE task' = task
      BY <1>1, <3>1 DEF TypeOK
    <3>2. CASE task' = [task EXCEPT ![cmd[c].term] = c]
      <4>1. task \in [Terms -> 0..Len(cmd)] /\ c \in 0..Len(cmd)
        BY <1>1 DEF TypeOK, Commands
      <4> QED BY <3>2, <4>1
    <3> QED BY <1>6, <3>1, <3>2 DEF ExecMonitors, ExecReturns
  <2> QED BY <1>3, <1>6, <2>1, <2>2, <2>3
          DEF Counts, TypeOK, ExecMonitors, ExecReturns, closeVars, janVars, procVars
<1>7. ASSUME NEW s \in Terms, Clear(s) PROVE TypeOK'
  <2>1. Counts'
    BY <1>3, <1>7, CountsKept DEF Clear, closeVars, procVars, Alive, TypeOK
  <2>2. pending' \in [Terms -> 0..Len(cmd)]
    BY <1>1, <1>7 DEF Clear, TypeOK, None
  <2> QED BY <1>3, <1>7, <2>1, <2>2 DEF Counts, TypeOK, Clear, closeVars, janVars, procVars
<1>15. ASSUME NEW s \in Terms, ShellDies(s) \/ CloseShell(s) PROVE TypeOK'
  <2>1. /\ shell' = [shell EXCEPT ![s] = "dead"]
        /\ stopped' \in [Terms -> {"none", "stopped", "deaf"}]
        /\ UNCHANGED <<closer, last, janVars, pending, task>>
        /\ life' = life \/ life' = [life EXCEPT ![s] = "shut"]
        /\ life[s] # "none"
    BY <1>15, HangsUpLeaves DEF ShellDies, CloseShell, closeVars, Alive
  <2>2. Counts'
    BY <1>3, <2>1, CountsKept DEF Alive, TypeOK
  <2> QED BY <1>3, <2>1, <2>2 DEF Counts, TypeOK, janVars
<1>8. ASSUME NEW s \in Terms, NEW who \in {"client", "janitor"}, Close(s, who),
             UNCHANGED janVars \/ JanitorCloses(s)
      PROVE  TypeOK'
  <2>1. Counts'
    BY <1>3, <1>8, CountsKept DEF Close, Alive, TypeOK
  <2>2. last' \in [Terms -> BOOLEAN]
    BY <1>8 DEF Close, TypeOK
  <2>3. janitor' = janitor /\ unwatched' = unwatched /\ stale' \subseteq Terms
        /\ (stale' # {} => janitor = "work")
    BY <1>8 DEF JanitorCloses, janVars, TypeOK
  <2> QED BY <1>3, <1>8, <2>1, <2>2, <2>3 DEF Counts, TypeOK, Close
<1>9. ASSUME NEW s \in Terms, CloseSleeps(s) PROVE TypeOK'
  <2>1. Counts'
    BY <1>3, <1>9, CountsKept DEF CloseSleeps, procVars, Alive, TypeOK
  <2> QED BY <1>3, <1>9, <2>1 DEF Counts, TypeOK, CloseSleeps, procVars, janVars
<1>10. ASSUME NEW s \in Terms, CloseEnds(s) PROVE TypeOK'
  <2>1. Counts'
    BY <1>3, <1>10, CountsKept DEF CloseEnds, procVars, Alive, TypeOK
  <2>2. /\ unwatched' \in BOOLEAN /\ closer' \in [Terms -> {"none", "client", "janitor", "lost"}]
        /\ last' \in [Terms -> BOOLEAN]
    BY <1>10 DEF CloseEnds, TypeOK
  <2>3. janitor' \in {"none", "done", "sleep", "work"} /\ stale' \subseteq Terms
        /\ (stale' # {} => janitor' = "work")
    BY <1>10 DEF CloseEnds, TypeOK
  <2> QED BY <1>3, <1>10, <2>1, <2>2, <2>3 DEF Counts, TypeOK, CloseEnds, procVars
<1>11. ASSUME JanitorWakes \/ JanitorRests \/ (\E s \in Terms : JanitorSkips(s)) PROVE TypeOK'
  <2>1. Counts'
    BY <1>3, <1>11, CountsKept
    DEF JanitorWakes, JanitorRests, JanitorSkips, closeVars, procVars, Alive
  <2>2. janitor' \in {"none", "done", "sleep", "work"} /\ stale' \subseteq Terms
        /\ (stale' # {} => janitor' = "work")
    BY <1>11 DEF JanitorWakes, JanitorRests, JanitorSkips, TypeOK, Open
  <2> QED BY <1>3, <1>11, <2>1, <2>2
          DEF Counts, TypeOK, JanitorWakes, JanitorRests, JanitorSkips, closeVars, procVars
<1>12. CASE UNCHANGED vars
  BY <1>14, <1>12 DEF vars, procVars, OnlyCommands
<1>16. ASSUME NEW s \in Terms, Signal(s) \/ Interrupt(s) PROVE TypeOK'
  BY <1>5, <1>16, SignalSteps
<1>13. ASSUME NEW s \in Terms, CloseByClient(s) \/ JanitorCloses(s) PROVE TypeOK'
  BY <1>8, <1>13 DEF CloseByClient, JanitorCloses
<1> QED
  BY <1>2, <1>4, <1>6, <1>7, <1>9, <1>10, <1>11, <1>12, <1>13, <1>14, <1>15, <1>16,
     CommandSteps
  DEF Next, Closes, Handler, Janitor

-----------------------------------------------------------------------------
(* What holds of a command in its terminal.                                *)

\* A terminal with commands was opened; a monitor that found it dead was
\* right; in a terminal that is being closed, or has no shell, a program has got
\* past the SIGTERM; once its shell is gone, past the hang-up too.
Tidy(s, r) ==
  /\ life[s] # "none"
  /\ FoundDead(r) => ~Alive(s)
  /\ r.run = "group" /\ ~Alive(s) => Excused(r)
  /\ life[s] \in {"shut", "gone"} => ~Mortal(r)
TermInv ==
  /\ \A s \in Terms : life[s] \in {"shut", "gone"} => shell[s] = "dead" /\ stopped[s] # "stopped"
  /\ \A c \in Commands : Tidy(cmd[c].term, cmd[c])

\* What a step may do to a terminal, unless its shell dies, or its close
\* begins or ends.
Ages(s) ==
  /\ life[s] # "none" => life'[s] # "none" /\ Alive(s)' = Alive(s)
  /\ life[s] = "none" => life'[s] \in {"none", "open"}
  /\ life'[s] \in {"shut", "gone"} =>
       life[s] \in {"shut", "gone"} /\ shell'[s] = shell[s] /\ stopped'[s] = stopped[s]

\* It keeps the invariant of every terminal that only ages.
LEMMA TermAges ==
  ASSUME TypeOK, TermInv, Settled, NEW S \in SUBSET Terms, \A s \in S : Ages(s),
         \A s \in Terms \ S :
           /\ life'[s] \in {"shut", "gone"} => shell'[s] = "dead" /\ stopped'[s] # "stopped"
           /\ \A c \in Of(s) : Tidy(s, cmd[c])'
  PROVE  TermInv'
<1>1. cmd \in Seq(CommandRecord) /\ \A c \in Commands : cmd[c] \in CommandRecord
  BY DEF TypeOK, Commands
<1>2. Commands' = Commands
  BY <1>1, SettledSeq
<1>3. ASSUME NEW s \in Terms, life'[s] \in {"shut", "gone"}
      PROVE  shell'[s] = "dead" /\ stopped'[s] # "stopped"
  BY <1>3 DEF TermInv, Ages
<1>4. ASSUME NEW c \in Commands PROVE Tidy(cmd[c].term, cmd[c])'
  <2>1. PICK s \in Terms : s = cmd[c].term /\ cmd'[c].term = s /\ Moves(cmd[c], cmd'[c])
    BY <1>1 DEF Settled, Moves, CommandRecord
  <2>2. Tidy(s, cmd[c]) /\ (life[s] \in {"shut", "gone"} => shell[s] = "dead")
    BY <2>1 DEF TermInv
  <2>3. CASE s \in S
    <3>1. Ages(s)
      BY <2>3
    <3> QED BY <2>1, <2>2, <3>1 DEF Ages, Tidy, Moves, Alive, Excused
  <2>4. CASE s \notin S
    BY <2>1, <2>4 DEF Of
  <2> QED BY <2>3, <2>4
<1> QED BY <1>2, <1>3, <1>4 DEF TermInv

\* A close begins: what is in the foreground gets SIGTERM.
LEMMA TermClose ==
  ASSUME TypeOK, OwnInv, TaskInv, TermInv, NEW t \in Terms, NEW who, Close(t, who)
  PROVE  TermInv'
<1>1. cmd \in Seq(CommandRecord) /\ \A c \in Commands : cmd[c] \in CommandRecord
  BY DEF TypeOK, Commands
<1>2. /\ shell' = shell /\ stopped' = stopped /\ life[t] = "open"
      /\ life'[t] \in {"closing", "killed"} /\ (\A s \in Terms : s # t => life'[s] = life[s])
  BY DEF Close, TypeOK
<1>3. /\ Settled
      /\ \A c \in Commands : cmd'[c].run = "group" =>
           cmd[c].run = "group" /\ (c \in Group(t) => "SIGTERM" \in cmd'[c].escaped)
  BY CloseSettles
<1>4. \A s \in Terms \ {t} : Ages(s)
  BY <1>2 DEF Ages, Alive, TypeOK
<1>5. ASSUME NEW c \in Of(t) PROVE Tidy(t, cmd[c])'
  <2>1. c \in Commands /\ cmd[c].term = t /\ Moves(cmd[c], cmd'[c]) /\ Tidy(t, cmd[c])
    BY <1>3, <1>5 DEF Of, Settled, TermInv
  <2>2. CASE shell[t] = "alive"
    <3>1. cmd'[c].run = "group" => Excused(cmd'[c])
      BY <1>3, <1>5, <2>1, <2>2 DEF Excused, Group
    <3> QED BY <1>2, <2>1, <3>1 DEF Tidy, Alive
  <2>3. CASE shell[t] # "alive"
    BY <1>2, <2>1, <2>3 DEF Tidy, Alive, Moves, Excused
  <2> QED BY <2>2, <2>3
<1>6. /\ \A s \in Terms \ (Terms \ {t}) : s = t
      /\ Terms \ {t} \in SUBSET Terms
  OBVIOUS
<1> QED BY <1>2, <1>3, <1>4, <1>5, <1>6, TermAges

\* The shell ends: the hang-up has ended everything that does not ignore it.
LEMMA TermShut ==
  ASSUME TypeOK, OwnInv, TermInv, NEW t \in Terms, ShellDies(t) \/ CloseShell(t)
  PROVE  TermInv'
<1>1. cmd \in Seq(CommandRecord) /\ \A c \in Commands : cmd[c] \in CommandRecord
  BY DEF TypeOK, Commands
<1>2. /\ life[t] \in {"open", "closing", "killed"} /\ life'[t] # "none"
      /\ life'[t] \in {"open", "shut"} /\ (life'[t] = "open" <=> life[t] = "open")
      /\ \A s \in Terms : s # t => life'[s] = life[s]
      /\ HangsUp(t)
  BY DEF ShellDies, CloseShell, Alive, closeVars, TypeOK
<1>3. /\ Settled /\ shell' = [shell EXCEPT ![t] = "dead"] /\ stopped'[t] # "stopped"
      /\ \A s \in Terms : s # t => stopped'[s] = stopped[s]
      /\ \A c \in Commands : cmd[c].term = t =>
           ~Mortal(cmd'[c]) /\ (life[t] = "open" /\ cmd'[c].run = "group" => "look" \in cmd'[c].escaped)
  BY <1>2, HangsUpLeaves
<1>7. shell'[t] = "dead" /\ \A s \in Terms : s # t => shell'[s] = shell[s]
  BY <1>3 DEF TypeOK
<1>4. \A s \in Terms \ {t} : Ages(s)
  BY <1>2, <1>3, <1>7 DEF Ages, Alive, TypeOK
<1>5. ASSUME NEW c \in Of(t) PROVE Tidy(t, cmd[c])'
  <2>1. /\ c \in Commands /\ cmd[c].term = t /\ Moves(cmd[c], cmd'[c]) /\ Tidy(t, cmd[c])
        /\ ~Mortal(cmd'[c])
    BY <1>3, <1>5 DEF Of, Settled, TermInv
  <2>2. cmd'[c].run = "group" => Excused(cmd'[c])
    <3>1. CASE life[t] = "open"
      BY <1>3, <2>1, <3>1 DEF Excused
    <3>2. CASE life[t] # "open"
      BY <2>1, <3>2 DEF Tidy, Alive, Moves, Excused
    <3> QED BY <3>1, <3>2
  <2> QED BY <1>2, <1>7, <2>1, <2>2 DEF Tidy, Alive
<1>6. /\ \A s \in Terms \ (Terms \ {t}) : s = t
      /\ Terms \ {t} \in SUBSET Terms
  OBVIOUS
<1> QED BY <1>3, <1>4, <1>5, <1>6, <1>7, TermAges

LEMMA TermNext == TypeOK /\ OwnInv /\ TaskInv /\ TermInv /\ [Next]_vars => TermInv'
<1> SUFFICES ASSUME TypeOK, OwnInv, TaskInv, TermInv, [Next]_vars PROVE TermInv'
  OBVIOUS
<1>1. ASSUME NEW s \in Terms, ExecBegin(s) PROVE TermInv'
  <2>1. /\ life' = life /\ shell' = shell /\ stopped' = stopped /\ life[s] = "open"
        /\ ~FoundDead(NewCommand(s)) /\ NewCommand(s).run = "new"
        /\ NewCommand(s).term = s
    BY <1>1 DEF ExecBegin, closeVars, Alive, FoundDead, NewCommand
  <2> QED BY <1>1, <2>1, Accepts DEF TermInv, Tidy, Alive, Mortal, Running
<1> SUFFICES ASSUME Settled PROVE TermInv'
  BY <1>1, StepSettles
<1>10. ASSUME \A s \in Terms : Ages(s) PROVE TermInv'
  <2>1. Terms \in SUBSET Terms /\ Terms \ Terms = {}
    OBVIOUS
  <2> QED BY <1>10, <2>1, TermAges
<1>2. ASSUME UNCHANGED <<life, shell, stopped>> PROVE TermInv'
  BY <1>2, <1>10 DEF Ages, Alive, TypeOK
<1>3. ASSUME NEW s \in Terms, OpenTerm(s) \/ CloseSleeps(s) \/ CloseEnds(s)
      PROVE  TermInv'
  <2>1. \A t \in Terms : Ages(t)
    BY <1>3 DEF Ages, OpenTerm, CloseSleeps, CloseEnds, Alive, TypeOK, procVars
  <2> QED BY <2>1, <1>10
<1>4. ASSUME NEW s \in Terms, CloseByClient(s) \/ JanitorCloses(s) PROVE TermInv'
  BY <1>4, TermClose DEF CloseByClient, JanitorCloses
<1>11. ASSUME NEW s \in Terms, Signal(s) \/ Interrupt(s) PROVE TermInv'
  <2>1. \A t \in Terms : Ages(t)
    BY <1>11, SignalSteps DEF Ages, Alive, TypeOK, closeVars
  <2> QED BY <2>1, <1>10
<1>5. ASSUME NEW s \in Terms, Clear(s) \/ JanitorSkips(s) PROVE UNCHANGED <<life, shell, stopped>>
  BY <1>5 DEF Clear, JanitorSkips, procVars, closeVars
<1>6. ASSUME JanitorWakes \/ JanitorRests PROVE UNCHANGED <<life, shell, stopped>>
  BY <1>6 DEF JanitorWakes, JanitorRests, procVars, closeVars
<1>7. ASSUME NEW c \in Commands, ExecMonitors(c) \/ ExecReturns(c)
      PROVE  UNCHANGED <<life, shell, stopped>>
  BY <1>7 DEF ExecMonitors, ExecReturns, procVars, closeVars
<1>8. ASSUME OnlyCommands PROVE UNCHANGED <<life, shell, stopped>>
  BY <1>8 DEF OnlyCommands, closeVars
<1>9. CASE UNCHANGED vars
  BY <1>2, <1>9 DEF vars, procVars, closeVars
<1> QED
  BY <1>1, <1>2, <1>3, <1>4, <1>5, <1>6, <1>7, <1>8, <1>9, <1>11, CommandSteps, TermShut
  DEF Next, Closes, Handler, Janitor

-----------------------------------------------------------------------------
(* The pending command is the only one that may be incomplete.             *)

PendInv ==
  /\ \A c \in Commands : pending[cmd[c].term] = c \/ Completed(c)
  /\ \A s \in Terms : pending[s] # None =>
       cmd[pending[s]].term = s /\ \A c \in Of(s) : c <= pending[s]

\* What an earlier command of a terminal leaves running was believed over.
OrderInv ==
  \A c, d \in Commands :
    c < d /\ cmd[c].term = cmd[d].term /\ cmd[c].run \in Running => cmd[c].by = "foreground_pgid"

LEMMA TaskNext == TypeOK /\ OwnInv /\ TaskInv /\ [Next]_vars => TaskInv'
<1> SUFFICES ASSUME TypeOK, OwnInv, TaskInv, [Next]_vars PROVE TaskInv'
  OBVIOUS
<1>1. task \in [Terms -> 0..Len(cmd)] /\ cmd \in Seq(CommandRecord)
  BY DEF TypeOK
<1>2. ASSUME NEW s \in Terms, ExecBegin(s) PROVE TaskInv'
  BY <1>1, <1>2, Accepts DEF TaskInv, ExecBegin, Commands, None
<1> SUFFICES ASSUME Settled PROVE TaskInv'
  BY <1>2, StepSettles
<1>3. ASSUME UNCHANGED task PROVE TaskInv'
  BY <1>1, <1>3 DEF TaskInv, Settled, Moves, Commands, None
<1>4. ASSUME NEW c \in Commands, ExecMonitors(c) PROVE TaskInv'
  <2>1. cmd'[c].mon = "poll" /\ c # None
    BY <1>1, <1>4 DEF ExecMonitors, Record, CommandRecord, Commands, None
  <2> QED BY <1>1, <1>4, <2>1 DEF ExecMonitors, TaskInv, Settled, Moves, Commands, None
<1>5. ASSUME Next, ~\E c \in Commands : ExecMonitors(c), ~\E s \in Terms : ExecBegin(s)
      PROVE  UNCHANGED task
  BY <1>5, CommandSteps, SignalSteps
  DEF Next, OpenTerm, Clear, ShellDies, CloseByClient, Closes, CloseSleeps, CloseShell, CloseEnds,
     Close, Handler, ExecReturns, Janitor, JanitorWakes, JanitorRests, JanitorCloses, JanitorSkips,
     OnlyCommands
<1> QED BY <1>2, <1>3, <1>4, <1>5 DEF vars

LEMMA PendNext == TypeOK /\ OwnInv /\ TaskInv /\ PendInv /\ [Next]_vars => PendInv'
<1> SUFFICES ASSUME TypeOK, OwnInv, TaskInv, PendInv, [Next]_vars PROVE PendInv'
  OBVIOUS
<1>1. /\ pending \in [Terms -> 0..Len(cmd)] /\ cmd \in Seq(CommandRecord)
      /\ \A c \in Commands : cmd[c] \in CommandRecord /\ cmd[c].term \in Terms
  <2>1. \A c \in Commands : cmd[c] \in CommandRecord
    BY DEF TypeOK, Commands
  <2>2. \A r \in CommandRecord : r.term \in Terms
    BY DEF CommandRecord
  <2> QED BY <2>1, <2>2 DEF TypeOK
<1>2. ASSUME NEW s \in Terms, ExecBegin(s) PROVE PendInv'
  <2>1. NewCommand(s).term = s /\ pending' = [pending EXCEPT ![s] = Len(cmd) + 1]
    BY <1>2 DEF ExecBegin, NewCommand
  <2>2. \A c \in Commands : cmd[c].term = s => Completed(c)
    BY <1>2 DEF ExecBegin, Busy, PendInv, Commands, None
  <2>3. ASSUME NEW c \in Commands' PROVE pending'[cmd'[c].term] = c \/ Completed(c)'
    <3>1. CASE c \in Commands
      <4>1. cmd'[c] = cmd[c]
        BY <1>2, <3>1, Accepts
      <4>2. CASE cmd[c].term = s
        BY <2>2, <3>1, <4>1, <4>2 DEF Completed
      <4>3. CASE cmd[c].term # s
        BY <1>1, <2>1, <3>1, <4>1, <4>3 DEF PendInv, Completed
      <4> QED BY <4>2, <4>3
    <3>2. CASE c = Len(cmd) + 1
      BY <1>1, <1>2, <2>1, <3>2, Accepts
    <3> QED BY <1>2, <2>3, <3>1, <3>2, Accepts
  <2>4. ASSUME NEW t \in Terms, pending'[t] # None
        PROVE  cmd'[pending'[t]].term = t /\ \A c \in Of(t)' : c <= pending'[t]
    <3>1. /\ \A c \in Commands : cmd'[c] = cmd[c]
          /\ cmd'[Len(cmd) + 1].term = s /\ Commands' = Commands \cup {Len(cmd) + 1}
      BY <1>2, <2>1, Accepts
    <3>2. CASE t = s
      BY SMTT(30), <1>1, <2>1, <3>1, <3>2 DEF Of, Commands
    <3>3. CASE t # s
      <4>1. pending'[t] = pending[t] /\ pending[t] \in Commands
        BY <1>1, <2>1, <2>4, <3>3 DEF Commands, None
      <4>2. cmd[pending[t]].term = t /\ \A c \in Of(t) : c <= pending[t]
        BY <2>4, <4>1 DEF PendInv
      <4> QED BY <3>1, <3>3, <4>1, <4>2 DEF Of
    <3> QED BY <3>2, <3>3
  <2> QED BY <2>3, <2>4 DEF PendInv
<1> SUFFICES ASSUME Settled PROVE PendInv'
  BY <1>2, StepSettles
<1>3. /\ Commands' = Commands
      /\ \A c \in Commands : cmd'[c].term = cmd[c].term /\ (Completed(c) => Completed(c)')
      /\ \A s \in Terms : Of(s)' = Of(s)
  <2>1. Commands' = Commands
    BY <1>1, SettledSeq
  <2>2. \A c \in Commands : cmd'[c].term = cmd[c].term /\ (Completed(c) => Completed(c)')
    BY DEF Settled, Moves, Completed
  <2> QED BY <2>1, <2>2 DEF Of
<1>4. ASSUME NEW s \in Terms, ~Busy(s), pending' = [pending EXCEPT ![s] = None] PROVE PendInv'
  <2>1. ASSUME NEW c \in Commands PROVE pending'[cmd'[c].term] = c \/ Completed(c)'
    BY <1>1, <1>3, <1>4 DEF PendInv, Busy, Commands, None
  <2>2. ASSUME NEW t \in Terms, pending'[t] # None
        PROVE  cmd'[pending'[t]].term = t /\ \A c \in Of(t)' : c <= pending'[t]
    BY <1>1, <1>3, <1>4, <2>2 DEF PendInv, Commands, None
  <2> QED BY <1>3, <2>1, <2>2 DEF PendInv
<1>5. ASSUME UNCHANGED pending PROVE PendInv'
  BY <1>1, <1>3, <1>5 DEF PendInv, Commands, None
<1>6. ASSUME NEW s \in Terms, Clear(s) PROVE PendInv'
  BY <1>4, <1>6 DEF Clear
<1>7. ASSUME NEW c \in Commands, ExecReturns(c) PROVE PendInv'
  BY <1>1, <1>4, <1>7 DEF ExecReturns, Busy
<1>8. ASSUME Next, ~\E c \in Commands : ExecReturns(c), ~\E s \in Terms : ExecBegin(s) \/ Clear(s)
      PROVE  UNCHANGED pending
  BY <1>8, CommandSteps, SignalSteps
  DEF Next, OpenTerm, ShellDies, CloseByClient, Closes, CloseSleeps, CloseShell, CloseEnds,
     Close, Handler, ExecMonitors, Janitor, JanitorWakes, JanitorRests, JanitorCloses, JanitorSkips,
     OnlyCommands
<1> QED BY <1>2, <1>5, <1>6, <1>7, <1>8 DEF vars

LEMMA OrderNext ==
  TypeOK /\ OwnInv /\ TaskInv /\ TermInv /\ PendInv /\ OrderInv /\ [Next]_vars => OrderInv'
<1> SUFFICES ASSUME TypeOK, OwnInv, TaskInv, TermInv, PendInv, OrderInv, [Next]_vars
             PROVE  OrderInv'
  OBVIOUS
<1>1. /\ pending \in [Terms -> 0..Len(cmd)] /\ cmd \in Seq(CommandRecord)
      /\ \A c \in Commands : cmd[c] \in CommandRecord /\ cmd[c].term \in Terms
  <2>1. \A c \in Commands : cmd[c] \in CommandRecord
    BY DEF TypeOK, Commands
  <2>2. \A r \in CommandRecord : r.term \in Terms
    BY DEF CommandRecord
  <2> QED BY <2>1, <2>2 DEF TypeOK
<1>2. ASSUME NEW s \in Terms, ExecBegin(s) PROVE OrderInv'
  <2>1. \A c \in Commands : cmd[c].term = s => Completed(c) /\ ~FoundDead(cmd[c])
    BY <1>2 DEF ExecBegin, Busy, PendInv, TermInv, Tidy, Commands, None
  <2>2. ASSUME NEW c \in Commands, cmd[c].term = s, cmd[c].run \in Running
        PROVE  cmd[c].by = "foreground_pgid"
    BY <1>1, <2>1, <2>2
    DEF OwnInv, Own, Completed, FoundDead, CommandRecord, Ready, Past, Running
  <2>3. NewCommand(s).term = s
    BY DEF NewCommand
  <2> QED BY SMTT(40), <1>1, <1>2, <2>2, <2>3, Accepts DEF OrderInv, Commands
<1>3. CASE Settled
  <2>1. Commands' = Commands
    BY <1>1, <1>3, SettledSeq
  <2>2. ASSUME NEW c \in Commands, NEW d \in Commands, c < d, cmd'[c].term = cmd'[d].term,
               cmd'[c].run \in Running
        PROVE  cmd'[c].by = "foreground_pgid"
    <3>1. cmd[c].term = cmd[d].term /\ Moves(cmd[c], cmd'[c])
      BY <1>3, <2>2 DEF Settled, Moves
    <3>2. Completed(c)
      BY <1>1, <2>2, <3>1 DEF PendInv, Of, Commands, None
    <3>3. ~cmd[c].typing
      BY <3>2 DEF OwnInv, Own, Completed
    <3>4. cmd[c].run \in Running /\ cmd'[c].by = cmd[c].by
      BY <2>2, <3>1, <3>2, <3>3 DEF Moves, Completed
    <3> QED BY <2>2, <3>1, <3>4 DEF OrderInv
  <2> QED BY <2>1, <2>2 DEF OrderInv
<1> QED BY <1>2, <1>3, StepSettles

-----------------------------------------------------------------------------
(* The theorems.                                                           *)

IInv == TypeOK /\ OwnInv /\ TaskInv /\ TermInv /\ PendInv /\ OrderInv

LEMMA Invariant == Spec => []IInv
<1>1. Init => IInv
  BY TypeInit DEF Init, IInv, OwnInv, TaskInv, TermInv, PendInv, OrderInv, Commands, None
<1>2. IInv /\ [Next]_vars => IInv'
  BY TypeNext, OwnNext, TaskNext, TermNext, PendNext, OrderNext DEF IInv
<1> QED BY <1>1, <1>2, PTL DEF Spec

\* The types of all variables, and the bounds on terminals and commands
\* (_ensure_can_open).
THEOREM TypeCorrect == Spec => []TypeOK
<1>1. IInv => TypeOK
  BY DEF IInv
<1> QED BY <1>1, Invariant, PTL

\* terminal_exec never types a command over one that may still run, unless
\* that one was believed over because the foreground was given back.
THEOREM CommandsDoNotOverlap == Spec => []NoOverlap
<1>1. IInv => NoOverlap
  BY DEF IInv, OrderInv, NoOverlap
<1> QED BY <1>1, Invariant, PTL

\* A marker or a done file is never taken for the end of a command that has
\* not come to it (_monitor_command).
THEOREM MarkersAreTrue == Spec => []CompletionIsTrue
<1>1. IInv => CompletionIsTrue
  BY DEF IInv, OwnInv, Own, CompletionIsTrue, Ready, Past
<1> QED BY <1>1, Invariant, PTL

\* terminal_close leaves no program behind but one that has ignored the hang-up,
\* and that ignored SIGTERM too or was not in the foreground to get it.
THEOREM CloseIsClean == Spec => []CloseStrandsNothing
<1>1. IInv => CloseStrandsNothing
  <2>1. ASSUME IInv, NEW c \in Commands, life[cmd[c].term] \in {"shut", "gone"},
               cmd[c].run \in Running
        PROVE  "SIGHUP" \in cmd[c].escaped /\ cmd[c].escaped \cap {"look", "SIGTERM"} # {}
    <3>1. Own(cmd[c]) /\ Tidy(cmd[c].term, cmd[c])
      BY <2>1 DEF IInv, OwnInv, TermInv
    <3>2. "SIGHUP" \in cmd[c].escaped
      BY <2>1, <3>1 DEF Tidy, Mortal
    <3>3. Excused(cmd[c])
      BY <2>1, <3>1, <3>2 DEF Own, Tidy, Alive
    <3> QED BY <3>2, <3>3 DEF Excused
  <2> QED BY <2>1 DEF IInv, TermInv, CloseStrandsNothing, Of
<1> QED BY <1>1, Invariant, PTL
=============================================================================
