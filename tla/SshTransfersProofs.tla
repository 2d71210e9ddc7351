------------------------- MODULE SshTransfersProofs -------------------------
(***************************************************************************)
(* Proofs about Commands and SshTransfers, for any number of processes and *)
(* any budget.  Whatever a group has left after a signal is what the       *)
(* signal cannot end, because a fork inherits; and the bytes read and the  *)
(* bytes in the pipes are always those written.                            *)
(***************************************************************************)
EXTENDS SshTransfers, TLAPS

USE CommandAssumption, TransferAssumption

\* What a step does to the processes and to the call.
CmdStep ==
  \/ \E k \in {"shell", "argv", "ssh"} : Spawn(k) \/ FailsAtOnce(k)
  \/ \E c \in {"ok", "fail"} : LeaderEnds(c)
  \/ Processes \/ Loop \/ Timers \/ Withdrawn \/ Forget

LEMMA StepOfCall == Next => CmdStep \/ UNCHANGED cmdVars
<1> SUFFICES ASSUME Next PROVE CmdStep \/ UNCHANGED cmdVars
  OBVIOUS
<1>1. ASSUME NEW k \in Kinds, Command(k) PROVE CmdStep
  BY <1>1 DEF Command, SpawnFails, CmdStep
<1>2. CASE Refusal
  BY <1>2 DEF Refusal, ShellRefuses, ArgvRefuses, SshRefuses, CmdStep
<1>3. CASE Upload \/ Download
  BY <1>3 DEF Upload, Download
<1>4. CASE Handler
  BY <1>4 DEF Handler, Runs, SpawnFails, Raises, UploadCopied, UploadCommitted, Cleaned,
     UploadChecked, DownloadChecked, DownloadCopied, Came, Continues, Reaches, Joined, CmdStep
<1>5. CASE Threads
  BY <1>5 DEF Threads, FreezeOpens, FreezeEnds, FreezeFails, PublishRefuses, PublishStages,
     PublishWrites, PublishFails, Publishes, ThreadGoes
<1>6. CASE JoinCancelled \/ Others
  BY <1>6 DEF JoinCancelled, Others
<1>7. CASE Remote
  BY <1>7 DEF Remote, UploadBegins, UploadArrives, DownloadBegins, DownloadArrives, Moves, Links,
     Unlinks, Cleans, Hashes, ScriptBegins, RemoteFails, Begins, Script
<1>8. CASE Loop \/ Timers \/ Withdrawn
  BY <1>8 DEF CmdStep
<1>9. CASE Processes
  BY <1>9 DEF CmdStep
<1>11. CASE Assistants
  BY <1>11 DEF Assistants, Fork, Processes, CmdStep
<1>10. ASSUME NEW c \in {"ok", "fail"}, ClientEnds(c) PROVE CmdStep
  BY <1>10 DEF ClientEnds, CmdStep
<1> QED BY <1>1, <1>2, <1>3, <1>4, <1>5, <1>6, <1>7, <1>8, <1>9, <1>10, <1>11 DEF Next

-----------------------------------------------------------------------------
(* The type invariant of the call.                                         *)

LEMMA CmdTypeNext == CmdTypeOK /\ CmdStep => CmdTypeOK'
<1> SUFFICES ASSUME CmdTypeOK, CmdStep PROVE CmdTypeOK'
  OBVIOUS
<1> USE DEF CmdTypeOK, callVars, setVars, outVars, OnlyCall, Still, Over, After, Strike
<1>1. ASSUME NEW k \in {"shell", "argv", "ssh"}, Spawn(k) \/ FailsAtOnce(k) PROVE CmdTypeOK'
  BY <1>1 DEF Spawn, FailsAtOnce
<1>2. ASSUME NEW c \in {"ok", "fail"}, LeaderEnds(c) PROVE CmdTypeOK'
  BY <1>2 DEF LeaderEnds
<1>3. ASSUME NEW p \in live, NEW k \in Kids, Fork(p, k) PROVE CmdTypeOK'
  BY <1>3 DEF Fork
<1>4. ASSUME NEW p \in live, Writes(p) PROVE CmdTypeOK'
  BY <1>4 DEF Writes
<1>5. ASSUME NEW k \in Kids, KidEnds(k) PROVE CmdTypeOK'
  BY <1>5 DEF KidEnds
<1>6. CASE Reap \/ Notice \/ Watches \/ InputBreaks \/ Exits
  BY <1>6 DEF Reap, Notice, Watches, InputBreaks, Exits
<1>7. ASSUME NEW n \in 1..PipeSize, Drain(n) PROVE CmdTypeOK'
  BY <1>7 DEF Drain, Room
<1>8. ASSUME NEW w \in {"timeout", "cancel", "broken"}, Terminate(w) PROVE CmdTypeOK'
  BY <1>8 DEF Terminate
<1>9. CASE GraceHeeded \/ Killed
  BY <1>9 DEF GraceHeeded, Killed
<1>10. CASE GraceOver
  BY <1>10 DEF GraceOver
<1>11. CASE Returns
  BY <1>11 DEF Returns
<1>12. CASE CancelSpawn \/ CancelAnew
  BY <1>12 DEF CancelSpawn, CancelAnew
<1>13. CASE Forget
  <2>1. pipe' \in 0..PipeSize /\ wrote' \in 0..MaxBytes /\ used' \in 0..Limit /\ seen' \in Nat
    BY <1>13 DEF Forget
  <2> QED BY <1>13, <2>1 DEF Forget
<1> QED
  BY <1>1, <1>2, <1>3, <1>4, <1>5, <1>6, <1>7, <1>8, <1>9, <1>10, <1>11, <1>12, <1>13
  DEF CmdStep, Processes, Loop, Timers, Withdrawn, TimesOut, InputFails, Cancel

-----------------------------------------------------------------------------
(* What is left of the group.                                              *)

\* The course of a call; its process; and what a signal has left.
CourseInv ==
  /\ pc \in {"idle", "spawn", "broken", "wait"} => termBy = "none"
  /\ pc # "over" => outcome = "none"
  /\ pc = "idle" => live = {} /\ code = "none" /\ exit = "no" /\ pipe = 0 /\ wrote = 0
                    /\ used = 0 /\ seen = 0 /\ truncated = FALSE
  /\ pc = "gather" => exit # "no"
  /\ pc = "broken" => why = "broken"
  /\ pc = "grace" => termBy = "SIGTERM"
  /\ pc = "kill" => Leader \notin live
  /\ pc = "over" /\ Leader \in live =>
       outcome = "cancelled" /\ (termBy = "SIGTERM" \/ (termBy = "none" /\ why = "broken"))
LeaderInv == Leader \in live => code = "none" /\ exit = "no"
GroupInv ==
  /\ termBy # "none" => Group \subseteq deaf
  /\ termBy = "SIGKILL" => Group = {}

\* Every byte is read or still in the pipes, and accounted for.
BudgetInv ==
  /\ seen + pipe = wrote
  /\ used = (IF seen < Limit THEN seen ELSE Limit)
  /\ truncated <=> seen > Limit
  /\ pc = "over" /\ outcome = "returned" => pipe = 0 /\ Holders = {}

CallInv == CourseInv /\ LeaderInv /\ GroupInv /\ BudgetInv

LEMMA CourseNext == CmdTypeOK /\ CourseInv /\ LeaderInv /\ CmdStep => CourseInv' /\ LeaderInv'
<1> SUFFICES ASSUME CmdTypeOK, CourseInv, LeaderInv, CmdStep PROVE CourseInv' /\ LeaderInv'
  OBVIOUS
<1> USE DEF CmdTypeOK, CourseInv, LeaderInv, callVars, setVars, outVars, OnlyCall, Still, Over,
        After, Strike, Started
<1>1. ASSUME NEW k \in {"shell", "argv", "ssh"}, Spawn(k) \/ FailsAtOnce(k)
      PROVE  CourseInv' /\ LeaderInv'
  BY <1>1 DEF Spawn, FailsAtOnce
<1>2. ASSUME NEW c \in {"ok", "fail"}, LeaderEnds(c) PROVE CourseInv' /\ LeaderInv'
  BY <1>2 DEF LeaderEnds
<1>3. ASSUME NEW p \in live, NEW k \in Kids, Fork(p, k) PROVE CourseInv' /\ LeaderInv'
  BY <1>3 DEF Fork
<1>4. ASSUME NEW p \in live, Writes(p) PROVE CourseInv' /\ LeaderInv'
  BY <1>4 DEF Writes, Holders
<1>5. ASSUME NEW k \in Kids, KidEnds(k) PROVE CourseInv' /\ LeaderInv'
  BY <1>5 DEF KidEnds
<1>6. CASE Reap \/ Notice \/ Watches \/ InputBreaks \/ Exits
  BY <1>6 DEF Reap, Notice, Watches, InputBreaks, Exits
<1>7. ASSUME NEW n \in 1..PipeSize, Drain(n) PROVE CourseInv' /\ LeaderInv'
  BY <1>7 DEF Drain
<1>8. ASSUME NEW w \in {"timeout", "cancel", "broken"}, Terminate(w), pc \in {"wait", "broken"}
      PROVE  CourseInv' /\ LeaderInv'
  <2>1. CASE exit = "noticed" \/ Vanished
    BY <1>8, <2>1 DEF Terminate, Vanished
  <2>2. CASE exit # "noticed" /\ ~Vanished
    BY <1>8, <2>2 DEF Terminate, Mortal
  <2> QED BY <2>1, <2>2
<1>9. CASE GraceHeeded \/ Killed
  BY <1>9 DEF GraceHeeded, Killed
<1>10. CASE GraceOver
  BY <1>10 DEF GraceOver, Group
<1>11. CASE Returns
  BY <1>11 DEF Returns
<1>12. CASE CancelSpawn \/ CancelAnew
  BY <1>12 DEF CancelSpawn, CancelAnew
<1>13. CASE Forget
  BY <1>13 DEF Forget
<1> QED
  BY <1>1, <1>2, <1>3, <1>4, <1>5, <1>6, <1>7, <1>8, <1>9, <1>10, <1>11, <1>12, <1>13
  DEF CmdStep, Processes, Loop, Timers, Withdrawn, TimesOut, InputFails, Cancel

LEMMA GroupNext == CmdTypeOK /\ CourseInv /\ GroupInv /\ CmdStep => GroupInv'
<1> SUFFICES ASSUME CmdTypeOK, CourseInv, GroupInv, CmdStep PROVE GroupInv'
  OBVIOUS
<1> USE DEF CmdTypeOK, CourseInv, GroupInv, Group, callVars, setVars, outVars, OnlyCall, Still
<1>1. ASSUME NEW k \in {"shell", "argv", "ssh"}, Spawn(k) \/ FailsAtOnce(k) PROVE GroupInv'
  BY <1>1 DEF Spawn, FailsAtOnce
<1>2. ASSUME NEW c \in {"ok", "fail"}, LeaderEnds(c) PROVE GroupInv'
  BY <1>2 DEF LeaderEnds
<1>3. ASSUME NEW p \in live, NEW k \in Kids, Fork(p, k) PROVE GroupInv'
  BY <1>3 DEF Fork
<1>4. ASSUME NEW k \in Kids, KidEnds(k) PROVE GroupInv'
  BY <1>4 DEF KidEnds
<1>5. ASSUME UNCHANGED <<live, away, deaf, termBy>> PROVE GroupInv'
  BY <1>5
<1>6. ASSUME NEW w \in {"timeout", "cancel", "broken"}, Terminate(w), pc \in {"wait", "broken"}
      PROVE  GroupInv'
  <2>1. CASE exit = "noticed"
    BY <1>6, <2>1 DEF Terminate, Vanished
  <2>2. CASE Vanished
    BY <1>6, <2>2 DEF Terminate, Vanished
  <2>3. CASE exit # "noticed" /\ ~Vanished
    BY <1>6, <2>3 DEF Terminate, Mortal, Strike
  <2> QED BY <2>1, <2>2, <2>3
<1>7. CASE GraceOver
  BY <1>7 DEF GraceOver, Strike
<1>8. CASE CancelSpawn
  BY <1>8 DEF CancelSpawn, Strike
<1>9. CASE Forget
  BY <1>9 DEF Forget
<1>10. ASSUME NEW p \in live, Writes(p) PROVE UNCHANGED <<live, away, deaf, termBy>>
  BY <1>10 DEF Writes
<1>11. ASSUME NEW n \in 1..PipeSize, Drain(n) PROVE UNCHANGED <<live, away, deaf, termBy>>
  BY <1>11 DEF Drain
<1>12. ASSUME Reap \/ Notice \/ Watches \/ InputBreaks \/ Exits \/ GraceHeeded \/ Killed
              \/ Returns \/ CancelAnew
       PROVE  UNCHANGED <<live, away, deaf, termBy>>
  BY <1>12 DEF Reap, Notice, Watches, InputBreaks, Exits, GraceHeeded, Killed, Returns, CancelAnew
<1> QED
  BY <1>1, <1>2, <1>3, <1>4, <1>5, <1>6, <1>7, <1>8, <1>9, <1>10, <1>11, <1>12
  DEF CmdStep, Processes, Loop, Timers, Withdrawn, TimesOut, InputFails, Cancel

LEMMA BudgetNext == CmdTypeOK /\ CourseInv /\ BudgetInv /\ CmdStep => BudgetInv'
<1> SUFFICES ASSUME CmdTypeOK, CourseInv, BudgetInv, CmdStep PROVE BudgetInv'
  OBVIOUS
<1> USE DEF CmdTypeOK, CourseInv, BudgetInv, Holders, callVars, setVars, outVars, OnlyCall, Still,
        Over, After, Strike, Started
<1>1. ASSUME NEW k \in {"shell", "argv", "ssh"}, Spawn(k) \/ FailsAtOnce(k) PROVE BudgetInv'
  BY <1>1 DEF Spawn, FailsAtOnce
<1>2. ASSUME NEW c \in {"ok", "fail"}, LeaderEnds(c) PROVE BudgetInv'
  BY <1>2 DEF LeaderEnds
<1>3. ASSUME NEW p \in live, NEW k \in Kids, Fork(p, k) PROVE BudgetInv'
  BY <1>3 DEF Fork
<1>4. ASSUME NEW p \in live, Writes(p) PROVE BudgetInv'
  BY <1>4 DEF Writes
<1>5. ASSUME NEW k \in Kids, KidEnds(k) PROVE BudgetInv'
  BY <1>5 DEF KidEnds
<1>6. CASE Reap \/ Notice \/ Watches \/ InputBreaks \/ Exits
  BY <1>6 DEF Reap, Notice, Watches, InputBreaks, Exits
<1>7. ASSUME NEW n \in 1..PipeSize, Drain(n) PROVE BudgetInv'
  <2>1. pc # "over" /\ seen' = seen + n /\ pipe' = pipe - n /\ wrote' = wrote /\ pc' = pc
    BY <1>7 DEF Drain
  <2>2. used' = (IF seen' < Limit THEN seen' ELSE Limit)
    BY <1>7 DEF Drain, Room
  <2>3. truncated' <=> seen' > Limit
    <3>1. truncated' <=> truncated \/ n > Room
      BY <1>7 DEF Drain
    <3>2. (seen > Limit \/ n > Room) <=> seen + n > Limit
      BY DEF Room
    <3> QED BY <2>1, <3>1, <3>2
  <2> QED BY <2>1, <2>2, <2>3
<1>8. ASSUME NEW w \in {"timeout", "cancel", "broken"}, Terminate(w), pc \in {"wait", "broken"}
      PROVE  BudgetInv'
  <2>1. CASE exit = "noticed" \/ Vanished
    BY <1>8, <2>1 DEF Terminate, Vanished
  <2>2. CASE exit # "noticed" /\ ~Vanished
    BY <1>8, <2>2 DEF Terminate, Mortal
  <2> QED BY <2>1, <2>2
<1>9. CASE GraceHeeded \/ Killed
  BY <1>9 DEF GraceHeeded, Killed
<1>10. CASE GraceOver
  BY <1>10 DEF GraceOver
<1>11. CASE Returns
  BY <1>11 DEF Returns, Ended, Output
<1>12. CASE CancelSpawn \/ CancelAnew
  BY <1>12 DEF CancelSpawn, CancelAnew
<1>13. CASE Forget
  BY <1>13 DEF Forget
<1> QED
  BY <1>1, <1>2, <1>3, <1>4, <1>5, <1>6, <1>7, <1>8, <1>9, <1>10, <1>11, <1>12, <1>13
  DEF CmdStep, Processes, Loop, Timers, Withdrawn, TimesOut, InputFails, Cancel

LEMMA CallInit == CmdInit => CmdTypeOK /\ CallInv
<1> SUFFICES ASSUME CmdInit PROVE CmdTypeOK /\ CallInv
  OBVIOUS
<1>1. CmdTypeOK
  <2>1. pipe \in 0..PipeSize /\ wrote \in 0..MaxBytes /\ used \in 0..Limit /\ seen \in Nat
    BY DEF CmdInit, NoProcess
  <2> QED BY <2>1 DEF CmdInit, NoProcess, CmdTypeOK
<1>2. CallInv
  BY DEF CmdInit, NoProcess, CallInv, CourseInv, LeaderInv, GroupInv, BudgetInv, Group
<1> QED BY <1>1, <1>2

LEMMA CallNext == CmdTypeOK /\ CallInv /\ [Next]_vars => (CmdTypeOK /\ CallInv)'
<1> SUFFICES ASSUME CmdTypeOK, CallInv, [Next]_vars PROVE (CmdTypeOK /\ CallInv)'
  OBVIOUS
<1>1. CASE CmdStep
  BY <1>1, CmdTypeNext, CourseNext, GroupNext, BudgetNext DEF CallInv
<1>2. CASE UNCHANGED cmdVars
  BY <1>2 DEF cmdVars, callVars, setVars, outVars, CmdTypeOK, CallInv, CourseInv, LeaderInv,
     GroupInv, BudgetInv, Group, Holders
<1> QED BY <1>1, <1>2, StepOfCall DEF vars

LEMMA CallInvariant == Spec => [](CmdTypeOK /\ CallInv)
<1>1. Init => CmdTypeOK /\ CallInv
  BY CallInit DEF Init
<1> QED BY <1>1, CallNext, PTL DEF Spec

\* What _terminate_group leaves of a process group, whenever a call is over.
THEOREM GroupIsEnded == Spec => []NothingStranded
<1>1. CmdTypeOK /\ CallInv => NothingStranded
  BY DEF CallInv, CourseInv, GroupInv, NothingStranded
<1> QED BY <1>1, CallInvariant, PTL

\* A result accounts for every byte written (_Budget.keep, _drain).
THEOREM OutputIsAccounted == Spec => []OutputIsHonest
<1>1. CmdTypeOK /\ CallInv => OutputIsHonest
  BY DEF CallInv, BudgetInv, OutputIsHonest, CmdTypeOK
<1> QED BY <1>1, CallInvariant, PTL

-----------------------------------------------------------------------------
(* The type invariant of a transfer.                                       *)

LEMMA TypeNext == TypeOK /\ [Next]_vars /\ CmdTypeOK' => TypeOK'
<1> SUFFICES ASSUME TypeOK, [Next]_vars, CmdTypeOK' PROVE TypeOK'
  OBVIOUS
<1> USE DEF TypeOK, Contents, Versions, Scripts, wayVars, copyVars, destVars, Go, End
<1>1. ASSUME UNCHANGED sshVars PROVE TypeOK'
  BY <1>1 DEF sshVars
<1>2. CASE Upload \/ Download
  BY <1>2 DEF Upload, Download
<1>3. CASE Raises
  BY <1>3 DEF Raises
<1>4. CASE UploadCopied \/ UploadCommitted \/ Cleaned \/ UploadChecked
  BY <1>4 DEF UploadCopied, UploadCommitted, Cleaned, UploadChecked
<1>5. CASE DownloadChecked \/ DownloadCopied
  BY <1>5 DEF DownloadChecked, DownloadCopied
<1>6. CASE Joined \/ JoinCancelled
  BY <1>6 DEF Joined, JoinCancelled
<1>7. CASE FreezeOpens \/ FreezeEnds \/ FreezeFails
  BY <1>7 DEF FreezeOpens, FreezeEnds, FreezeFails, ThreadGoes, Read
<1>8. CASE PublishRefuses \/ PublishStages \/ PublishWrites \/ PublishFails
  BY <1>8 DEF PublishRefuses, PublishStages, PublishWrites, PublishFails, ThreadGoes
<1>13. CASE Publishes
  <2>1. since' \in BOOLEAN
    BY <1>13, Zenon DEF Publishes
  <2> QED BY <1>13, <2>1 DEF Publishes, ThreadGoes
<1>9. CASE UploadBegins \/ UploadArrives \/ DownloadBegins \/ DownloadArrives
  BY <1>9 DEF UploadBegins, UploadArrives, DownloadBegins, DownloadArrives, Begins, Script, Read
<1>10. CASE Moves \/ Links \/ Unlinks \/ Cleans \/ Hashes
  <2>1. since' \in BOOLEAN
    <3>1. CASE Hashes
      BY <3>1, Zenon DEF Hashes
    <3>2. CASE Moves \/ Links \/ Unlinks \/ Cleans
      BY <3>2 DEF Moves, Links, Unlinks, Cleans
    <3> QED BY <1>10, <3>1, <3>2
  <2> QED BY <1>10, <2>1 DEF Moves, Links, Unlinks, Cleans, Hashes, Script
<1>11. ASSUME NEW s \in Scripts, ScriptBegins(s) \/ RemoteFails(s) PROVE TypeOK'
  BY <1>11 DEF ScriptBegins, RemoteFails, Begins, Script
<1>12. CASE Others
  <2>1. since' \in BOOLEAN
    <3>1. CASE since' = TRUE
      BY <3>1, Zenon
    <3> QED BY <1>12, <3>1 DEF Others
  <2> QED BY <1>12, <2>1 DEF Others
<1> QED
  BY <1>1, <1>2, <1>3, <1>4, <1>5, <1>6, <1>7, <1>8, <1>9, <1>10, <1>11, <1>12, <1>13
  DEF Next, Command, Refusal, Handler, Threads, Remote, Runs, ClientEnds, vars

-----------------------------------------------------------------------------
(* The order of a transfer: what has been done on the remote host.         *)

\* A client that ended well has seen its script through, and the next one is
\* run only after that; while a thread is at work there is no client.
WayInv ==
  /\ op = "none" => at = "none" /\ result = "none" /\ thread = "none"
                    /\ \A s \in Scripts : remote[s] = "none"
  /\ op = "upload" => at \in {"freeze", "copy", "commit", "check", "clean"}
  /\ op = "download" => at \in {"check", "copy", "publish"}
  /\ at \in {"freeze", "publish"} => pc = "idle"
  /\ op # "none" /\ at \in Scripts /\ code = "ok" => remote[at] = "done"
OrderInv ==
  /\ op = "upload" =>
       /\ at \in {"commit", "check"} \/ remote["commit"] # "none" => remote["copy"] = "done"
       /\ at = "check" \/ remote["check"] # "none" => remote["commit"] = "done"
  /\ op = "download" =>
       /\ remote["commit"] = "none" /\ remote["clean"] = "none"
       /\ at # "check" => remote["check"] = "done"

LEMMA WayNext == TypeOK /\ CallInv /\ WayInv /\ OrderInv /\ [Next]_vars => WayInv' /\ OrderInv'
<1> SUFFICES ASSUME TypeOK, CallInv, WayInv, OrderInv, [Next]_vars PROVE WayInv' /\ OrderInv'
  OBVIOUS
<1> USE DEF TypeOK, CallInv, CourseInv, WayInv, OrderInv, Scripts, wayVars, copyVars, destVars,
        cmdVars, callVars, Go, End
<1>1. ASSUME UNCHANGED sshVars, pc = "idle" /\ op # "none" /\ at \in {"freeze", "publish"} => pc' = "idle",
             code' = "ok" => code = "ok" \/ op = "none"
      PROVE  WayInv' /\ OrderInv'
  BY <1>1 DEF sshVars
<1>2. CASE Upload \/ Download
  BY <1>2 DEF Upload, Download
<1>3. CASE Raises
  BY <1>3 DEF Raises, Continues, Reaches, Forget
<1>4. CASE UploadCopied \/ UploadCommitted
  BY <1>4 DEF UploadCopied, UploadCommitted, Came, Continues, Reaches, Forget, Sound, Status
<1>5. CASE Cleaned \/ UploadChecked
  BY <1>5 DEF Cleaned, UploadChecked, Came, Continues, Reaches, Forget
<1>6. CASE DownloadChecked \/ DownloadCopied
  BY <1>6 DEF DownloadChecked, DownloadCopied, Came, Continues, Reaches, Forget, Status, Running
<1>7. CASE Joined \/ JoinCancelled
  BY <1>7 DEF Joined, JoinCancelled, Running
<1>8. CASE FreezeOpens \/ FreezeEnds \/ FreezeFails
  BY <1>8 DEF FreezeOpens, FreezeEnds, FreezeFails, ThreadGoes
<1>9. CASE PublishRefuses \/ PublishStages \/ PublishWrites \/ PublishFails \/ Publishes
  BY <1>9 DEF PublishRefuses, PublishStages, PublishWrites, PublishFails, Publishes, ThreadGoes
<1>10. CASE UploadBegins \/ UploadArrives \/ DownloadBegins \/ DownloadArrives
  BY <1>10 DEF UploadBegins, UploadArrives, DownloadBegins, DownloadArrives, Begins, Client, Script
<1>11. CASE Moves \/ Links \/ Unlinks \/ Cleans \/ Hashes
  BY <1>11 DEF Moves, Links, Unlinks, Cleans, Hashes, Script
<1>12. ASSUME NEW s \in Scripts, ScriptBegins(s) \/ RemoteFails(s) PROVE WayInv' /\ OrderInv'
  BY <1>12 DEF ScriptBegins, RemoteFails, Begins, Client, Script
<1>13. CASE Others
  BY <1>13 DEF Others
<1>14. ASSUME NEW c \in {"ok", "fail"}, ClientEnds(c) PROVE WayInv' /\ OrderInv'
  BY <1>14 DEF ClientEnds, LeaderEnds, sshVars
<1>15. ASSUME NEW k \in Kinds, Command(k) PROVE WayInv' /\ OrderInv'
  BY <1>15, <1>1 DEF Command, Spawn, SpawnFails, FailsAtOnce, Still
<1>16. CASE Refusal
  BY <1>16, <1>1 DEF Refusal, ShellRefuses, ArgvRefuses, SshRefuses, FailsAtOnce, Still
<1>17. CASE Runs
  BY <1>17 DEF Runs, Spawn, SpawnFails, FailsAtOnce, Still, sshVars
<1>18. CASE op = "none" /\ Processes /\ UNCHANGED sshVars
  BY <1>18, <1>1 DEF Processes, Fork, Writes, KidEnds
<1>21. CASE op # "none" /\ Assistants /\ UNCHANGED sshVars
  BY <1>21, <1>1 DEF Assistants, Fork, KidEnds
<1>19. CASE (Loop \/ Timers \/ Withdrawn) /\ UNCHANGED sshVars
  <2>1. pc # "idle" \/ pc' = pc
    BY <1>19 DEF Loop, Timers, Withdrawn, Reap, Notice, Drain, Watches, InputBreaks, Exits, InputFails,
       GraceHeeded, Killed, Returns, TimesOut, GraceOver, CancelSpawn, Cancel, CancelAnew
  <2>2. code' \in {code, "signal"}
    BY <1>19 DEF Loop, Timers, Withdrawn, Reap, Notice, Drain, Watches, InputBreaks, Exits, InputFails,
       GraceHeeded, Killed, Returns, TimesOut, GraceOver, CancelSpawn, Cancel, CancelAnew, Terminate,
       Strike, Still
  <2> QED BY <1>1, <1>19, <2>1, <2>2
<1>20. CASE UNCHANGED vars
  BY <1>1, <1>20 DEF vars
<1> QED
  BY <1>2, <1>3, <1>4, <1>5, <1>6, <1>7, <1>8, <1>9, <1>10, <1>11, <1>12, <1>13, <1>14, <1>15,
     <1>16, <1>17, <1>18, <1>19, <1>20, <1>21
  DEF Next, Handler, Threads, Remote

-----------------------------------------------------------------------------
(* What the files hold on the way.                                         *)

Whole == Versions \cup {"none", "torn"}
Exact == Versions \cup {"none", "unknown"}

\* An upload announces the frozen copy, which may be torn but is complete,
\* and its remote temporary file is complete once scp has ended well.
UploadInv ==
  op = "upload" =>
    /\ digest \in Whole
    /\ thread = "frozen" /\ result = "none" /\ at = "freeze" => staged \in Whole
    /\ thread \in {"none", "freeze", "freezing", "frozen", "failed"}
    /\ remote["copy"] = "done" => temp # "partial"
    /\ remote["check"] = "done" /\ ~since => got = dest
    /\ result = "success" => remote["check"] = "done" /\ got = digest

\* A download announces a version of its source, and nothing else is published.
DownloadInv ==
  op = "download" =>
    /\ digest \in Exact /\ got \in Exact
    /\ thread \in {"none", "publish", "publishing", "written", "published", "failed"}
    /\ thread # "none" => at = "publish"
    /\ thread = "written" => temp = digest
    /\ thread = "published" /\ ~since => dest = digest
    /\ result = "success" => thread = "published"
    /\ dest # "torn"

FilesInv ==
  /\ UploadInv /\ DownloadInv /\ dest # "partial"
  /\ op = "none" => digest = "none" /\ got = "none" /\ dest \in {"none", "old"}

LEMMA FilesNext ==
  TypeOK /\ CallInv /\ WayInv /\ OrderInv /\ FilesInv /\ [Next]_vars => FilesInv'
<1> SUFFICES ASSUME TypeOK, CallInv, WayInv, OrderInv, FilesInv, [Next]_vars PROVE FilesInv'
  OBVIOUS
<1> USE DEF TypeOK, WayInv, OrderInv, FilesInv, UploadInv, DownloadInv, Whole, Exact, Versions,
        Contents, Scripts, wayVars, copyVars, destVars, Go, End
<1>1. ASSUME UNCHANGED sshVars PROVE FilesInv'
  BY <1>1 DEF sshVars
<1>2. CASE Upload \/ Download
  BY <1>2 DEF Upload, Download
<1>3. CASE Raises
  BY <1>3 DEF Raises
<1>4. CASE UploadCopied \/ UploadCommitted
  BY <1>4 DEF UploadCopied, UploadCommitted
<1>5. CASE Cleaned
  BY <1>5 DEF Cleaned
<1>6. CASE UploadChecked
  BY <1>6 DEF UploadChecked, Came, Continues, Reaches, Status, Agrees
<1>7. CASE DownloadChecked
  BY <1>7 DEF DownloadChecked, Came, Continues, Reaches
<1>8. CASE DownloadCopied
  BY <1>8 DEF DownloadCopied, Came, Continues, Reaches
<1>9. CASE Joined
  BY <1>9 DEF Joined, Running
<1>10. CASE JoinCancelled
  BY <1>10 DEF JoinCancelled, Running
<1>11. CASE FreezeOpens \/ FreezeEnds \/ FreezeFails
  BY <1>11 DEF FreezeOpens, FreezeEnds, FreezeFails, ThreadGoes, Read
<1>12. CASE PublishRefuses \/ PublishStages \/ PublishWrites \/ PublishFails
  BY <1>12 DEF PublishRefuses, PublishStages, PublishWrites, PublishFails, ThreadGoes
<1>13. CASE Publishes
  BY <1>13 DEF Publishes, ThreadGoes
<1>14. CASE UploadBegins \/ UploadArrives
  BY <1>14 DEF UploadBegins, UploadArrives, Begins, Client, Script
<1>15. CASE DownloadBegins \/ DownloadArrives
  BY <1>15 DEF DownloadBegins, DownloadArrives, Script, Read
<1>16. CASE Moves
  BY <1>16 DEF Moves, Script
<1>17. CASE Links
  BY <1>17 DEF Links, Script
<1>18. CASE Unlinks \/ Cleans
  BY <1>18 DEF Unlinks, Cleans, Script
<1>19. CASE Hashes
  BY <1>19 DEF Hashes, Script
<1>20. ASSUME NEW s \in Scripts, ScriptBegins(s) \/ RemoteFails(s) PROVE FilesInv'
  BY <1>20 DEF ScriptBegins, RemoteFails, Begins, Script
<1>21. CASE Others
  BY <1>21 DEF Others
<1> QED
  BY <1>1, <1>2, <1>3, <1>4, <1>5, <1>6, <1>7, <1>8, <1>9, <1>10, <1>11, <1>12, <1>13, <1>14,
     <1>15, <1>16, <1>17, <1>18, <1>19, <1>20, <1>21
  DEF Next, Command, Refusal, Handler, Threads, Remote, Runs, ClientEnds, vars

-----------------------------------------------------------------------------
(* What a transfer leaves on the host.                                     *)

\* The private copy is the freezing thread's, then the coroutine's, then the
\* client's that is run to fill it; the temporary file is the publishing
\* thread's.
ResidueInv ==
  /\ op = "none" => temp = "none" /\ staged = "none"
  /\ thread \in {"freeze", "freezing"} => at = "freeze" /\ result \in {"none", "cancelled"}
  /\ result # "none" =>
       staged = "none" \/ (result = "cancelled" /\ (at = "freeze" \/ (op = "download" /\ at = "copy")))
  /\ op = "download" =>
       /\ thread \notin {"publishing", "written"} => temp = "none"
       /\ remote["copy"] # "none" => at # "check"
       /\ result \notin {"none", "cancelled"} => pc = "idle"

LEMMA ResidueNext ==
  TypeOK /\ CallInv /\ WayInv /\ OrderInv /\ DownloadInv /\ ResidueInv /\ [Next]_vars => ResidueInv'
<1> SUFFICES ASSUME TypeOK, CallInv, WayInv, OrderInv, DownloadInv, ResidueInv, [Next]_vars
             PROVE  ResidueInv'
  OBVIOUS
<1> USE DEF TypeOK, CallInv, CourseInv, WayInv, OrderInv, DownloadInv, ResidueInv, Scripts, wayVars,
        copyVars, destVars, cmdVars, callVars, Go, End
<1>1. ASSUME UNCHANGED sshVars, pc = "idle" /\ op # "none" => pc' = "idle" \/ result = "none"
      PROVE  ResidueInv'
  BY <1>1 DEF sshVars
<1>2. CASE Upload \/ Download
  BY <1>2 DEF Upload, Download
<1>3. CASE Raises
  BY <1>3 DEF Raises, Continues, Reaches, Running, Forget
<1>4. CASE UploadCopied \/ UploadCommitted
  BY <1>4 DEF UploadCopied, UploadCommitted, Came, Continues, Reaches, Running, Forget
<1>5. CASE Cleaned \/ UploadChecked
  BY <1>5 DEF Cleaned, UploadChecked, Came, Continues, Reaches, Running, Forget
<1>6. CASE DownloadChecked \/ DownloadCopied
  BY <1>6 DEF DownloadChecked, DownloadCopied, Came, Continues, Reaches, Running, Forget
<1>7. CASE Joined
  BY <1>7 DEF Joined, Running
<1>8. CASE JoinCancelled
  BY <1>8 DEF JoinCancelled, Running
<1>9. CASE FreezeOpens \/ FreezeEnds \/ FreezeFails
  BY <1>9 DEF FreezeOpens, FreezeEnds, FreezeFails, ThreadGoes
<1>10. CASE PublishRefuses \/ PublishStages \/ PublishWrites
  BY <1>10 DEF PublishRefuses, PublishStages, PublishWrites, ThreadGoes
<1>11. CASE PublishFails \/ Publishes
  BY <1>11 DEF PublishFails, Publishes, ThreadGoes
<1>12. CASE UploadBegins \/ UploadArrives
  BY <1>12 DEF UploadBegins, UploadArrives, Begins, Client, Script
<1>13. CASE DownloadBegins \/ DownloadArrives
  BY <1>13 DEF DownloadBegins, DownloadArrives, Script
<1>14. CASE Moves \/ Links \/ Unlinks \/ Cleans \/ Hashes
  BY <1>14 DEF Moves, Links, Unlinks, Cleans, Hashes, Script
<1>15. ASSUME NEW s \in Scripts, ScriptBegins(s) \/ RemoteFails(s) PROVE ResidueInv'
  BY <1>15 DEF ScriptBegins, RemoteFails, Begins, Client, Script
<1>16. CASE Others
  BY <1>16 DEF Others
<1>17. ASSUME NEW c \in {"ok", "fail"}, ClientEnds(c) PROVE ResidueInv'
  BY <1>1, <1>17 DEF ClientEnds, LeaderEnds
<1>18. ASSUME NEW k \in Kinds, Command(k) PROVE ResidueInv'
  BY <1>1, <1>18 DEF Command
<1>19. CASE Refusal
  BY <1>1, <1>19 DEF Refusal
<1>20. CASE Runs
  BY <1>1, <1>20 DEF Runs, Running
<1>21. CASE op = "none" /\ Processes /\ UNCHANGED sshVars
  BY <1>1, <1>21
<1>24. CASE op # "none" /\ Assistants /\ UNCHANGED sshVars
  BY <1>1, <1>24 DEF Assistants, Fork, KidEnds
<1>22. CASE (Loop \/ Timers \/ Withdrawn) /\ UNCHANGED sshVars
  <2>1. pc # "idle"
    BY <1>22 DEF Loop, Timers, Withdrawn, Reap, Notice, Drain, Watches, InputBreaks, Exits, InputFails,
       GraceHeeded, Killed, Returns, TimesOut, GraceOver, CancelSpawn, Cancel, CancelAnew, Started
  <2> QED BY <1>1, <1>22, <2>1
<1>23. CASE UNCHANGED vars
  BY <1>1, <1>23 DEF vars
<1> QED
  BY <1>2, <1>3, <1>4, <1>5, <1>6, <1>7, <1>8, <1>9, <1>10, <1>11, <1>12, <1>13, <1>14, <1>15,
     <1>16, <1>17, <1>18, <1>19, <1>20, <1>21, <1>22, <1>23, <1>24
  DEF Next, Handler, Threads, Remote

-----------------------------------------------------------------------------
(* The theorems about transfers.                                           *)

IInv == TypeOK /\ CallInv /\ WayInv /\ OrderInv /\ FilesInv /\ ResidueInv

LEMMA Invariant == Spec => []IInv
<1>1. Init => IInv
  <2> SUFFICES ASSUME Init PROVE IInv
    OBVIOUS
  <2>1. CmdTypeOK /\ CallInv
    BY CallInit DEF Init
  <2>2. TypeOK
    <3>1. others \in 0..MaxOthers
      BY DEF Init
    <3>3. since \in BOOLEAN
      BY Zenon DEF Init
    <3>2. remote \in [Scripts -> {"none", "running", "linked", "done", "failed"}]
      BY DEF Init
    <3> QED BY <2>1, <3>1, <3>2, <3>3 DEF Init, TypeOK, Contents, Versions, Scripts
  <2>3. WayInv /\ OrderInv /\ FilesInv /\ ResidueInv
    BY DEF Init, CmdInit, WayInv, OrderInv, FilesInv, UploadInv, DownloadInv, ResidueInv, Scripts
  <2> QED BY <2>1, <2>2, <2>3 DEF IInv
<1>2. IInv /\ [Next]_vars => IInv'
  <2>1. TypeOK => CmdTypeOK
    BY DEF TypeOK
  <2> QED BY <2>1, CallNext, TypeNext, WayNext, FilesNext, ResidueNext DEF IInv, FilesInv
<1> QED BY <1>1, <1>2, PTL DEF Spec

\* The types of all variables of a call and of a transfer.
THEOREM TypeCorrect == Spec => []TypeOK
<1>1. IInv => TypeOK
  BY DEF IInv
<1> QED BY <1>1, Invariant, PTL

\* A destination never holds a part of a file, nor a download a mixture of
\* two versions (commit_script, _publish_download).
THEOREM DestinationIsWhole == Spec => []DestIsWhole
<1>1. IInv => DestIsWhole
  BY DEF IInv, FilesInv, DownloadInv, DestIsWhole
<1> QED BY <1>1, Invariant, PTL

\* Success means that the destination has been what its SHA-256 says
\* (ssh_upload, ssh_download).
THEOREM SuccessIsTrue == Spec => []SuccessIsDelivered
<1>1. IInv => SuccessIsDelivered
  BY DEF IInv, TypeOK, FilesInv, UploadInv, DownloadInv, WayInv, SuccessIsDelivered
<1> QED BY <1>1, Invariant, PTL

\* Whatever fails or is cancelled in between, no copy is left in the state
\* directory and no temporary file beside a download's destination, but for
\* the copy that a thread or a client still writes for a call cancelled then
\* (the finally blocks of ssh_upload, ssh_download and _publish_download).
THEOREM NoResidueIsLeft == Spec => []NoLocalResidue
<1>1. IInv => NoLocalResidue
  BY DEF IInv, ResidueInv, NoLocalResidue
<1> QED BY <1>1, Invariant, PTL

\* Without overwrite nothing that is there is replaced (ln, rename_noreplace).
THEOREM NothingReplaced == Spec => KeepsOthers
<1> DEFINE Kept == ~overwrite /\ dest # "none" /\ others' = others => dest' = dest
<1>1. TypeOK /\ [Next]_vars => Kept
  <2> SUFFICES ASSUME TypeOK, [Next]_vars, ~overwrite, dest # "none", others' = others
               PROVE  dest' = dest
    OBVIOUS
  <2> USE DEF TypeOK, destVars, sshVars
  <2>1. CASE Upload \/ Download \/ JoinCancelled \/ Others
    BY <2>1 DEF Upload, Download, JoinCancelled, Others
  <2>2. CASE Handler
    BY <2>2 DEF Handler, Runs, Raises, UploadCopied, UploadCommitted, Cleaned, UploadChecked,
       DownloadChecked, DownloadCopied, Joined
  <2>3. CASE Threads
    BY <2>3 DEF Threads, FreezeOpens, FreezeEnds, FreezeFails, PublishRefuses, PublishStages,
       PublishWrites, PublishFails, Publishes, Vacant
  <2>4. CASE Remote
    BY <2>4 DEF Remote, UploadBegins, UploadArrives, DownloadBegins, DownloadArrives, Moves, Links,
       Unlinks, Cleans, Hashes, ScriptBegins, RemoteFails, Vacant
  <2>5. CASE UNCHANGED sshVars
    BY <2>5
  <2> QED BY <2>1, <2>2, <2>3, <2>4, <2>5 DEF Next, Command, Refusal, ClientEnds, vars
<1>2. IInv => TypeOK
  BY DEF IInv
<1> QED BY <1>1, <1>2, Invariant, PTL DEF Spec, KeepsOthers
=============================================================================
