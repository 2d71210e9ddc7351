---------------------------- MODULE SshTransfers ----------------------------
(***************************************************************************)
(* ssh_upload and ssh_download of ssh_helpers.py, and ssh_exec, run_shell  *)
(* and run_argv beside them, over the processes of Commands.  A transfer   *)
(* is a coroutine that runs one OpenSSH client after the other and copies  *)
(* local files in threads.  What a client has started on the remote host   *)
(* goes on without it, other programs write the source and the destination *)
(* at any time, and a cancelled coroutine leaves its threads running.      *)
(***************************************************************************)
EXTENDS Commands

CONSTANTS
  MaxOthers, \* bound: writes of other programs
  Faults     \* what may happen, a subset of AllFaults

(***************************************************************************)
(* io_error    a local copy fails                                          *)
(* remote_lost what runs on the remote host is lost                        *)
(***************************************************************************)
AllFaults == {"io_error", "remote_lost"}

ASSUME TransferAssumption == MaxOthers \in Nat /\ Faults \subseteq AllFaults

VARIABLES
  op,        \* the transfer, or "none" for a single command
  overwrite, \* its argument
  at,        \* what it is doing
  result,    \* how it has ended
  thread,    \* its thread
  source,    \* the file to be transferred
  reading,   \* what it was when the copying began
  staged,    \* the private copy in the state directory
  digest,    \* the content whose SHA-256 has to be met
  temp,      \* the temporary file beside the destination
  dest,      \* the destination
  got,       \* the content that the remote SHA-256 is of
  remote,    \* the scripts on the remote host
  others,    \* writes of other programs so far
  since      \* history: one was to the destination, after it was settled

wayVars  == <<op, overwrite, at, result, thread>>
copyVars == <<source, reading, staged, digest>>
destVars == <<temp, dest, got, remote, others, since>>
sshVars  == <<wayVars, copyVars, destVars>>
vars     == <<cmdVars, sshVars>>

Scripts  == {"copy", "clean", "commit", "check"}
Versions == {"v1", "v2"}

Init ==
  /\ CmdInit
  /\ op = "none" /\ overwrite \in BOOLEAN /\ at = "none" /\ result = "none"
  /\ thread = "none"
  /\ source = "v1" /\ reading = "none" /\ staged = "none" /\ digest = "none"
  /\ temp = "none" /\ dest \in {"none", "old"} /\ got = "none"
  /\ remote = [s \in Scripts |-> "none"]
  /\ others = 0 /\ since = FALSE

-----------------------------------------------------------------------------
(* The transfer, between its awaits.                                       *)

Go(step) == at' = step /\ UNCHANGED <<op, overwrite, result, thread>>

\* The end of the handler, with the finally that removes the private copy.
End(r) ==
  /\ result' = r /\ staged' = "none"
  /\ UNCHANGED <<op, overwrite, at, thread, source, reading, digest>>

Upload ==
  /\ pc = "idle" /\ op = "none"
  /\ op' = "upload" /\ at' = "freeze" /\ thread' = "freeze"
  /\ UNCHANGED <<cmdVars, overwrite, result, copyVars, destVars>>

Download ==
  /\ pc = "idle" /\ op = "none"
  /\ op' = "download" /\ at' = "check"
  /\ UNCHANGED <<cmdVars, overwrite, result, thread, copyVars, destVars>>

Running == op # "none" /\ result = "none"

Runs ==
  /\ Running /\ at \in Scripts
  /\ Spawn("ssh") \/ SpawnFails("ssh")
  /\ UNCHANGED sshVars

\* A call of a client is over, and the transfer goes on.
Reaches(step)   == Running /\ at = step /\ pc = "over"
Continues(step) == Reaches(step) /\ Forget
Came(step)      == Continues(step) /\ outcome = "returned"
Status     == IF exit = "noticed" THEN code ELSE "none"

\* Mutant of Sound: a client that was ended at its timeout has done its work.
SoundSoFar == Status \in {"ok", "signal"}

\* Neither timed out nor failed.
Sound == why # "timeout" /\ Status = "ok"

\* An exception: only the cleanup is forgiving.  A cancellation may leave the
\* client running.
Raises ==
  \E step \in Scripts :
    /\ \/ /\ outcome = "failed" /\ Continues(step)
          /\ End(IF step = "clean" THEN "failure" ELSE "raised")
       \/ /\ outcome = "cancelled" /\ Reaches(step)
          /\ End("cancelled") /\ UNCHANGED cmdVars
    /\ UNCHANGED destVars

UploadCopied ==
  /\ op = "upload" /\ Came("copy")
  /\ Go(IF Sound THEN "commit" ELSE "clean")
  /\ UNCHANGED <<copyVars, destVars>>

UploadCommitted ==
  /\ op = "upload" /\ Came("commit")
  /\ Go(IF Sound THEN "check" ELSE "clean")
  /\ UNCHANGED <<copyVars, destVars>>

Cleaned == Came("clean") /\ End("failure") /\ UNCHANGED destVars

\* Mutant of Agrees: any SHA-256 will do.
AgreesAnyhow(c) == TRUE

\* The SHA-256 that has to be met is met.
Agrees(c) == c = digest

UploadChecked ==
  /\ op = "upload" /\ Came("check")
  /\ End(IF Status = "ok" /\ Agrees(got) THEN "success" ELSE "failure")
  /\ UNCHANGED destVars

DownloadChecked ==
  /\ op = "download" /\ Came("check")
  /\ \/ /\ Status = "ok" /\ digest' = got /\ Go("copy")
        /\ UNCHANGED <<source, reading, staged>>
     \/ Status # "ok" /\ End("failure")
     \/ Status = "ok" /\ End("raised") \* above max_transfer_bytes
  /\ UNCHANGED destVars

DownloadCopied ==
  /\ op = "download" /\ Came("copy")
  /\ \/ ~Sound /\ End("failure")
     \/ Sound /\ ~Agrees(staged) /\ End("failure")
     \/ /\ Sound /\ Agrees(staged)
        /\ at' = "publish" /\ thread' = "publish"
        /\ UNCHANGED <<op, overwrite, result, copyVars>>
  /\ UNCHANGED destVars

-----------------------------------------------------------------------------
(* Its threads.                                                            *)

ThreadGoes(from, to) ==
  /\ thread = from /\ thread' = to
  /\ UNCHANGED <<cmdVars, op, overwrite, at, result>>

\* What is read of a file that may change meanwhile.
Read(before) == IF source = before THEN source ELSE "torn"

FreezeOpens ==
  /\ ThreadGoes("freeze", "freezing")
  /\ staged' = "partial" /\ reading' = source
  /\ UNCHANGED <<source, digest, destVars>>

FreezeEnds ==
  /\ ThreadGoes("freezing", "frozen")
  /\ staged' = Read(reading)
  /\ UNCHANGED <<source, reading, digest, destVars>>

FreezeFails ==
  /\ "io_error" \in Faults /\ ThreadGoes("freezing", "failed") /\ staged' = "none"
  /\ UNCHANGED <<source, reading, digest, destVars>>

\* It refuses an existing destination, and a copy that is gone fails it.
PublishRefuses ==
  /\ (dest # "none" /\ ~overwrite) \/ staged = "none"
  /\ ThreadGoes("publish", "failed")
  /\ UNCHANGED <<copyVars, destVars>>

PublishStages ==
  /\ dest = "none" \/ overwrite
  /\ staged # "none" /\ ThreadGoes("publish", "publishing")
  /\ temp' = "partial"
  /\ UNCHANGED <<copyVars, dest, got, remote, others, since>>

PublishWrites ==
  /\ ThreadGoes("publishing", "written") /\ temp' = digest
  /\ UNCHANGED <<copyVars, dest, got, remote, others, since>>

\* Mutant of PublishFails: the temporary file stays.
PublishFailsOnly ==
  /\ \/ "io_error" \in Faults /\ thread = "publishing"
     \/ dest # "none" /\ ~overwrite /\ thread = "written"
  /\ ThreadGoes(thread, "failed")
  /\ UNCHANGED <<copyVars, destVars>>

\* A write fails, or renameat2 finds a destination, and the finally unlinks.
PublishFails ==
  /\ \/ "io_error" \in Faults /\ thread = "publishing"
     \/ dest # "none" /\ ~overwrite /\ thread = "written"
  /\ ThreadGoes(thread, "failed") /\ temp' = "none"
  /\ UNCHANGED <<copyVars, dest, got, remote, others, since>>

\* Mutant of Vacant: the rename replaces what appeared meanwhile.
VacantAtFirst == TRUE

\* rename_noreplace and ln put a file where there is none.
Vacant == dest = "none"

\* When the directory cannot be synced after the rename, it raises.
Publishes ==
  /\ overwrite \/ Vacant
  /\ \/ ThreadGoes("written", "published")
     \/ "io_error" \in Faults /\ ThreadGoes("written", "failed")
  /\ dest' = temp /\ temp' = "none" /\ since' = FALSE
  /\ UNCHANGED <<copyVars, got, remote, others>>

\* The coroutine after its thread, unless it is cancelled before.
Joined ==
  /\ Running /\ at \in {"freeze", "publish"} /\ thread \in {"frozen", "published", "failed"}
  /\ \/ /\ thread = "frozen" /\ digest' = staged
        /\ Go("copy") /\ UNCHANGED <<source, reading, staged>>
     \/ thread = "published" /\ End("success")
     \/ thread = "failed" /\ End("raised")
  /\ UNCHANGED <<cmdVars, destVars>>

\* The frozen copy is not yet the coroutine's to remove.
JoinCancelled ==
  /\ Running /\ at \in {"freeze", "publish"} /\ "cancelled" \in CallFaults
  /\ result' = "cancelled"
  /\ staged' = IF at = "publish" THEN "none" ELSE staged
  /\ UNCHANGED <<cmdVars, op, overwrite, at, thread, source, reading, digest, destVars>>

-----------------------------------------------------------------------------
(* The remote host, and scp's local side.                                  *)

Client   == op # "none" /\ Leader \in live
Script(s, from, to) ==
  /\ remote[s] = from /\ remote' = [remote EXCEPT ![s] = to]
  /\ UNCHANGED <<cmdVars, wayVars, source, digest, others>>

\* Only a client that runs starts something.
Begins(s) == at = s /\ Client /\ Script(s, "none", "running")

UploadBegins ==
  /\ op = "upload" /\ Begins("copy") /\ temp' = "partial"
  /\ UNCHANGED <<reading, staged, dest, got, since>>
UploadArrives ==
  /\ op = "upload" /\ Script("copy", "running", "done")
  /\ temp' = IF temp = "partial" THEN digest ELSE temp
  /\ UNCHANGED <<reading, staged, dest, got, since>>

\* scp creates the local file, also after it was removed, until it ends.
DownloadBegins ==
  /\ op = "download" /\ at = "copy" /\ Leader \in live
  /\ Script("copy", "none", "running")
  /\ staged' = "partial" /\ reading' = source
  /\ UNCHANGED <<temp, dest, got, since>>
DownloadArrives ==
  /\ op = "download" /\ Leader \in live /\ Script("copy", "running", "done")
  /\ staged' = IF staged = "partial" THEN Read(reading) ELSE staged
  /\ UNCHANGED <<reading, temp, dest, got, since>>

ScriptBegins(s) ==
  /\ s # "copy" /\ Begins(s)
  /\ UNCHANGED <<reading, staged, temp, dest, got, since>>

\* mv -fT: at once, whatever is there.
Moves ==
  /\ overwrite /\ temp # "none" /\ Script("commit", "running", "done")
  /\ dest' = temp /\ temp' = "none"
  /\ UNCHANGED <<reading, staged, got, since>>

\* ln, and then rm.
Links ==
  /\ ~overwrite /\ temp # "none" /\ Vacant /\ Script("commit", "running", "linked")
  /\ dest' = temp
  /\ UNCHANGED <<reading, staged, temp, got, since>>
Unlinks ==
  /\ Script("commit", "linked", "done") /\ temp' = "none"
  /\ UNCHANGED <<reading, staged, dest, got, since>>

Cleans ==
  /\ Script("clean", "running", "done") /\ temp' = "none"
  /\ UNCHANGED <<reading, staged, dest, got, since>>

\* stat and sha256sum, of a file that may change under them.
Hashes ==
  /\ Script("check", "running", "done")
  /\ \/ op = "upload" /\ dest # "none" /\ got' = dest
     \/ op = "download" /\ got' \in {source, "unknown"}
  /\ since' = FALSE
  /\ UNCHANGED <<reading, staged, temp, dest>>

\* The connection breaks, or what a script needs is not there.
RemoteFails(s) ==
  /\ \E from \in {"running", "linked"} : Script(s, from, "failed")
  /\ \/ "remote_lost" \in Faults
     \/ s = "commit" /\ (temp = "none" \/ (~overwrite /\ dest # "none"))
     \/ s = "check" /\ op = "upload" /\ dest = "none"
  /\ UNCHANGED <<reading, staged, temp, dest, got, since>>

Remote ==
  \/ UploadBegins \/ UploadArrives \/ DownloadBegins \/ DownloadArrives
  \/ Moves \/ Links \/ Unlinks \/ Cleans \/ Hashes
  \/ \E s \in Scripts : ScriptBegins(s) \/ RemoteFails(s)

\* scp runs ssh, which shares its output.
Assistants ==
  \E k \in Kids : KidEnds(k) \/ (at = "copy" /\ Fork(Leader, k) /\ k \notin quiet')

\* A client that ends well has seen the end of its script.
ClientEnds(c) ==
  /\ LeaderEnds(c) /\ UNCHANGED sshVars
  /\ c = "ok" /\ op # "none" => remote[at] = "done"

\* Other programs write the source, write the destination, or remove it.
Others ==
  /\ op # "none" /\ others < MaxOthers /\ others' = others + 1
  /\ \/ source' = "v2" /\ UNCHANGED <<dest, since>>
     \/ dest' \in {"other", "none"} /\ since' = TRUE /\ UNCHANGED source
  /\ UNCHANGED <<cmdVars, wayVars, reading, staged, digest, temp, got, remote>>

-----------------------------------------------------------------------------
Command(k) == op = "none" /\ (Spawn(k) \/ SpawnFails(k)) /\ UNCHANGED sshVars
Refusal    == op = "none" /\ (ShellRefuses \/ ArgvRefuses \/ SshRefuses) /\ UNCHANGED sshVars

Handler ==
  \/ Runs \/ Raises \/ UploadCopied \/ UploadCommitted \/ Cleaned \/ UploadChecked
  \/ DownloadChecked \/ DownloadCopied \/ Joined

Threads ==
  \/ FreezeOpens \/ FreezeEnds \/ FreezeFails \/ PublishRefuses \/ PublishStages
  \/ PublishWrites \/ PublishFails \/ Publishes

Next ==
  \/ \E k \in Kinds : Command(k)
  \/ Refusal \/ Upload \/ Download \/ Handler \/ Threads \/ JoinCancelled \/ Remote \/ Others
  \/ (Loop \/ Timers \/ Withdrawn) /\ UNCHANGED sshVars
  \/ op = "none" /\ Processes /\ UNCHANGED sshVars
  \/ op # "none" /\ Assistants /\ UNCHANGED sshVars
  \/ \E c \in {"ok", "fail"} : ClientEnds(c)

Spec ==
  /\ Init /\ [][Next]_vars
  /\ WF_vars(Loop /\ UNCHANGED sshVars) /\ WF_vars(Timers /\ UNCHANGED sshVars)
  /\ WF_vars(Handler) /\ WF_vars(Threads)

-----------------------------------------------------------------------------
(* Properties.                                                             *)

Contents == Versions \cup {"none", "partial", "torn", "old", "other", "unknown"}

TypeOK ==
  /\ CmdTypeOK
  /\ op \in {"none", "upload", "download"} /\ overwrite \in BOOLEAN
  /\ at \in Scripts \cup {"none", "freeze", "publish"}
  /\ result \in {"none", "success", "failure", "raised", "cancelled"}
  /\ thread \in {"none", "freeze", "freezing", "frozen", "publish", "publishing",
                 "written", "published", "failed"}
  /\ source \in Versions /\ reading \in Contents /\ staged \in Contents
  /\ digest \in Contents /\ temp \in Contents /\ dest \in Contents /\ got \in Contents
  /\ remote \in [Scripts -> {"none", "running", "linked", "done", "failed"}]
  /\ others \in 0..MaxOthers /\ since \in BOOLEAN

\* Whoever cancels, times out or writes in between: the destination is never
\* a part of a file, nor a download a mixture of two versions of its source
\* (commit_script, _publish_download).
DestIsWhole == dest # "partial" /\ (op = "download" => dest # "torn")

\* Without overwrite, a transfer puts its file only where there is none, also
\* when another program has put one there since the transfer looked
\* (rename_noreplace, ln).
KeepsOthers == [][~overwrite /\ dest # "none" /\ others' = others => dest' = dest]_vars

\* A transfer that reports success has delivered what its SHA-256 is of: only
\* another program's write after that was settled can have changed it
\* (ssh_upload, ssh_download).
SuccessIsDelivered == result = "success" /\ ~since => dest = digest

\* When all is over, no copy is left in the state directory, nor a temporary
\* file beside the destination of a download; except by a call cancelled
\* while its thread froze the source, or while scp was still ending.
NoLocalResidue ==
  /\ result # "none" /\ Leader \notin live /\ thread \in {"none", "frozen", "published", "failed"}
  => /\ staged = "none" \/ (result = "cancelled" /\ (at = "freeze" \/ (op = "download" /\ at = "copy")))
     /\ op = "download" => temp = "none"

\* Every call ends, and every transfer does, with the exceptions of CallEnds,
\* though the clients and the remote host may hang (_terminate_group).
EveryCallEnds == CallEnds /\ ((op # "none" ~> result # "none") \/ <>[]OutOfReach)
=============================================================================
