----------------------------- MODULE AuditReport -----------------------------
(***************************************************************************)
(* The way of an audit record from the server to the Hub: AuditWriter of   *)
(* audit.py appends it to a log it rotates; the sidecar report_agent.py    *)
(* tails the log and its rotated generations by offset and posts batches.  *)
(*                                                                         *)
(* Two processes share the files and nothing else.  The writer's rotation  *)
(* is a sequence of renames; the agent's read is a sequence of stat, plan  *)
(* and read steps.  An offset counts records, not bytes.                   *)
(***************************************************************************)
EXTENDS Integers, Sequences

CONSTANTS
  MaxRecords, \* bound: records the server writes
  Cap,        \* max_bytes, in records
  Keep,       \* keep_files: generations 1..Keep are retained
  MaxPending, \* MAX_PENDING_EVENTS
  MaxBatch,   \* report_max_batch
  Unusable,   \* records the agent cannot parse, or that lack a field
  Faults      \* what may happen, a subset of AllFaults

(***************************************************************************)
(* hub_down     a POST fails, before or after the Hub took the batch       *)
(* hub_reject   the Hub refuses a batch for good                           *)
(* agent_crash  the agent dies and is started again                        *)
(* early_crash  the same, as long as the log has not rotated               *)
(* overlap      the server's renames fall between two steps of one read    *)
(* rename_error a rename fails, or the server dies, inside a rotation      *)
(* cursor_error the checkpoint cannot be written                           *)
(* read_error   a rotated generation cannot be read                        *)
(***************************************************************************)
AllFaults ==
  {"hub_down", "hub_reject", "agent_crash", "early_crash", "overlap", "rename_error",
   "cursor_error", "read_error"}

ASSUME ReportAssumption ==
  /\ MaxRecords \in Nat /\ Keep \in Nat
  /\ Cap \in Nat \ {0} /\ MaxPending \in Nat \ {0} /\ MaxBatch \in Nat \ {0}
  /\ Unusable \subseteq 1..MaxRecords /\ Faults \subseteq AllFaults

VARIABLES
  log,       \* generation 0 is calls.jsonl, i is calls.jsonl.i
  written,   \* the last record written; records are numbered in order
  rot,       \* the next step of a rotation, or Idle
  inodes,    \* inode numbers used so far
  step,      \* where the agent is inside read_new
  offset,    \* AuditTail.offset
  readOffset,\* AuditTail.read_offset
  inode,     \* AuditTail._inode
  plan,      \* AuditTail._drain_plan
  pending,   \* ReportAgent.pending: pairs of offset and record
  cursor,    \* the checkpoint file
  delivered, \* records the Hub has taken
  refused    \* records the Hub has refused

logVars   == <<log, written, rot, inodes>>
tailVars  == <<offset, readOffset, inode, plan>>
hubVars   == <<delivered, refused>>
vars      == <<logVars, step, tailVars, pending, cursor, hubVars>>

-----------------------------------------------------------------------------
Idle    == -1
NoInode == 0
NoFile  == [inode |-> NoInode, recs |-> <<>>]
NoPlan  == <<[gen |-> -1, start |-> 0, inode |-> NoInode]>>

Records     == 1..MaxRecords
Generations == 0..Keep
Exists(g)   == log[g] # NoFile
Size(g)     == Len(log[g].recs)
Unrotated   == \A g \in Generations \ {0} : ~Exists(g)

TypeOK ==
  /\ log \in [Generations -> [inode : Nat, recs : Seq(Records)]]
  /\ written \in 0..MaxRecords
  /\ rot \in Idle..Keep + 1
  /\ inodes \in Nat
  /\ step \in {"down", "idle", "stat", "plan", "drain", "catchup", "restat", "read"}
  /\ offset \in Nat /\ readOffset \in Nat /\ inode \in Nat
  /\ plan = NoPlan \/ plan \in Seq([gen : Generations, start : Nat, inode : Nat])
  /\ pending \in Seq(Nat \X Records) /\ Len(pending) <= MaxPending
  /\ cursor \in [offset : Nat, inode : Nat]
  /\ delivered \subseteq Records /\ refused \subseteq Records

Init ==
  /\ log = [g \in Generations |-> NoFile]
  /\ written = 0 /\ rot = Idle /\ inodes = 0
  /\ step = "idle"
  /\ offset = 0 /\ readOffset = 0 /\ inode = NoInode /\ plan = NoPlan
  /\ pending = <<>>
  /\ cursor = [offset |-> 0, inode |-> NoInode]
  /\ delivered = {} /\ refused = {}

-----------------------------------------------------------------------------
(* AuditWriter.record: one rename per action.                               *)

Append1 ==
  LET new == ~Exists(0) IN
  /\ log' = [log EXCEPT ![0] = [inode |-> IF new THEN inodes + 1 ELSE @.inode,
                                recs  |-> Append(@.recs, written + 1)]]
  /\ inodes' = IF new THEN inodes + 1 ELSE inodes
  /\ written' = written + 1

\* Between two steps of one read of the agent only under "overlap".
WriterMayMove == step \in {"idle", "down"} \/ "overlap" \in Faults

ShouldRotate == Size(0) > 0 /\ Size(0) + 1 > Cap

Record ==
  /\ rot = Idle /\ written < MaxRecords /\ WriterMayMove
  /\ ~ShouldRotate
  /\ Append1
  /\ UNCHANGED <<rot, step, tailVars, pending, cursor, hubVars>>

RotateBegins ==
  /\ rot = Idle /\ written < MaxRecords /\ WriterMayMove
  /\ ShouldRotate
  /\ rot' = Keep + 1
  /\ UNCHANGED <<log, written, inodes, step, tailVars, pending, cursor, hubVars>>

\* The oldest generation is unlinked; with keep_files = 0 that is the log itself.
Prune ==
  /\ rot = Keep + 1 /\ WriterMayMove
  /\ log' = [log EXCEPT ![Keep] = NoFile]
  /\ rot' = Keep
  /\ UNCHANGED <<written, inodes, step, tailVars, pending, cursor, hubVars>>

Shift ==
  /\ rot \in 1..Keep /\ WriterMayMove
  /\ log' = IF Exists(rot - 1) THEN [log EXCEPT ![rot] = log[rot - 1], ![rot - 1] = NoFile] ELSE log
  /\ rot' = rot - 1
  /\ UNCHANGED <<written, inodes, step, tailVars, pending, cursor, hubVars>>

Reopen ==
  /\ rot = 0 /\ WriterMayMove
  /\ Append1
  /\ rot' = Idle
  /\ UNCHANGED <<step, tailVars, pending, cursor, hubVars>>

\* The rotation is given up where it is: an OSError continues in place, a
\* restarted server just appends to what it finds.
RotateBreaks ==
  /\ rot \in 1..Keep + 1 /\ WriterMayMove /\ "rename_error" \in Faults
  /\ rot' \in {0, Idle}
  /\ UNCHANGED <<log, written, inodes, step, tailVars, pending, cursor, hubVars>>

-----------------------------------------------------------------------------
(* AuditTail.read_new, called by _read_more below the pending ceiling.       *)

\* Without "overlap" a rotation in progress is over before the agent looks.
AgentMayMove == rot = Idle \/ "overlap" \in Faults

\* _rotated_files: the generations up to the first gap.
Rotated == {g \in 1..Keep : \A i \in 1..g : Exists(i)}

\* Mutant of WasRotated: only a shrunk file counts as rotated.
WasRotatedShrunk == Size(0) < readOffset

WasRotated ==
  \/ Size(0) < readOffset
  \/ IF inode = NoInode THEN Rotated # {} ELSE log[0].inode # inode

\* Mutant of DrainPlan: the checkpoint's own generation is taken as acknowledged.
DrainPlanNewer ==
  LET newer == {g \in Rotated : \A i \in 1..g : inode = NoInode \/ log[i].inode # inode}
      n == IF newer = {} THEN 0 ELSE CHOOSE g \in newer : \A h \in newer : h <= g IN
  [i \in 1..n |-> LET g == n + 1 - i IN [gen |-> g, start |-> 0, inode |-> log[g].inode]]

\* _start_drain: from the generation of the checkpoint, found by its inode, to
\* the newest; all of them when it is not found or nothing was acknowledged.
DrainPlan ==
  LET at == {g \in Rotated : offset > 0 /\ inode # NoInode /\ log[g].inode = inode}
      first == IF at = {} THEN Rotated ELSE {g \in Rotated : \A c \in at : g <= c}
      n == IF first = {} THEN 0 ELSE CHOOSE g \in first : \A h \in first : h <= g IN
  [i \in 1..n |-> LET g == n + 1 - i IN
     [gen |-> g, start |-> IF g \in at THEN offset ELSE 0, inode |-> log[g].inode]]

\* Mutant of StartDrain: the position in the old file is kept.
StartDrainKeepsPosition ==
  /\ plan' = DrainPlan
  /\ inode' = log[0].inode
  /\ UNCHANGED <<offset, readOffset>>

StartDrain ==
  /\ plan' = DrainPlan
  /\ offset' = 0 /\ readOffset' = 0
  /\ inode' = log[0].inode

ReadBegins ==
  /\ step = "idle" /\ AgentMayMove
  /\ Len(pending) < MaxPending
  /\ step' = IF plan # NoPlan THEN "drain" ELSE "stat"
  /\ UNCHANGED <<logVars, tailVars, pending, cursor, hubVars>>

StatMain ==
  /\ step = "stat"
  /\ \/ ~Exists(0) /\ step' = "idle" /\ UNCHANGED tailVars
     \/ Exists(0) /\ WasRotated /\ step' = "plan" /\ UNCHANGED tailVars
     \/ /\ Exists(0) /\ ~WasRotated
        /\ inode' = log[0].inode
        /\ step' = IF Size(0) <= readOffset THEN "idle" ELSE "read"
        /\ UNCHANGED <<offset, readOffset, plan>>
  /\ UNCHANGED <<logVars, pending, cursor, hubVars>>

\* Mutant of MakePlan: the new main file is read before the plan is worked off.
MakePlanLater ==
  /\ step = "plan"
  /\ StartDrain
  /\ step' = "restat"
  /\ UNCHANGED <<logVars, pending, cursor, hubVars>>

MakePlan ==
  /\ step = "plan"
  /\ StartDrain
  /\ step' = "catchup"
  /\ UNCHANGED <<logVars, pending, cursor, hubVars>>

Draining == step \in {"drain", "catchup"}

\* The plan is done: go on with the main file.
DrainEnds ==
  /\ Draining /\ plan = <<>>
  /\ plan' = NoPlan
  /\ step' = IF step = "drain" THEN "stat" ELSE "restat"
  /\ UNCHANGED <<logVars, offset, readOffset, inode, pending, cursor, hubVars>>

ReadFails == "read_error" \in Faults

\* A planned generation that is gone, read to its end, or cannot be read.
DrainSkips ==
  /\ Draining /\ plan # <<>>
  /\ LET e == Head(plan) IN
       \/ ~Exists(e.gen) \/ Size(e.gen) <= e.start
       \/ log[e.gen].inode = e.inode /\ ReadFails
  /\ plan' = Tail(plan)
  /\ UNCHANGED <<logVars, step, offset, readOffset, inode, pending, cursor, hubVars>>

\* The generations moved: plan again, and return.
DrainShifted ==
  /\ Draining /\ plan # <<>>
  /\ LET e == Head(plan) IN
       Exists(e.gen) /\ Size(e.gen) > e.start /\ log[e.gen].inode # e.inode
  /\ StartDrain
  /\ step' = "idle"
  /\ UNCHANGED <<logVars, pending, cursor, hubVars>>

Room == MaxPending - Len(pending)

\* prepare_event and _parse_line: what becomes of the first lines that are read,
\* and of all of them.
Prepared(lines) ==
  LET upTo[i \in 0..Len(lines)] ==
        IF i = 0 THEN <<>>
        ELSE IF lines[i][2] \in Unusable THEN upTo[i - 1]
        ELSE Append(upTo[i - 1], lines[i])
  IN  upTo
Usable(lines) == Prepared(lines)[Len(lines)]

\* _read_more can take this many of a file's lines, each with its offset: it
\* stops with the one that fills the queue.
Takes(lines) ==
  /\ Len(Usable(lines)) <= Room
  /\ lines # <<>> => Len(Usable(SubSeq(lines, 1, Len(lines) - 1))) < Room

\* n records, as many as the chunk holds or the ceiling admits; their offset 0
\* must not advance the checkpoint in the main file.
DrainReads(n) ==
  /\ Draining /\ plan # <<>>
  /\ LET e == Head(plan)
         f == log[e.gen] IN
     /\ Exists(e.gen) /\ f.inode = e.inode
     /\ n <= Len(f.recs) - e.start
     /\ LET lines == [i \in 1..n |-> <<0, f.recs[e.start + i]>>] IN
          Takes(lines) /\ pending' = pending \o Usable(lines)
     /\ plan' = IF e.start + n = Len(f.recs) THEN Tail(plan)
                ELSE [plan EXCEPT ![1].start = e.start + n]
     /\ step' \in {"idle"} \cup (IF e.start + n = Len(f.recs) /\ Len(pending') < MaxPending THEN {step} ELSE {})
  /\ UNCHANGED <<logVars, offset, readOffset, inode, cursor, hubVars>>

\* After a catch-up the main file is looked at again, its identity adopted.
StatAgain ==
  /\ step = "restat"
  /\ inode' = IF Exists(0) THEN log[0].inode ELSE inode
  /\ step' = IF Size(0) > readOffset THEN "read" ELSE "idle"
  /\ UNCHANGED <<logVars, offset, readOffset, plan, pending, cursor, hubVars>>

\* _read_main opens whatever file has the name now.
ReadMain(n) ==
  /\ step = "read"
  /\ n <= Size(0) - readOffset
  /\ LET lines == [i \in 1..n |-> <<readOffset + i, log[0].recs[readOffset + i]>>] IN
       Takes(lines) /\ pending' = pending \o Usable(lines)
  /\ readOffset' = readOffset + n
  /\ step' = "idle"
  /\ UNCHANGED <<logVars, offset, inode, plan, cursor, hubVars>>

ReadNothing ==
  /\ step = "read" /\ Size(0) <= readOffset
  /\ step' = "idle"
  /\ UNCHANGED <<logVars, tailVars, pending, cursor, hubVars>>

-----------------------------------------------------------------------------
(* ReportAgent.flush.                                                        *)

BatchLen == IF Len(pending) < MaxBatch THEN Len(pending) ELSE MaxBatch
Batch    == {pending[i][2] : i \in 1..BatchLen}

\* cycle() flushes between two reads; when a batch is due is left out.
MayFlush == step = "idle" /\ pending # <<>>

\* HubRejected and HubUnavailable, as _request raises them.
Refuses     == "hub_reject" \in Faults
Unavailable == "hub_down" \in Faults

Dequeue ==
  /\ pending' = SubSeq(pending, BatchLen + 1, Len(pending))
  /\ offset' = pending[BatchLen][1]

\* AuditTail.commit
Checkpoint(o) == [offset |-> o, inode |-> inode]

\* Mutant of Commit: the checkpoint is how far the file was read.
CommitRead ==
  /\ pending' = SubSeq(pending, BatchLen + 1, Len(pending))
  /\ offset' = readOffset
  /\ cursor' = Checkpoint(readOffset)

\* The queue and the offset are advanced before the checkpoint is written, and
\* run() survives that writing it fails.
Commit ==
  /\ Dequeue
  /\ \/ cursor' = Checkpoint(offset')
     \/ "cursor_error" \in Faults /\ cursor' = cursor

FlushAcked ==
  /\ MayFlush
  /\ delivered' = delivered \cup Batch
  /\ Commit
  /\ UNCHANGED <<logVars, step, readOffset, inode, plan, refused>>

FlushRejected ==
  /\ MayFlush /\ Refuses
  /\ refused' = refused \cup Batch
  /\ Commit
  /\ UNCHANGED <<logVars, step, readOffset, inode, plan, delivered>>

\* The Hub took the batch, but the agent does not learn of it; a batch that did
\* not reach the Hub changes nothing.
FlushUnanswered ==
  /\ MayFlush /\ Unavailable
  /\ delivered' = delivered \cup Batch
  /\ UNCHANGED <<logVars, step, tailVars, pending, cursor, refused>>

AgentCrashes ==
  /\ step # "down"
  /\ \/ "agent_crash" \in Faults
     \/ "early_crash" \in Faults /\ Unrotated
  /\ step' = "down" /\ pending' = <<>>
  /\ UNCHANGED <<logVars, tailVars, cursor, hubVars>>

\* Mutant of AgentStarts: the agent starts to follow the log at its end.
AgentStartsAtEnd ==
  /\ step = "down"
  /\ step' = "idle"
  /\ offset' = cursor.offset /\ readOffset' = Size(0) /\ inode' = cursor.inode
  /\ plan' = NoPlan
  /\ UNCHANGED <<logVars, pending, cursor, hubVars>>

\* _load_cursor
AgentStarts ==
  /\ step = "down"
  /\ step' = "idle"
  /\ offset' = cursor.offset /\ readOffset' = cursor.offset /\ inode' = cursor.inode
  /\ plan' = NoPlan
  /\ UNCHANGED <<logVars, pending, cursor, hubVars>>

-----------------------------------------------------------------------------
WriterNext == Record \/ RotateBegins \/ Prune \/ Shift \/ Reopen \/ RotateBreaks

ReaderNext ==
  \/ ReadBegins \/ StatMain \/ MakePlan \/ DrainEnds \/ DrainSkips \/ DrainShifted
  \/ StatAgain \/ ReadNothing \/ AgentStarts
  \/ \E n \in 1..MaxPending : DrainReads(n) \/ ReadMain(n)

Next ==
  \/ WriterNext \/ ReaderNext
  \/ FlushAcked \/ FlushRejected \/ FlushUnanswered \/ AgentCrashes

Spec == Init /\ [][Next]_vars

(***************************************************************************)
(* Fairness: cycle() runs every second, and the Hub answers some attempt.  *)
(* A rotation once begun is not suspended for ever.                        *)
(***************************************************************************)
FairSpec ==
  /\ Spec
  /\ WF_vars(Prune \/ Shift \/ Reopen)
  /\ WF_vars(ReaderNext) /\ SF_vars(FlushAcked)

-----------------------------------------------------------------------------
(* Properties.                                                              *)

Settled  == delivered \cup refused
Retained == (UNION {{log[g].recs[i] : i \in 1..Size(g)} : g \in Generations}) \ Unusable

\* "A crash or a failed POST replays rather than loses": an agent that has
\* nothing left to read or to send has reported every retained record.
CaughtUp ==
  /\ step = "idle" /\ rot = Idle /\ pending = <<>> /\ plan = NoPlan
  /\ Exists(0) /\ inode = log[0].inode /\ readOffset = Size(0)

NothingLost == CaughtUp => Retained \subseteq Settled

\* "The offset only advances once the Hub has acknowledged the batch": as long
\* as the log has not rotated, everything before the checkpoint has been
\* acknowledged.
CheckpointAcknowledged ==
  Unrotated /\ Exists(0) /\ log[0].inode = cursor.inode =>
    \A i \in 1..Size(0) : i <= cursor.offset => log[0].recs[i] \in Settled \cup Unusable

\* "The records have to be reported in the order they were written": a record
\* reaches the Hub only after every older one that is still on disk.
ReportedInOrder ==
  [][\A r \in delivered' \ delivered :
       \A q \in Retained : q < r => q \in Settled \cup delivered']_vars

\* However often the log rotated under it, the agent does not re-read for ever.
CatchesUp == (written = MaxRecords) ~> CaughtUp

\* Every record is reported, unless rotation removed it first or the agent
\* crashes again and again.
EventuallyReported ==
  \/ []<><<AgentCrashes>>_vars
  \/ \A r \in Records : (written >= r) ~> (r \in Settled \/ r \notin Retained)
=============================================================================
