------------------------------ MODULE JobTasks ------------------------------
(***************************************************************************)
(* tasks_extension.py: MCP tasks over the durable jobs.  A task is a job,  *)
(* tasks/get and tasks/update are status checks of it (Observe), tasks/    *)
(* cancel is a cancel_job (CancelBegin and what follows), and a job_run    *)
(* that makes a task is a start_job with a status check.  What is new is   *)
(* the answer a client gets, which it takes for the last one as soon as    *)
(* the task is over.                                                       *)
(***************************************************************************)
EXTENDS DurableJobs

\* Mutant of Working: a cancellation that is asked for counts as done.
WorkingUnlessCanceled == {"starting", "running"}

\* The statuses of a job whose task goes on.
Working == {"starting", "running", "cancel_requested"}

TaskState(j) ==
  CASE Status(j) \in Working    -> "working"
    [] Status(j) = "canceled"   -> "cancelled"
    [] OTHER                    -> "completed"

\* isError of the result that a completed task carries.
IsError(j) == TaskState(j) = "completed" /\ Status(j) # "completed"

TaskAnswer(j) == <<TaskState(j), IsError(j)>>

\* A client that was told a task is over, and how, is never told otherwise:
\* across cancellations, deadlines and restarts of the server (_task_payload).
TaskIsFinal ==
  [][\A j \in Jobs : Visible(j) /\ TaskState(j) # "working" =>
       TaskAnswer(j)' = TaskAnswer(j) \/ ~Known(j)']_vars
=============================================================================
