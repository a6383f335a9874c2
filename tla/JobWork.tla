-------------------------------- MODULE JobWork --------------------------------
(***************************************************************************)
(* What the Jobs of all domains share: the Job row and its event, the      *)
(* handlers working on it between two transactions, and cancel_job         *)
(* (application/platform.py, infrastructure/platform.py).  KnowledgeJobs,  *)
(* ResumeJobs and InterviewJobs add their requests and handlers.           *)
(*                                                                         *)
(* The outbox delivers a Job's event at least once: a claim may find the   *)
(* previous handler still running (its lease lapsed), a handler may stop   *)
(* anywhere, an acknowledgement may be lost.  OutboxDispatch models that   *)
(* part in detail; here it is the variable delivery.  A row lock held      *)
(* through a transaction makes the transaction one step.                   *)
(***************************************************************************)
EXTENDS Naturals

CONSTANTS Job, NoJob,
          Worker,       \* handlers that may run at the same time
          MaxAttempts   \* maximum_attempts of worker and dispatcher

ASSUME JobAssumption     == NoJob \notin Job
ASSUME AttemptAssumption == MaxAttempts \in Nat \ {0}

VARIABLES job,       \* job[j]: the unified Job row and its typed spec
          delivery,  \* delivery[j]: the work event of j
          worker,    \* worker[w]: the claim or preparation w works on
          performed, \* Jobs whose external effect, or published result, is real
          cancel     \* the Job row a cancel_job request has read

jobVars == <<job, delivery, worker, performed, cancel>>

Live    == {"queued", "running"}
Settled == {"succeeded", "failed", "cancelled"}
Status  == {"absent"} \cup Live \cup Settled

Local == [job : Job \cup {NoJob}, attempt : Nat, jobRev : Nat, targetRev : Nat]
Read  == [job : Job \cup {NoJob}, status : {"absent"} \cup Live, rev : Nat]

WorkTypeOK(JobRow) == /\ job \in [Job -> JobRow]
                      /\ delivery \in [Job -> [open : BOOLEAN, attempt : Nat]]
                      /\ worker \in [Worker -> Local]
                      /\ performed \subseteq Job
                      /\ cancel \in Read

Idle   == [job |-> NoJob, attempt |-> 0, jobRev |-> 0, targetRev |-> 0]
NoRead == [job |-> NoJob, status |-> "absent", rev |-> 0]

WorkInit(noRow) == /\ job       = [j \in Job |-> noRow]
                   /\ delivery  = [j \in Job |-> [open |-> FALSE, attempt |-> 0]]
                   /\ worker    = [w \in Worker |-> Idle]
                   /\ performed = {}
                   /\ cancel    = NoRead

JobSettled(j) == job[j].status \in Settled

\* The request and its event commit together.
AddJob(j, row) == /\ job[j].status = "absent"
                  /\ job' = [job EXCEPT ![j] = row]
                  /\ delivery' = [delivery EXCEPT ![j].open = TRUE]
                  /\ UNCHANGED <<worker, performed, cancel>>

-----------------------------------------------------------------------------
(* cancel_job: reads the Job, then locks it; the row it holds is the first *)
(* one read, so only the compare-and-swap on its revision sees a change.   *)
Cancels(j) == job[j].status \in Live
ReadForCancel(j) ==
  /\ cancel = NoRead /\ Cancels(j)
  /\ cancel' = [job |-> j, status |-> job[j].status, rev |-> job[j].rev]
  /\ UNCHANGED <<job, delivery, worker, performed>>

UncheckedSwap(j) == TRUE
Swaps(j) == cancel.rev = job[j].rev

Withdrawn(j) == [job EXCEPT ![j].status = "cancelled", ![j].rev = @ + 1]

-----------------------------------------------------------------------------
(* Handlers.                                                               *)
Receives(j) == delivery[j].open /\ delivery[j].attempt < MaxAttempts
Spent(j) == delivery[j].open /\ delivery[j].attempt = MaxAttempts

Count(j, open) ==
  delivery' = [delivery EXCEPT ![j] = [open |-> open, attempt |-> @.attempt + 1]]

\* The handler returns at once; its acknowledgement may be lost.
AcknowledgeAtOnce(j) == \E lost \in BOOLEAN : Count(j, lost)

Take(w, j, jobRev, targetRev) ==
  /\ worker' = [worker EXCEPT ![w] = [job |-> j, attempt |-> delivery[j].attempt + 1,
                                      jobRev |-> jobRev, targetRev |-> targetRev]]
  /\ Count(j, TRUE)

\* The dispatcher acknowledges by its lease: not if another claim came later.
ReleaseAndClose(w, settle) ==
  /\ worker' = [worker EXCEPT ![w] = Idle]
  /\ delivery' = [delivery EXCEPT ![worker[w].job].open = FALSE]
Release(w, settle) ==
  LET j == worker[w].job
      mine == delivery[j].attempt = worker[w].attempt
  IN  /\ worker' = [worker EXCEPT ![w] = Idle]
      /\ \E lost \in BOOLEAN :
           delivery' = [delivery EXCEPT ![j].open = @ /\ (lost \/ ~mine \/ ~settle)]

HoldsAnyJob(w) == worker[w].job # NoJob
HoldsJob(w) == LET j == worker[w].job
               IN  j # NoJob /\ job[j].status = "running" /\ job[j].rev = worker[w].jobRev

\* A terminal row, one revision on; a queued Job is started on its way to it.
Closed(j, how) == [job[j] EXCEPT !.status = how, !.rev = @ + 1]
StartedAndClosed(j, how) == [Closed(j, how) EXCEPT
                               !.rev = IF job[j].status = "queued" THEN @ + 1 ELSE @]

-----------------------------------------------------------------------------
(* PROPERTIES                                                              *)

\* The Jobs behave as GET and DELETE /jobs/{id} say: they act only once started,
\* settle once, leave nothing behind when cancelled, and keep their event till then.
Unified == INSTANCE UnifiedJob WITH
  status <- [j \in Job |-> job[j].status],
  acted  <- performed,
  open   <- {j \in Job : delivery[j].open}
Implements == Unified!JSpec
=============================================================================
