----------------------------- MODULE InterviewJobs -----------------------------
(***************************************************************************)
(* One Interview session: realtime connections and input, the request that *)
(* ends it, its report requests (application/interview_v2.py,              *)
(* domain/interview_v2.py), and the worker that executes the end and       *)
(* report Jobs in two transactions around media and model calls.           *)
(*                                                                         *)
(* A report Job gains a revision whenever it is taken up, which fences its *)
(* last handler; an end Job does not.                                      *)
(***************************************************************************)
EXTENDS JobWork

CONSTANTS MaxReportAttempts,  \* report_maximum_attempts
          MaxSegments         \* bound: transcript segments

ASSUME ReportAssumption  == MaxReportAttempts \in 1..MaxAttempts
ASSUME SegmentAssumption == MaxSegments \in Nat

VARIABLES session,     \* the InterviewSession row
          leased,      \* a realtime connection lease is recorded
          connecting,  \* the session revision a connection request has read, or 0
          transcript,  \* number of transcript segments
          stage        \* stage[w]: what handler w has read and reported

vars == <<session, leased, connecting, transcript, stage,
          job, delivery, worker, performed, cancel>>
iVars == <<session, leased, connecting, transcript, stage>>

Open   == {"created", "connecting", "active"}
Ended  == {"completed", "cancelled", "failed"}
Reason == {"completed", "user_cancelled", "technical_failure"}

\* pending: pending_end_job_id; report, evidence: the Job whose Report is attached,
\* and the length of the transcript that Report was made from.
Session == [status : Open \cup {"ending"} \cup Ended, rev : Nat, pending : Job \cup {NoJob},
            reason : Reason, report : Job \cup {NoJob}, evidence : Nat]
JobRow == [status : Status, kind : {"end", "report"}, rev : Nat]
Stage  == [validating : BOOLEAN, seen : Nat]

TypeOK == /\ session \in Session /\ leased \in BOOLEAN
          /\ connecting \in Nat /\ transcript \in 0..MaxSegments
          /\ stage \in [Worker -> Stage]
          /\ WorkTypeOK(JobRow)

-----------------------------------------------------------------------------
NoRow == [status |-> "absent", kind |-> "end", rev |-> 0]
Fresh == [validating |-> FALSE, seen |-> 0]

Init ==
  /\ session = [status |-> "created", rev |-> 1, pending |-> NoJob,
                reason |-> "completed", report |-> NoJob, evidence |-> 0]
  /\ leased = FALSE /\ connecting = 0 /\ transcript = 0
  /\ stage = [w \in Worker |-> Fresh]
  /\ WorkInit(NoRow)

Moved(to) == [session EXCEPT !.status = to, !.rev = @ + 1, !.pending = NoJob]

-----------------------------------------------------------------------------
(* Realtime.                                                               *)

\* create_realtime_connection: the gateway issues a grant between two transactions.
Issue == /\ connecting = 0 /\ session.status \in Open
         /\ connecting' = session.rev
         /\ UNCHANGED <<session, leased, transcript, stage>> /\ UNCHANGED jobVars

\* A grant whose session changed meanwhile is revoked; mark_connecting otherwise.
CommitConnection ==
  /\ connecting # 0
  /\ connecting' = 0
  /\ IF connecting = session.rev
     THEN /\ leased' = TRUE
          /\ session' = IF session.status = "created" THEN Moved("connecting") ELSE session
     ELSE UNCHANGED <<leased, session>>
  /\ UNCHANGED <<transcript, stage>> /\ UNCHANGED jobVars

\* ingest_realtime_input: the session row is locked, only the lease is looked up before.
AcceptsFromLease == leased
Accepts == leased /\ session.status = "active"

MediaStarted == /\ leased /\ session.status = "connecting"
                /\ session' = Moved("active")
                /\ UNCHANGED <<leased, connecting, transcript, stage>> /\ UNCHANGED jobVars

Utter == /\ Accepts /\ transcript < MaxSegments
         /\ transcript' = transcript + 1
         /\ UNCHANGED <<session, leased, connecting, stage>> /\ UNCHANGED jobVars

-----------------------------------------------------------------------------
(* Requests.                                                               *)
Queued(kind) == [status |-> "queued", kind |-> kind, rev |-> 1]

\* create_end_request, begin_end
RequestEnd(j, reason) ==
  /\ session.status \in Open
  /\ reason = "completed" => session.status = "active"
  /\ session' = [Moved("ending") EXCEPT !.pending = j, !.reason = reason]
  /\ AddJob(j, Queued("end"))
  /\ UNCHANGED <<leased, connecting, transcript, stage>>

Reports(statuses) == {j \in Job : job[j].kind = "report" /\ job[j].status \in statuses}

\* create_report_job returns the live Job of the session, if there is one.
MayReport == session.status = "completed" /\ session.report = NoJob
RequestReport(j) ==
  /\ MayReport /\ Reports(Live) = {}
  /\ AddJob(j, Queued("report"))
  /\ UNCHANGED iVars

\* cancel_job: an end that has started cannot be undone; an end withdrawn in time
\* cancels its session.
Bound(j) == IF job[j].kind = "end" THEN session.status = "ending" /\ session.pending = j
            ELSE session.status = "completed" /\ session.report = NoJob
CancellableAnyTime(j) == Bound(j)
Cancellable(j) == Bound(j) /\ (job[j].kind = "end" => cancel.status = "queued")

Cancel ==
  LET j == cancel.job
  IN  /\ j # NoJob
      /\ IF Swaps(j) /\ Cancellable(j)
         THEN /\ job' = Withdrawn(j)
              /\ session' = IF job[j].kind = "end" THEN Moved("cancelled") ELSE session
         ELSE UNCHANGED <<job, session>>
      /\ cancel' = NoRead
      /\ UNCHANGED <<leased, connecting, transcript, stage, delivery, worker, performed>>

-----------------------------------------------------------------------------
(* The worker, execute_queued_job.                                         *)
Limit(j) == IF job[j].kind = "report" THEN MaxReportAttempts ELSE MaxAttempts

\* The total deadline of a report Job counts from its first start.
Overdue(j) == job[j].kind = "report" /\ job[j].status = "running"

\* _fail_exhausted_job and the exhaustion hook: the Job, and for an end its session.
JobOnly(j) == session
FailedEnd(j) == IF session.pending = j THEN Moved("failed") ELSE session
Close(j) == /\ job' = [job EXCEPT ![j] = StartedAndClosed(j, "failed")]
            /\ session' = FailedEnd(j)

\* The handler returns at once: the Job is terminal, or a report is out of attempts
\* or time.
ReceiveNothing(j) ==
  /\ Receives(j)
  /\ IF JobSettled(j) THEN UNCHANGED <<job, session>>
     ELSE (delivery[j].attempt + 1 > Limit(j) \/ Overdue(j)) /\ Close(j)
  /\ AcknowledgeAtOnce(j)
  /\ UNCHANGED <<leased, connecting, transcript, stage, worker, performed, cancel>>

\* The first transaction; a report reads the transcript it will be judged by.
Prepare(w, j) ==
  /\ Receives(j) /\ worker[w] = Idle
  /\ ~JobSettled(j) /\ delivery[j].attempt + 1 <= Limit(j)
  /\ CASE job[j].kind = "end" -> session.pending = j
       [] OTHER -> MayReport
  /\ LET takes == job[j].kind = "report" \/ job[j].status = "queued"
         rev == IF takes THEN job[j].rev + 1 ELSE job[j].rev
     IN  /\ job' = [job EXCEPT ![j].status = "running", ![j].rev = rev]
         /\ Take(w, j, rev, session.rev)
  /\ stage' = [stage EXCEPT ![w] = [validating |-> FALSE, seen |-> transcript]]
  /\ UNCHANGED <<session, leased, connecting, transcript, performed, cancel>>

Rest == UNCHANGED <<leased, connecting, performed, cancel>>
Leave(w, settle) == Release(w, settle) /\ stage' = [stage EXCEPT ![w] = Fresh]

\* Both transactions that follow the first compare the two revisions it committed.
Holds(w) == HoldsJob(w) /\ worker[w].targetRev = session.rev

\* media_finalizer.finalize: outside any transaction, idempotent per operation.
Finalize(w) ==
  LET j == worker[w].job
  IN  /\ j # NoJob /\ job[j].kind = "end" /\ j \notin performed
      /\ performed' = performed \cup {j}
      /\ UNCHANGED <<job, delivery, worker, cancel>> /\ UNCHANGED iVars

\* _update_report_job_progress, once the model has answered.
ReportProgress(w) ==
  LET j == worker[w].job
  IN  /\ Holds(w) /\ job[j].kind = "report" /\ ~stage[w].validating
      /\ job' = [job EXCEPT ![j].rev = @ + 1]
      /\ worker' = [worker EXCEPT ![w].jobRev = @ + 1]
      /\ stage' = [stage EXCEPT ![w].validating = TRUE]
      /\ UNCHANGED <<session, transcript, delivery>> /\ Rest

Succeeds(w) == /\ job' = [job EXCEPT ![worker[w].job] = Closed(worker[w].job, "succeeded")]
               /\ performed' = performed \cup {worker[w].job}
               /\ Leave(w, TRUE)
               /\ UNCHANGED <<leased, connecting, cancel>>

\* finish_end: artifacts, analysed segments and the terminal status commit together.
StatusFor == CASE session.reason = "completed"      -> "completed"
               [] session.reason = "user_cancelled" -> "cancelled"
               [] OTHER -> "failed"
CompleteEnd(w) ==
  /\ Holds(w) /\ job[worker[w].job].kind = "end" /\ worker[w].job \in performed
  /\ session' = Moved(StatusFor)
  /\ transcript' \in transcript..MaxSegments
  /\ Succeeds(w)

CompleteReport(w) ==
  /\ Holds(w) /\ job[worker[w].job].kind = "report" /\ stage[w].validating
  /\ session' = [session EXCEPT !.rev = @ + 1, !.report = worker[w].job,
                                !.evidence = stage[w].seen]
  /\ UNCHANGED transcript
  /\ Succeeds(w)

\* _fail_end_job, _fail_report_job
Fail(w) == /\ Holds(w)
           /\ Close(worker[w].job)
           /\ Leave(w, TRUE)
           /\ UNCHANGED transcript /\ Rest

\* InterviewConflict: the Job changed under its handler; if it is over, so is the
\* handler, and the last attempt closes it.
Conflict(w) ==
  LET j == worker[w].job
  IN  /\ j # NoJob /\ ~Holds(w)
      /\ \/ JobSettled(j) /\ UNCHANGED <<job, session>> /\ Leave(w, TRUE)
         \/ ~JobSettled(j) /\ worker[w].attempt < Limit(j)
            /\ UNCHANGED <<job, session>> /\ Leave(w, FALSE)
         \/ ~JobSettled(j) /\ worker[w].attempt >= Limit(j)
            /\ Close(j) /\ Leave(w, TRUE)
      /\ UNCHANGED transcript /\ Rest

\* InterviewWorkerRetry at the last attempt or past the deadline: the Job is closed,
\* whoever else holds it.
GiveUp(w) ==
  LET j == worker[w].job
  IN  /\ j # NoJob /\ (worker[w].attempt >= Limit(j) \/ Overdue(j))
      /\ IF JobSettled(j) THEN UNCHANGED <<job, session>> ELSE Close(j)
      /\ Leave(w, TRUE)
      /\ UNCHANGED transcript /\ Rest

\* InterviewWorkerRetry before that, a lost lease or a crash; a report that is to be
\* retried says so in its progress.
Raise(w) == LET j == worker[w].job
            IN  /\ j # NoJob
                /\ \/ UNCHANGED job
                   \/ /\ Holds(w) /\ job[j].kind = "report"
                      /\ job' = [job EXCEPT ![j].rev = @ + 1]
                /\ Leave(w, FALSE)
                /\ UNCHANGED <<session, transcript>> /\ Rest

\* fail_exhausted
Exhaust(j) == /\ Spent(j)
              /\ IF JobSettled(j) THEN UNCHANGED <<job, session>> ELSE Close(j)
              /\ delivery' = [delivery EXCEPT ![j].open = FALSE]
              /\ UNCHANGED <<transcript, stage, worker>> /\ Rest

-----------------------------------------------------------------------------
Realtime == Issue \/ CommitConnection \/ MediaStarted \/ Utter
Requests(j) == \/ \E reason \in Reason : RequestEnd(j, reason)
               \/ RequestReport(j)
               \/ ReadForCancel(j) /\ UNCHANGED iVars
Receive(j) == ReceiveNothing(j) \/ \E w \in Worker : Prepare(w, j)
Ends(w) == \/ Finalize(w) \/ ReportProgress(w) \/ CompleteEnd(w) \/ CompleteReport(w)
           \/ Fail(w) \/ Conflict(w) \/ GiveUp(w) \/ Raise(w)

Next == \/ Realtime \/ Cancel
        \/ \E j \in Job : Requests(j) \/ Receive(j) \/ Exhaust(j)
        \/ \E w \in Worker : Ends(w)

Spec == Init /\ [][Next]_vars

-----------------------------------------------------------------------------
(* PROPERTIES                                                              *)

\* A session is ending exactly while one live end Job is pending on it: no handler,
\* hook or cancellation ends one of the two without the other, and no session is
\* left ending with nobody to end it (validate_interview_job_alignment).
EndingHasJob ==
  /\ session.status = "ending" <=> session.pending # NoJob
  /\ \A j \in Job : job[j].kind = "end" /\ job[j].status \in Live <=> session.pending = j

\* A session has at most one Report, made by the Job that succeeded from the whole
\* transcript, analysed segments included, and at most one Job trying to make it.
ReportIsWhole ==
  /\ \A i, j \in Reports(Live) : i = j
  /\ session.report # NoJob =>
       /\ session.status = "completed" /\ session.evidence = transcript
       /\ Reports({"succeeded"}) = {session.report} /\ Reports(Live) = {}
=============================================================================
