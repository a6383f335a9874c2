------------------------------- MODULE AgentRun -------------------------------
(***************************************************************************)
(* One Agent Run with its unified Job, its ToolApproval, the Resume        *)
(* Proposal it drafts, its Conversation, and the workers that dispatch its *)
(* three work events: agent.run.queued, agent.tool_decision.recorded and   *)
(* agent.proposal_decision.recorded.                                       *)
(*                                                                         *)
(* Each action is one database transaction or one external call; workers   *)
(* lose the processor between any two of them.  The outbox row of an event *)
(* is kept as state, attempt and holder, which is what OutboxDispatch      *)
(* guarantees of it.  A Resume, policy or Knowledge change during the      *)
(* first model call is not told apart from a Conversation edit: each makes *)
(* the refreshed grant differ from the one the Run holds.                  *)
(***************************************************************************)
EXTENDS Naturals

CONSTANTS Worker, Nobody,
          Outcome,      \* what the model provider may return to the first call
          MaxAttempts,  \* settings.maximum_attempts
          MaxFaults,    \* bound: crashes, stalls and storage errors
          MaxEdits      \* bound: edits of the Conversation by its users

ASSUME WorkerAssumption  == Nobody \notin Worker
ASSUME OutcomeAssumption == Outcome \subseteq {"answer", "tool", "proposal", "failure"}
ASSUME BoundAssumption   == /\ MaxAttempts \in Nat \ {0}
                            /\ MaxFaults \in Nat /\ MaxEdits \in Nat

VARIABLES run,      \* the AgentRun; its grant stays that of the creation (save_run)
          job, approval, proposal,
          conv,     \* the Conversation: revision, whether it is writable, edits so far
          event,    \* event[e]: the outbox row of each work event
          worker,   \* worker[w]: locals of the handler w is running
          output,   \* Messages the Run wrote, and whether its tool has been called
          faults

vars == <<run, job, approval, proposal, conv, event, worker, output, faults>>

Event     == {"queued", "tool", "proposal"}
Done      == {"succeeded", "failed", "cancelled"}
RunStatus == {"absent", "queued", "running", "waiting_for_approval",
              "waiting_for_proposal_decision"} \cup Done
JobStatus == {"absent", "queued", "running"} \cup Done
JobPhase  == {"none", "model_execution", "waiting_for_approval", "tool_decision_recorded",
              "waiting_for_proposal_decision", "proposal_decision_recorded",
              "authorization_failed"}
Step      == {"idle", "prepare", "preflight", "external", "commit", "fail", "supersede",
              "settle", "hook", "retry"}
ConvRev   == 0..(MaxEdits + 2)
Rev       == 0..6

RunRecord == [status : RunStatus, rev : Rev, grant : ConvRev]
JobRecord == [status : JobStatus, rev : Rev, phase : JobPhase]
ProposalRecord == [status : {"none", "pending", "accepted", "rejected"},
                   owned : BOOLEAN, moved : BOOLEAN]
Session   == [rev : ConvRev, writable : BOOLEAN, edits : 0..MaxEdits]
EventRow  == [state : {"none", "open", "published", "failed"}, attempt : 0..MaxAttempts,
              holder : Worker \cup {Nobody}, run : Rev, job : Rev]
Local     == [event : Event, step : Step, attempt : 0..MaxAttempts, run : Rev, job : Rev,
              grant : ConvRev, outcome : Outcome \cup {"none"}]

TypeOK ==
  /\ run \in RunRecord /\ job \in JobRecord
  /\ approval \in {"none", "pending", "approved", "rejected", "expired"}
  /\ proposal \in ProposalRecord
  /\ conv \in Session
  /\ event \in [Event -> EventRow]
  /\ worker \in [Worker -> Local]
  /\ output \in [answers : 0..1, drafts : 0..1, tool : BOOLEAN]
  /\ faults \in 0..MaxFaults

-----------------------------------------------------------------------------
Absent == [state |-> "none", attempt |-> 0, holder |-> Nobody, run |-> 0, job |-> 0]
Idle   == [event |-> "queued", step |-> "idle", attempt |-> 0, run |-> 0, job |-> 0,
           grant |-> 0, outcome |-> "none"]

Init ==
  /\ run = [status |-> "absent", rev |-> 0, grant |-> 0]
  /\ job = [status |-> "absent", rev |-> 0, phase |-> "none"]
  /\ approval = "none"
  /\ proposal = [status |-> "none", owned |-> TRUE, moved |-> FALSE]
  /\ conv = [rev |-> 0, writable |-> TRUE, edits |-> 0]
  /\ event = [e \in Event |-> Absent]
  /\ worker = [w \in Worker |-> Idle]
  /\ output = [answers |-> 0, drafts |-> 0, tool |-> FALSE]
  /\ faults = 0

Terminal == run.status \in Done
Fault    == faults < MaxFaults /\ faults' = faults + 1

\* save_run and jobs.save of one transaction, each with its next revision.  The
\* Postgres save_run never writes execution_grant: the grant of the creation stays.
Saved(status) == [run EXCEPT !.status = status, !.rev = run.rev + 1]
SaveJob(status, phase) == job' = [status |-> status, rev |-> job.rev + 1, phase |-> phase]
Save(status, jobStatus, phase) == run' = Saved(status) /\ SaveJob(jobStatus, phase)
Close(status) == Save(status, status, job.phase)

\* A pending approval is rejected, or expired when its deadline has passed.
CloseApproval == IF run.status = "waiting_for_approval"
                 THEN approval' \in {"rejected", "expired"} ELSE UNCHANGED approval

Emitted(e, r, j) == [event EXCEPT ![e] =
  [state |-> "open", attempt |-> 0, holder |-> Nobody, run |-> r, job |-> j]]

\* allocate_message_sequence advances the Conversation with every Message.
Advanced(c) == [c EXCEPT !.rev = c.rev + 1]

-----------------------------------------------------------------------------
(* Requests of users                                                       *)

CreateAgentRun ==
  /\ run.status = "absent" /\ conv.writable
  /\ run' = [status |-> "queued", rev |-> 1, grant |-> conv.rev]
  /\ job' = [status |-> "queued", rev |-> 1, phase |-> "none"]
  /\ event' = Emitted("queued", 1, 1)
  /\ UNCHANGED <<approval, proposal, conv, worker, output, faults>>

UpdateConversation ==
  /\ conv.edits < MaxEdits
  /\ \E wr \in BOOLEAN :
       conv' = [rev |-> conv.rev + 1, writable |-> wr, edits |-> conv.edits + 1]
  /\ UNCHANGED <<run, job, approval, proposal, event, worker, output, faults>>

CancelAgentRun ==
  /\ run.status \in RunStatus \ (Done \cup {"absent"})
  /\ CloseApproval
  /\ Close("cancelled")
  /\ UNCHANGED <<proposal, conv, event, worker, output, faults>>

\* Cancelling the Job synchronises the Run, but not while it waits for a Proposal.
CancelJob ==
  /\ \/ job.status = "queued"  /\ run.status = "queued"
     \/ job.status = "running" /\ run.status \in {"running", "waiting_for_approval"}
  /\ CloseApproval
  /\ Close("cancelled")
  /\ UNCHANGED <<proposal, conv, event, worker, output, faults>>

DecideToolApproval ==
  /\ approval = "pending" /\ run.status = "waiting_for_approval"
  /\ \/ /\ approval' = "expired"
        /\ Close("failed")
        /\ UNCHANGED event
     \/ /\ approval' \in {"approved", "rejected"}
        /\ Save("running", "running", "tool_decision_recorded")
        /\ event' = Emitted("tool", run.rev + 1, job.rev + 1)
  /\ UNCHANGED <<proposal, conv, worker, output, faults>>

\* Any editor of the Workspace may decide; the event carries the decider.
DecideProposal ==
  /\ proposal.status = "pending"
  /\ \E d \in {"accepted", "rejected"}, own \in BOOLEAN :
       proposal' = [status |-> d, owned |-> own, moved |-> FALSE]
  /\ event' = Emitted("proposal", 0, 0)
  /\ UNCHANGED <<run, job, approval, conv, worker, output, faults>>

\* A later edit supersedes the Resume revision the decision named.
EditResume ==
  /\ proposal.status \in {"accepted", "rejected"} /\ ~proposal.moved
  /\ proposal' = [proposal EXCEPT !.moved = TRUE]
  /\ UNCHANGED <<run, job, approval, conv, event, worker, output, faults>>

-----------------------------------------------------------------------------
(* The dispatcher around a handler                                         *)

\* A lease lost at the last attempt is claimed again without another attempt.
AvailableBefore0027(e) == /\ event[e].state = "open" /\ event[e].holder = Nobody
                          /\ event[e].attempt < MaxAttempts
Available(e) == event[e].state = "open" /\ event[e].holder = Nobody
NextAttempt(e) == IF event[e].attempt < MaxAttempts THEN event[e].attempt + 1 ELSE MaxAttempts

Claim(w, e) ==
  /\ worker[w].step = "idle" /\ Available(e)
  /\ event' = [event EXCEPT ![e] =
       [event[e] EXCEPT !.attempt = NextAttempt(e), !.holder = w]]
  /\ worker' = [worker EXCEPT ![w] =
       [Idle EXCEPT !.event = e, !.step = "prepare", !.attempt = NextAttempt(e)]]
  /\ UNCHANGED <<run, job, approval, proposal, conv, output, faults>>

At(w, e, step) == worker[w].event = e /\ worker[w].step = step
Goto(w, step)  == worker' = [worker EXCEPT ![w] = [worker[w] EXCEPT !.step = step]]
Stop(w)        == worker' = [worker EXCEPT ![w] = Idle]

\* The handler raises: at the cap the exhaustion hook comes before the retry.
RaiseWithoutHook(w) == Goto(w, "retry")
Raise(w) == Goto(w, IF worker[w].attempt >= MaxAttempts THEN "hook" ELSE "retry")

Unsaved == UNCHANGED <<run, job, approval, proposal, conv, event, output, faults>>

Released(e, state) == [event EXCEPT ![e] = [event[e] EXCEPT !.state = state, !.holder = Nobody]]
Holds(w)           == event[worker[w].event].holder = w

Complete(w) ==
  /\ worker[w].step = "settle"
  /\ event' = IF Holds(w) THEN Released(worker[w].event, "published") ELSE event
  /\ Stop(w)
  /\ UNCHANGED <<run, job, approval, proposal, conv, output, faults>>

Retry(w) ==
  /\ worker[w].step = "retry"
  /\ event' = IF ~Holds(w) THEN event
              ELSE Released(worker[w].event,
                            IF worker[w].attempt >= MaxAttempts THEN "failed" ELSE "open")
  /\ Stop(w)
  /\ UNCHANGED <<run, job, approval, proposal, conv, output, faults>>

\* A process dies, or its transaction is refused by storage: the continuation
\* takes that for a failure of the provider, every other handler raises.
Crash(w) == worker[w].step # "idle" /\ Fault /\ Stop(w)
            /\ UNCHANGED <<run, job, approval, proposal, conv, event, output>>
StorageError(w) ==
  /\ worker[w].step \in {"prepare", "preflight", "commit", "fail", "supersede"}
  /\ Fault
  /\ IF worker[w].step = "commit" /\ worker[w].event = "proposal"
     THEN Goto(w, "fail") ELSE Raise(w)
  /\ UNCHANGED <<run, job, approval, proposal, conv, event, output>>

\* A lease runs out: nobody works on the event (no fault), or its holder stalls.
LeaseExpires(e) ==
  /\ event[e].state = "open" /\ event[e].holder # Nobody
  /\ LET h == event[e].holder
     IN IF worker[h].step # "idle" /\ worker[h].event = e THEN Fault ELSE UNCHANGED faults
  /\ event' = Released(e, "open")
  /\ UNCHANGED <<run, job, approval, proposal, conv, worker, output>>

\* The heartbeat of a worker that lost its lease cancels the handler or the hook.
LeaseLost(w) ==
  /\ worker[w].step \notin {"idle", "settle", "retry"} /\ ~Holds(w)
  /\ Stop(w) /\ Unsaved

-----------------------------------------------------------------------------
(* agent.run.queued: execute_run                                           *)

\* _require_queued_handoff_revision
Handed(k, phase) == /\ run.rev = event["queued"].run + k
                    /\ job.rev = event["queued"].job + k
                    /\ job.phase = phase
InModel == run.status = "running" /\ job.phase = "model_execution"

HandedOff == \/ run.status = "waiting_for_approval" /\ Handed(2, "waiting_for_approval")
             \/ run.status = "waiting_for_proposal_decision"
                  /\ Handed(2, "waiting_for_proposal_decision")
             \/ run.status = "running" /\ Handed(3, "tool_decision_recorded")

\* The locals that outlive the transaction: revisions and grant, read in it.
Snapshot(w) == worker' = [worker EXCEPT ![w] = [worker[w] EXCEPT
  !.step = "external", !.run = run'.rev, !.job = job'.rev, !.grant = conv.rev]]

\* _prepare_execution
PrepareExecution(w) ==
  /\ At(w, "queued", "prepare")
  /\ \/ (Terminal \/ HandedOff) /\ Goto(w, "settle") /\ UNCHANGED <<run, job>>
     \/ /\ run.status = "queued" /\ conv.writable /\ Handed(0, "none")
        /\ Save("running", "running", "model_execution")
        /\ Snapshot(w)
     \/ /\ InModel /\ conv.writable /\ Handed(1, "model_execution") /\ conv.rev = run.grant
        /\ UNCHANGED <<run, job>>
        /\ Snapshot(w)
     \/ /\ ~Terminal /\ ~HandedOff
        /\ (run.status = "queued" \/ InModel) =>
             ~conv.writable \/ (InModel /\ conv.rev # run.grant)
        /\ Goto(w, "preflight") /\ UNCHANGED <<run, job>>
  /\ UNCHANGED <<approval, proposal, conv, event, output, faults>>

\* _record_preflight_failure: a queued pair starts and fails in one transaction.
RecordPreflightFailure(w) ==
  /\ worker[w].step = "preflight"
  /\ \/ Terminal /\ Goto(w, "settle") /\ UNCHANGED <<run, job>>
     \/ /\ run.status = "queued" /\ Handed(0, "none")
        /\ run' = [run EXCEPT !.status = "failed", !.rev = run.rev + 2]
        /\ job' = [status |-> "failed", rev |-> job.rev + 2, phase |-> "authorization_failed"]
        /\ Goto(w, "settle")
     \/ InModel /\ Handed(1, "model_execution") /\ Close("failed") /\ Goto(w, "settle")
     \/ /\ ~Terminal /\ run.status # "queued" /\ ~InModel
        /\ Raise(w) /\ UNCHANGED <<run, job>>
  /\ UNCHANGED <<approval, proposal, conv, event, output, faults>>

\* The model provider answers; a continuation may only answer or fail.  What the
\* commit rejects of an answer (an unregistered tool, an unusable draft) is a failure.
CallModel(w) ==
  /\ worker[w].step = "external" /\ worker[w].event # "tool"
  /\ \E o \in Outcome :
       /\ worker[w].event = "proposal" => o \in {"answer", "failure"}
       /\ worker' = [worker EXCEPT ![w] = [worker[w] EXCEPT
            !.step = IF o = "failure" THEN "fail" ELSE "commit", !.outcome = o]]
  /\ Unsaved

Same(w) == run.rev = worker[w].run /\ job.rev = worker[w].job

-----------------------------------------------------------------------------
(* _commit_provider_outcome, for the first call and for a continuation     *)

Committing(w) == worker[w].step = "commit" /\ worker[w].event # "tool"

\* AgentPolicyDenied: recorded as the Run's failure.
Denied(w) == ~conv.writable \/ conv.rev # worker[w].grant
Superseded(w) == worker[w].event = "proposal" /\ proposal.moved

CommitRefused(w) ==
  /\ Committing(w)
  /\ \/ run.status = "cancelled" /\ Goto(w, "settle")
     \/ /\ run.status # "cancelled" /\ ~Same(w)
        /\ IF worker[w].event = "queued" THEN Raise(w) ELSE Goto(w, "fail")
     \/ /\ run.status # "cancelled" /\ Same(w) /\ (Denied(w) \/ Superseded(w))
        \* the superseded path of a continuation leaves "invocations" unbound
        /\ IF conv.writable /\ Superseded(w) THEN Raise(w) ELSE Goto(w, "fail")
  /\ Unsaved

MayCommit(w, o) == /\ Committing(w) /\ worker[w].outcome = o
                   /\ run.status # "cancelled" /\ Same(w)
                   /\ ~Denied(w) /\ ~Superseded(w)

CommitCompletion(w) ==
  /\ MayCommit(w, "answer")
  /\ Close("succeeded")
  /\ output' = [output EXCEPT !.answers = output.answers + 1]
  /\ conv' = Advanced(conv)
  /\ Goto(w, "settle")
  /\ UNCHANGED <<approval, proposal, event, faults>>

CommitToolApproval(w) ==
  /\ MayCommit(w, "tool")
  /\ approval' = "pending"
  /\ Save("waiting_for_approval", "running", "waiting_for_approval")
  /\ Goto(w, "settle")
  /\ UNCHANGED <<proposal, conv, event, output, faults>>

CommitProposalInterruption(w) ==
  /\ MayCommit(w, "proposal")
  /\ proposal' = [proposal EXCEPT !.status = "pending"]
  /\ output' = [output EXCEPT !.drafts = output.drafts + 1]
  /\ conv' = Advanced(conv)
  /\ Save("waiting_for_proposal_decision", "running", "waiting_for_proposal_decision")
  /\ Goto(w, "settle")
  /\ UNCHANGED <<approval, event, faults>>

\* _record_run_failure
RecordRunFailure(w) ==
  /\ worker[w].step = "fail" /\ worker[w].event # "tool"
  /\ \/ run.status = "cancelled" /\ Goto(w, "settle") /\ UNCHANGED <<run, job>>
     \/ run.status # "cancelled" /\ ~Same(w) /\ Raise(w) /\ UNCHANGED <<run, job>>
     \/ run.status # "cancelled" /\ Same(w) /\ Close("failed") /\ Goto(w, "settle")
  /\ UNCHANGED <<approval, proposal, conv, event, output, faults>>

-----------------------------------------------------------------------------
(* agent.tool_decision.recorded: execute_approved_tool                     *)

\* _require_tool_decision_binding, for a Run still running and for a replay.
ToolBoundLoose == run.status # "cancelled"
ToolBound  == /\ run.status = "running"
              /\ run.rev = event["tool"].run /\ job.rev = event["tool"].job
ToolReplay == /\ Terminal
              /\ run.rev = event["tool"].run + 1 /\ job.rev = event["tool"].job + 1

PrepareToolUnchecked(w) ==
  /\ At(w, "tool", "prepare")
  /\ Goto(w, IF ToolReplay THEN "settle" ELSE "external")
  /\ Unsaved
PrepareToolDecision(w) ==
  /\ At(w, "tool", "prepare")
  /\ IF ToolReplay THEN Goto(w, "settle")
     ELSE IF ~ToolBound THEN Raise(w)
     ELSE Goto(w, IF approval = "approved" THEN "external" ELSE "fail")
  /\ Unsaved

\* The tool adapter; the event identity makes a repeated call idempotent.
CallTool(w) ==
  /\ At(w, "tool", "external")
  /\ output' = [output EXCEPT !.tool = TRUE]
  /\ \E step \in {"commit", "fail"} : Goto(w, step)
  /\ UNCHANGED <<run, job, approval, proposal, conv, event, faults>>

\* _record_tool_success and _record_tool_failure
RecordTool(w) ==
  /\ worker[w].event = "tool" /\ worker[w].step \in {"commit", "fail"}
  /\ \/ /\ ~ToolBound
        /\ IF ToolReplay THEN Goto(w, "settle") ELSE Raise(w)
        /\ UNCHANGED <<run, job, conv, output>>
     \/ /\ ToolBound /\ Goto(w, "settle")
        /\ \/ /\ worker[w].step = "fail"
              /\ Close("failed") /\ UNCHANGED <<conv, output>>
           \/ /\ worker[w].step = "commit" /\ ~conv.writable
              /\ Close("cancelled") /\ UNCHANGED <<conv, output>>
           \/ /\ worker[w].step = "commit" /\ conv.writable
              /\ Close("succeeded")
              /\ conv' = Advanced(conv)
              /\ output' = [output EXCEPT !.answers = output.answers + 1]
  /\ UNCHANGED <<approval, proposal, event, faults>>

-----------------------------------------------------------------------------
(* agent.proposal_decision.recorded: resume_after_proposal_decision        *)

Waiting == run.status = "waiting_for_proposal_decision"

\* _is_committed_proposal_resume_grant_delta: one revision of slack, which the
\* draft Message of the Run itself has used up.
SessionDelta == conv.rev \in {run.grant, run.grant + 1}

\* The Job reports the continuation once, not again on a replay.
ReportedAgain == [status |-> "running", rev |-> job.rev + 1,
                  phase |-> "proposal_decision_recorded"]
Reported == IF job.phase = "proposal_decision_recorded" THEN job
            ELSE [status |-> "running", rev |-> job.rev + 1,
                  phase |-> "proposal_decision_recorded"]

\* _prepare_proposal_continuation; a worker acting for another decider finds no Run.
PrepareProposalContinuation(w) ==
  /\ At(w, "proposal", "prepare")
  /\ \/ ~proposal.owned /\ Raise(w) /\ UNCHANGED <<run, job>>
     \/ proposal.owned /\ Terminal /\ Goto(w, "settle") /\ UNCHANGED <<run, job>>
     \/ /\ proposal.owned /\ Waiting /\ conv.writable /\ ~proposal.moved /\ SessionDelta
        /\ UNCHANGED run
        /\ job' = Reported
        /\ Snapshot(w)
     \/ /\ proposal.owned /\ ~Terminal
        /\ ~Waiting \/ ~conv.writable \/ proposal.moved \/ ~SessionDelta
        /\ IF Waiting /\ conv.writable /\ proposal.moved /\ proposal.status = "accepted"
           THEN Goto(w, "supersede") ELSE Raise(w)
        /\ UNCHANGED <<run, job>>
  /\ UNCHANGED <<approval, proposal, conv, event, output, faults>>

\* _record_proposal_continuation_failure
RecordContinuationFailure(w) ==
  /\ worker[w].step = "supersede"
  /\ \/ Terminal /\ UNCHANGED <<run, job>>
     \/ Waiting /\ Close("failed")
  /\ Goto(w, "settle")
  /\ UNCHANGED <<approval, proposal, conv, event, output, faults>>

-----------------------------------------------------------------------------
(* on_exhausted and fail_exhausted; the subject of a proposal decision is  *)
(* not an agent_run, so its hook raises and leaves run_once.               *)
FailExhaustedKeepingApproval(w) ==
  /\ worker[w].step = "hook" /\ worker[w].event # "proposal"
  /\ \/ Terminal /\ UNCHANGED <<run, job>>
     \/ ~Terminal /\ Close(IF run.status = "queued" THEN "cancelled" ELSE "failed")
  /\ Goto(w, "retry")
  /\ UNCHANGED <<approval, proposal, conv, event, output, faults>>
FailExhausted(w) ==
  /\ worker[w].step = "hook" /\ worker[w].event # "proposal"
  /\ CloseApproval
  /\ \/ Terminal /\ UNCHANGED <<run, job>>
     \/ ~Terminal /\ Close(IF run.status = "queued" THEN "cancelled" ELSE "failed")
  /\ Goto(w, "retry")
  /\ UNCHANGED <<proposal, conv, event, output, faults>>

HookRaises(w) ==
  /\ worker[w].step = "hook"
  /\ IF worker[w].event = "proposal" THEN UNCHANGED faults ELSE Fault
  /\ Stop(w)
  /\ UNCHANGED <<run, job, approval, proposal, conv, event, output>>

-----------------------------------------------------------------------------
\* The next step of the handler a worker is running.
Handle(w) ==
  \/ PrepareExecution(w) \/ RecordPreflightFailure(w) \/ CallModel(w)
  \/ CommitRefused(w) \/ CommitCompletion(w) \/ CommitToolApproval(w)
  \/ CommitProposalInterruption(w) \/ RecordRunFailure(w)
  \/ PrepareToolDecision(w) \/ CallTool(w) \/ RecordTool(w)
  \/ PrepareProposalContinuation(w) \/ RecordContinuationFailure(w)
  \/ FailExhausted(w) \/ (worker[w].event = "proposal" /\ HookRaises(w))
  \/ Complete(w) \/ Retry(w)

Request == \/ CreateAgentRun \/ UpdateConversation \/ CancelAgentRun \/ CancelJob
           \/ DecideToolApproval \/ DecideProposal \/ EditResume

Next == \/ Request
        \/ \E w \in Worker : \/ \E e \in Event : Claim(w, e)
                             \/ Handle(w) \/ HookRaises(w)
                             \/ Crash(w) \/ StorageError(w) \/ LeaseLost(w)
        \/ \E e \in Event : LeaseExpires(e)

Spec == Init /\ [][Next]_vars

\* Handlers, dispatch loops and leases make progress; users owe nothing.
Fairness == /\ \A w \in Worker : WF_vars(Handle(w))
            /\ \A e \in Event : WF_vars(\E w \in Worker : Claim(w, e))
            /\ \A e \in Event :
                 WF_vars(/\ event[e].holder \in Worker
                         /\ (worker[event[e].holder].step = "idle"
                              \/ worker[event[e].holder].event # e)
                         /\ LeaseExpires(e))
FairSpec == Spec /\ Fairness

-----------------------------------------------------------------------------
(* PROPERTIES                                                              *)

\* Run and Job never part: same status, and revisions that differ by exactly
\* the Job's progress report of a continuation (validate_run_job_alignment and
\* the revision arithmetic of the handlers).
JobOf(s) == IF s \in {"waiting_for_approval", "waiting_for_proposal_decision"}
            THEN "running" ELSE s
Aligned == /\ job.status = JobOf(run.status)
           /\ job.rev = IF job.phase = "proposal_decision_recorded" THEN run.rev + 1 ELSE run.rev

\* A question to the user is open exactly while its Run waits for it, whichever
\* of the two cancel requests, the decision or the exhaustion hook ends the wait.
ApprovalFollowsRun == approval = "pending" <=> run.status = "waiting_for_approval"

\* No Run is orphaned: while a Run is not waiting for a person and not over, an
\* outbox event that will move it is still open.
StepIsOwned ==
  /\ run.status = "queued" \/ InModel => event["queued"].state = "open"
  /\ run.status = "running" /\ ~InModel => event["tool"].state = "open"
  /\ Waiting /\ proposal.status \in {"accepted", "rejected"} => event["proposal"].state = "open"

\* One Run writes one final Message, and only by succeeding, however often its
\* events are delivered; a Proposal has one draft Message.
OneAnswer == /\ output.answers = (IF run.status = "succeeded" THEN 1 ELSE 0)
             /\ output.drafts = (IF proposal.status = "none" THEN 0 ELSE 1)

\* A Run that is over is never touched again, by a stale worker, a redelivered
\* event or a late hook; neither is its Job, its approval or its output.
TerminalStep == Terminal => /\ UNCHANGED <<run, job, approval>>
                            /\ output'.answers = output.answers
TerminalIsFinal == [][TerminalStep]_vars

\* What the user is promised.
Lifecycle == INSTANCE AgentRunLifecycle WITH
  status  <- run.status,
  consent <- (IF approval = "none" THEN "none" ELSE IF approval = "pending" THEN "asked"
              ELSE IF approval = "approved" THEN "given" ELSE "refused"),
  called  <- output.tool,
  answers <- output.answers
Implements == Lifecycle!LSpec

\* A Run that is queued or running gets somewhere: it is over, or it waits for a
\* person, whatever its handlers, leases and storage do (finitely many faults).
RunSettles == run.status \in {"queued", "running"} ~> run.status \notin {"queued", "running"}

\* OutboxExhaustionHandler: the hook "must close all non-terminal domain resources
\* owned by the event"; so a decided Proposal ends its Run one way or the other.
DecidedProposalSettles ==
  Waiting /\ proposal.status \in {"accepted", "rejected"} ~> Terminal
=============================================================================
