---------------------------- MODULE AgentRunProofs ----------------------------
(***************************************************************************)
(* Theorems about AgentRun for every number of workers, attempts, faults   *)
(* and edits, and every set of outcomes of the model provider.             *)
(***************************************************************************)
EXTENDS AgentRun, TLAPS

Pending      == run.status \in {"absent", "queued"} \/ InModel
Decided      == proposal.status \in {"accepted", "rejected"}
ToolRecorded == run.status = "running" /\ job.phase = "tool_decision_recorded"
Continuing   == Waiting /\ job.phase = "proposal_decision_recorded"

\* Where a Run stands determines its revision and the phase of its Job.
Path ==
  /\ Aligned
  /\ run.status = "absent"  => run.rev = 0 /\ job.phase = "none"
  /\ run.status = "queued"  => run.rev = 1 /\ job.phase = "none"
  /\ run.status = "running" => (InModel /\ run.rev = 2) \/ (ToolRecorded /\ run.rev = 4)
  /\ run.status = "waiting_for_approval" => run.rev = 3 /\ job.phase = "waiting_for_approval"
  /\ Waiting => run.rev = 3 /\ job.phase \in {"waiting_for_proposal_decision",
                                              "proposal_decision_recorded"}
  /\ Terminal => run.rev \in 2..5

\* Which questions a Run has asked, and what its tool needed.
Consent ==
  /\ ApprovalFollowsRun
  /\ Pending \/ Waiting => approval = "none"
  /\ Pending => proposal.status = "none"
  /\ ToolRecorded => approval \in {"approved", "rejected"}
  /\ output.tool => approval = "approved"

\* Each Message and each edit is one revision of the Conversation.
Written == OneAnswer /\ conv.rev = conv.edits + output.answers + output.drafts

CoreInv == Path /\ Consent /\ Written

\* What a worker may rely on after the transaction it read its locals in: its
\* revisions are those of the Run as long as the Run has not moved on.
LocalInv(l) ==
  LET called == l.step \in {"external", "commit", "fail"}
  IN /\ l.step # "idle" => run.status # "absent"
     /\ l.event = "queued" /\ called =>
          l.run = 2 /\ l.job = 2 /\ (InModel \/ run.rev >= 3)
     /\ l.event = "proposal" /\ called =>
          l.run = 3 /\ l.job = 4 /\ (Continuing \/ run.rev >= 4)
     /\ l.event = "proposal" /\ l.step = "commit" => l.outcome = "answer"
     /\ l.event = "tool" /\ l.step \in {"external", "commit"} => approval = "approved"
     /\ l.event = "tool" /\ l.step = "commit" => output.tool
     /\ l.step = "settle" => IF l.event = "queued" THEN ~Pending ELSE Terminal
     /\ l.step = "retry" /\ l.attempt >= MaxAttempts => Terminal

WorkerInv(w) == LocalInv(worker[w])

\* No event precedes its Run.
EventInv == StepIsOwned /\ \A e \in Event : event[e].state # "none" => run.status # "absent"

IInv == TypeOK /\ CoreInv /\ (\A w \in Worker : WorkerInv(w)) /\ EventInv

-----------------------------------------------------------------------------
\* What no step takes back.
Forward ==
  /\ InModel => InModel' \/ run'.rev >= 3
  /\ Continuing => Continuing' \/ run'.rev >= 4
  /\ run'.rev >= run.rev
  /\ run.status # "absent" => run'.status # "absent"
  /\ ~Pending => ~Pending'
  /\ Terminal => Terminal'
  /\ approval = "approved" => approval' = "approved"
  /\ output.tool => output'.tool

CoreType ==
  /\ run \in RunRecord /\ job \in JobRecord
  /\ approval \in {"none", "pending", "approved", "rejected", "expired"}
  /\ proposal \in ProposalRecord
  /\ conv \in Session
  /\ output \in [answers : 0..1, drafts : 0..1, tool : BOOLEAN]

CoreDone == CoreType' /\ CoreInv' /\ Forward

\* One save of the Run and its Job.
LEMMA SaveStep ==
  ASSUME CoreType, run.rev \in 0..5, job.rev \in 0..5,
         NEW s \in RunStatus, NEW j \in JobStatus, NEW p \in JobPhase, Save(s, j, p)
  PROVE  /\ run' \in RunRecord /\ run'.status = s /\ run'.rev = run.rev + 1
         /\ job' \in JobRecord /\ job'.status = j /\ job'.rev = job.rev + 1 /\ job'.phase = p
<1>1. run.rev + 1 \in Rev /\ job.rev + 1 \in Rev
  BY DEF Rev
<1>2. run' = [run EXCEPT !.status = s, !.rev = run.rev + 1]
      /\ job' = [status |-> j, rev |-> job.rev + 1, phase |-> p]
  BY DEF Save, Saved, SaveJob
<1>3. QED
  BY <1>1, <1>2 DEF CoreType, RunRecord, JobRecord

\* The revisions an open Run can have.
LEMMA OpenRun ==
  ASSUME CoreType, CoreInv, run.status \notin Done
  PROVE  /\ run.rev \in 0..4 /\ job.rev \in 0..4 /\ ~Terminal
         /\ job.status \notin Done
BY DEF CoreType, RunRecord, JobRecord, RunStatus, Done, Terminal, CoreInv, Path, Aligned, JobOf,
       InModel, ToolRecorded, Waiting, Rev

\* Closing an open Run, with the question it may still be asking.
LEMMA CloseStep ==
  ASSUME CoreType, CoreInv, run.status \in RunStatus \ (Done \cup {"absent"}),
         NEW s \in {"failed", "cancelled"}, Close(s), CloseApproval,
         UNCHANGED <<proposal, conv, output>>
  PROVE  CoreDone
<1>. USE DEF CoreType, Done, RunStatus
<1>1. /\ run' \in RunRecord /\ run'.status = s /\ run'.rev = run.rev + 1
      /\ job' \in JobRecord /\ job'.status = s /\ job'.rev = job.rev + 1 /\ job'.phase = job.phase
  BY OpenRun, SaveStep DEF Close, JobStatus, JobRecord
<1>2. Terminal' /\ ~Terminal /\ run.rev \in 1..4
  BY <1>1, OpenRun DEF Terminal, CoreInv, Path, InModel, ToolRecorded, Waiting
<1>3. approval' = approval \/ (approval = "pending" /\ approval' \in {"rejected", "expired"})
  BY DEF CloseApproval, CoreInv, Consent, ApprovalFollowsRun
<1>4. Path'
  BY <1>1, <1>2 DEF CoreInv, Path, Aligned, JobOf, Terminal, InModel, ToolRecorded, Waiting
<1>5. Consent'
  BY <1>1, <1>2, <1>3 DEF CoreInv, Consent, ApprovalFollowsRun, CloseApproval, Pending, InModel,
     ToolRecorded, Waiting
<1>6. Written'
  BY <1>1, <1>2 DEF CoreInv, Written, OneAnswer, Terminal
<1>7. Forward
  BY <1>1, <1>2, <1>3 DEF CoreInv, Path, Forward, Pending, InModel, Continuing, Waiting, Terminal,
     ToolRecorded
<1>8. QED
  BY <1>1, <1>3, <1>4, <1>5, <1>6, <1>7 DEF CoreDone, CoreInv

\* Steps that leave the Run, its Job, its questions and its output alone.
LEMMA CoreStays ==
  ASSUME CoreType, CoreInv, UNCHANGED <<run, job, approval, proposal, conv, output>>
  PROVE  CoreDone
<1>1. CoreType'
  BY DEF CoreType
<1>2. CoreInv'
  BY DEF CoreInv, Path, Consent, Written, Aligned, ApprovalFollowsRun, OneAnswer, Pending,
     InModel, ToolRecorded, Waiting, Terminal
<1>3. Forward
  BY DEF Forward, Pending, InModel, Continuing, Waiting, Terminal, CoreType, RunRecord, Rev
<1>4. QED
  BY <1>1, <1>2, <1>3 DEF CoreDone

-----------------------------------------------------------------------------
\* Requests of users.
LEMMA CreateStep ==
  ASSUME CoreType, CoreInv, CreateAgentRun
  PROVE  CoreDone
<1>. USE DEF CreateAgentRun
<1>1. CoreType'
  BY DEF CoreType, RunRecord, JobRecord, RunStatus, JobStatus, JobPhase, Rev, Session
<1>2. CoreInv'
  BY DEF CoreInv, Path, Consent, Written, Aligned, JobOf, ApprovalFollowsRun, OneAnswer, Pending,
     InModel, ToolRecorded, Waiting, Terminal, Done
<1>3. Forward
  BY DEF CoreInv, Path, Forward, Pending, InModel, Continuing, Waiting, Terminal, Done
<1>4. QED
  BY <1>1, <1>2, <1>3 DEF CoreDone

LEMMA UpdateStep ==
  ASSUME CoreType, CoreInv, UpdateConversation
  PROVE  CoreDone
<1>. USE DEF UpdateConversation
<1>1. PICK wr \in BOOLEAN :
        conv' = [rev |-> conv.rev + 1, writable |-> wr, edits |-> conv.edits + 1]
  OBVIOUS
<1>2. /\ conv.rev = conv.edits + output.answers + output.drafts
      /\ conv.edits \in 0..MaxEdits /\ output.answers \in 0..1 /\ output.drafts \in 0..1
  BY DEF CoreType, Session, CoreInv, Written
<1>3. conv.rev + 1 \in ConvRev /\ conv.edits + 1 \in 0..MaxEdits
  BY <1>2, BoundAssumption DEF ConvRev
<1>4. CoreType'
  BY <1>1, <1>3 DEF CoreType, Session
<1>5. CoreInv'
  BY <1>1, <1>2 DEF CoreInv, Path, Consent, Written, Aligned, ApprovalFollowsRun, OneAnswer, Pending,
     InModel, ToolRecorded, Waiting, Terminal
<1>6. Forward
  BY DEF Forward, Pending, InModel, Continuing, Waiting, Terminal, CoreType, RunRecord, Rev
<1>7. QED
  BY <1>4, <1>5, <1>6 DEF CoreDone

LEMMA DecideToolStep ==
  ASSUME CoreType, CoreInv, DecideToolApproval
  PROVE  CoreDone
<1>. USE DEF DecideToolApproval
<1>1. CASE approval' = "expired" /\ Close("failed")
  <2>1. CloseApproval
    BY <1>1 DEF CloseApproval
  <2>2. QED
    BY <1>1, <2>1, CloseStep DEF RunStatus, Done
<1>2. CASE /\ approval' \in {"approved", "rejected"}
           /\ Save("running", "running", "tool_decision_recorded")
  <2>1. run.rev = 3 /\ job.rev = 3
    BY DEF CoreInv, Path, Aligned
  <2>2. /\ run' \in RunRecord /\ run'.status = "running" /\ run'.rev = 4
        /\ job' \in JobRecord /\ job'.status = "running" /\ job'.rev = 4
        /\ job'.phase = "tool_decision_recorded"
    BY <1>2, <2>1, SaveStep DEF JobStatus, RunStatus, JobPhase
  <2>3. CoreType'
    BY <1>2, <2>2 DEF CoreType
  <2>4. CoreInv'
    BY <1>2, <2>1, <2>2 DEF CoreInv, Path, Consent, Written, Aligned, JobOf, ApprovalFollowsRun,
       OneAnswer, Pending, InModel, ToolRecorded, Waiting, Terminal, Done
  <2>5. Forward
    BY <1>2, <2>1, <2>2 DEF CoreInv, Consent, ApprovalFollowsRun, Forward, Pending, InModel, Continuing,
       Waiting, Terminal, Done
  <2>6. QED
    BY <2>3, <2>4, <2>5 DEF CoreDone
<1>3. QED
  BY <1>1, <1>2

LEMMA ProposalStep ==
  ASSUME CoreType, CoreInv, DecideProposal \/ EditResume
  PROVE  CoreDone
<1>1. /\ proposal' \in ProposalRecord /\ proposal.status # "none" /\ proposal'.status # "none"
      /\ UNCHANGED <<run, job, approval, conv, output>>
  <2>1. CASE DecideProposal
    BY <2>1 DEF DecideProposal, ProposalRecord
  <2>2. CASE EditResume
    BY <2>2 DEF EditResume, ProposalRecord, CoreType
  <2>3. QED
    BY <2>1, <2>2
<1>2. CoreType'
  BY <1>1 DEF CoreType
<1>3. CoreInv'
  BY <1>1 DEF CoreInv, Path, Consent, Written, Aligned, ApprovalFollowsRun, OneAnswer, Pending,
     InModel, ToolRecorded, Waiting, Terminal
<1>4. Forward
  BY <1>1 DEF Forward, Pending, InModel, Continuing, Waiting, Terminal, CoreType, RunRecord, Rev
<1>5. QED
  BY <1>2, <1>3, <1>4 DEF CoreDone

-----------------------------------------------------------------------------
\* Transactions of the handlers.  A worker whose revisions are still those of the
\* Run finds it where its first transaction left it.
LEMMA SameRun ==
  ASSUME CoreType, CoreInv, NEW w \in Worker, WorkerInv(w), Same(w),
         worker[w].step \in {"external", "commit", "fail"}
  PROVE  /\ worker[w].event = "queued"   => InModel
         /\ worker[w].event = "proposal" => Continuing
BY DEF LocalInv, WorkerInv, Same, CoreInv, Path, Aligned, InModel, Continuing, Waiting

LEMMA PrepareStep ==
  ASSUME TypeOK, CoreInv, NEW w \in Worker, PrepareExecution(w)
  PROVE  CoreDone
<1>. USE DEF PrepareExecution, Save
<1>0. CoreType
  BY DEF TypeOK, CoreType
<1>1. CASE UNCHANGED <<run, job>>
  BY <1>0, <1>1, CoreStays
<1>2. CASE /\ run.status = "queued"
           /\ run' = Saved("running")
           /\ SaveJob("running", "model_execution")
  <2>1. run.rev = 1 /\ job.rev = 1 /\ conv.rev \in ConvRev
    BY <1>0, <1>2 DEF CoreInv, Path, Aligned, CoreType, Session
  <2>2. /\ run' = [run EXCEPT !.status = "running", !.rev = 2]
        /\ job' = [status |-> "running", rev |-> 2, phase |-> "model_execution"]
    BY <1>2, <2>1 DEF Saved, SaveJob
  <2>3. run' \in RunRecord /\ job' \in JobRecord /\ run'.status = "running" /\ run'.rev = 2
    <3>1. /\ "running" \in RunStatus /\ "running" \in JobStatus
          /\ "model_execution" \in JobPhase /\ 2 \in Rev
      BY DEF RunStatus, JobStatus, JobPhase, Rev
    <3>2. QED
      BY <1>0, <2>1, <2>2, <3>1 DEF CoreType, RunRecord, JobRecord
  <2>4. CoreType'
    BY <1>0, <2>3 DEF CoreType
  <2>5. CoreInv'
    BY <1>2, <2>1, <2>2, <2>3 DEF CoreInv, Path, Consent, Written, Aligned, JobOf,
       ApprovalFollowsRun, OneAnswer, Pending, InModel, ToolRecorded, Waiting, Terminal, Done
  <2>6. Forward
    BY <1>2, <2>1, <2>2, <2>3 DEF Forward, Pending, InModel, Continuing, Waiting, Terminal, Done
  <2>7. QED
    BY <2>4, <2>5, <2>6 DEF CoreDone
<1>3. QED
  BY <1>1, <1>2

LEMMA PreflightStep ==
  ASSUME TypeOK, CoreInv, NEW w \in Worker, RecordPreflightFailure(w)
  PROVE  CoreDone
<1>. USE DEF RecordPreflightFailure
<1>0. CoreType
  BY DEF TypeOK, CoreType
<1>1. CASE UNCHANGED <<run, job>>
  BY <1>0, <1>1, CoreStays
<1>2. CASE /\ run.status = "queued"
           /\ run' = [run EXCEPT !.status = "failed", !.rev = run.rev + 2]
           /\ job' = [status |-> "failed", rev |-> job.rev + 2, phase |-> "authorization_failed"]
  <2>1. run.rev = 1 /\ job.rev = 1
    BY <1>2 DEF CoreInv, Path, Aligned
  <2>2. /\ run' \in RunRecord /\ run'.status = "failed" /\ run'.rev = 3
        /\ job' \in JobRecord /\ job'.status = "failed" /\ job'.rev = 3
        /\ job'.phase = "authorization_failed"
    <3>1. /\ "failed" \in RunStatus /\ "failed" \in JobStatus
          /\ "authorization_failed" \in JobPhase /\ 3 \in Rev
      BY DEF RunStatus, JobStatus, JobPhase, Rev, Done
    <3>2. run.rev + 2 = 3 /\ job.rev + 2 = 3
      BY <2>1
    <3>3. QED
      BY <1>0, <1>2, <3>1, <3>2 DEF CoreType, RunRecord, JobRecord
  <2>3. CoreType'
    BY <1>0, <2>2 DEF CoreType
  <2>4. CoreInv'
    BY <1>2, <2>2 DEF CoreInv, Path, Consent, Written, Aligned, JobOf, ApprovalFollowsRun,
       OneAnswer, Pending, InModel, ToolRecorded, Waiting, Terminal, Done
  <2>5. Forward
    BY <1>2, <2>1, <2>2 DEF Forward, Pending, InModel, Continuing, Waiting, Terminal, Done
  <2>6. QED
    BY <2>3, <2>4, <2>5 DEF CoreDone
<1>3. CASE InModel /\ Close("failed")
  <2>1. CloseApproval
    BY <1>3 DEF CloseApproval, InModel
  <2>2. QED
    BY <1>0, <1>3, <2>1, CloseStep DEF InModel, RunStatus, Done
<1>4. QED
  BY <1>1, <1>2, <1>3

\* Answering from a Run that is in its model call, has its tool result, or
\* continues after a Proposal decision.
LEMMA AnswerStep ==
  ASSUME CoreType, CoreInv, InModel \/ ToolRecorded \/ Continuing,
         Close("succeeded"), output' = [output EXCEPT !.answers = output.answers + 1],
         conv' = Advanced(conv), UNCHANGED <<approval, proposal>>
  PROVE  CoreDone
<1>1. /\ run' \in RunRecord /\ run'.status = "succeeded" /\ run'.rev = run.rev + 1
      /\ job' \in JobRecord /\ job'.status = "succeeded" /\ job'.rev = job.rev + 1
      /\ job'.phase = job.phase
  <2>1. run.rev \in 0..5 /\ job.rev \in 0..5
    BY OpenRun DEF InModel, ToolRecorded, Continuing, Waiting, Done
  <2>2. job.phase \in JobPhase
    BY DEF CoreType, JobRecord
  <2>3. QED
    BY <2>1, <2>2, SaveStep DEF Close, RunStatus, JobStatus, Done
<1>2. /\ run.rev \in 2..4 /\ ~Terminal /\ Terminal' /\ approval # "pending"
      /\ run.status # "succeeded"
  BY <1>1 DEF CoreInv, Path, Consent, ApprovalFollowsRun, Terminal, InModel, ToolRecorded, Continuing,
     Waiting, Done
<1>3. /\ output.answers = 0 /\ output.drafts \in 0..1 /\ conv.edits \in 0..MaxEdits
      /\ conv.rev = conv.edits + output.drafts
  BY <1>2 DEF CoreType, Session, CoreInv, Written, OneAnswer
<1>4. /\ output' \in [answers : 0..1, drafts : 0..1, tool : BOOLEAN]
      /\ output'.answers = 1 /\ output'.drafts = output.drafts /\ output'.tool = output.tool
  BY <1>3 DEF CoreType
<1>5. conv' \in Session /\ conv'.rev = conv.rev + 1 /\ conv'.edits = conv.edits
  BY <1>3, BoundAssumption DEF CoreType, Session, ConvRev, Advanced
<1>6. CoreType'
  BY <1>1, <1>4, <1>5 DEF CoreType
<1>7. Path'
  BY <1>1, <1>2 DEF CoreInv, Path, Aligned, JobOf, Terminal, InModel, ToolRecorded, Waiting, Done
<1>8. Consent' /\ Written'
  BY <1>1, <1>2, <1>3, <1>4, <1>5 DEF CoreInv, Consent, ApprovalFollowsRun, Pending, InModel,
     ToolRecorded, Waiting, Written, OneAnswer
<1>9. Forward
  BY <1>1, <1>2, <1>4 DEF CoreInv, Path, Forward, Pending, InModel, Continuing, Waiting, Terminal, Done
<1>10. QED
  BY <1>6, <1>7, <1>8, <1>9 DEF CoreDone, CoreInv

\* Writing a question of the first model call: the tool approval, or the Proposal.
LEMMA InterruptStep ==
  ASSUME CoreType, CoreInv, NEW w \in Worker, worker[w].event \in Event, WorkerInv(w),
         CommitToolApproval(w) \/ CommitProposalInterruption(w)
  PROVE  CoreDone
<1>1. InModel /\ run.rev = 2 /\ job.rev = 2 /\ ~Terminal
  <2>1. worker[w].event # "proposal"
    BY DEF LocalInv, WorkerInv, CommitToolApproval, CommitProposalInterruption, MayCommit, Committing
  <2>2. Same(w) /\ worker[w].step = "commit"
    BY DEF CommitToolApproval, CommitProposalInterruption, MayCommit, Committing
  <2>3. InModel
    <3>1. worker[w].event \notin {"tool", "proposal"}
      BY <2>1 DEF CommitToolApproval, CommitProposalInterruption, MayCommit, Committing
    <3>2. QED
      BY <2>2, <3>1, SameRun DEF Event
  <2>4. QED
    BY <2>3 DEF InModel, CoreInv, Path, Aligned, ToolRecorded, Terminal, Done
<1>2. approval = "none" /\ proposal.status = "none" /\ output.drafts = 0 /\ output.answers = 0
      /\ ~output.tool /\ conv.rev = conv.edits /\ conv.edits \in 0..MaxEdits
  BY <1>1 DEF CoreInv, Consent, Pending, Written, OneAnswer, Terminal, Done, InModel, CoreType, Session
<1>3. CASE CommitToolApproval(w)
  <2>1. approval' = "pending" /\ Save("waiting_for_approval", "running", "waiting_for_approval")
        /\ UNCHANGED <<proposal, conv, output>>
    BY <1>3 DEF CommitToolApproval
  <2>2. /\ run' \in RunRecord /\ run'.status = "waiting_for_approval" /\ run'.rev = 3
        /\ job' \in JobRecord /\ job'.status = "running" /\ job'.rev = 3
        /\ job'.phase = "waiting_for_approval"
    BY <1>1, <2>1, SaveStep DEF RunStatus, JobStatus, JobPhase
  <2>3. CoreType'
    BY <2>1, <2>2 DEF CoreType
  <2>4. CoreInv'
    BY <1>1, <1>2, <2>1, <2>2 DEF CoreInv, Path, Consent, Written, Aligned, JobOf,
       ApprovalFollowsRun, OneAnswer, Pending, InModel, ToolRecorded, Waiting, Terminal, Done
  <2>5. Forward
    BY <1>1, <1>2, <2>1, <2>2 DEF Forward, Pending, InModel, Continuing, Waiting, Terminal, Done
  <2>6. QED
    BY <2>3, <2>4, <2>5 DEF CoreDone
<1>4. CASE CommitProposalInterruption(w)
  <2>1. /\ proposal' = [proposal EXCEPT !.status = "pending"]
        /\ output' = [output EXCEPT !.drafts = output.drafts + 1]
        /\ conv' = [conv EXCEPT !.rev = conv.rev + 1]
        /\ Save("waiting_for_proposal_decision", "running", "waiting_for_proposal_decision")
        /\ UNCHANGED approval
    BY <1>4 DEF CommitProposalInterruption, Advanced
  <2>2. /\ run' \in RunRecord /\ run'.status = "waiting_for_proposal_decision" /\ run'.rev = 3
        /\ job' \in JobRecord /\ job'.status = "running" /\ job'.rev = 3
        /\ job'.phase = "waiting_for_proposal_decision"
    BY <1>1, <2>1, SaveStep DEF RunStatus, JobStatus, JobPhase
  <2>3. proposal' \in ProposalRecord /\ proposal'.status = "pending"
    BY <2>1 DEF CoreType, ProposalRecord
  <2>4. /\ output' \in [answers : 0..1, drafts : 0..1, tool : BOOLEAN]
        /\ output'.answers = 0 /\ output'.drafts = 1 /\ output'.tool = output.tool
    BY <1>2, <2>1 DEF CoreType
  <2>5. conv' \in Session /\ conv'.rev = conv'.edits + 1
    BY <1>2, <2>1, BoundAssumption DEF CoreType, Session, ConvRev
  <2>6. CoreType'
    BY <2>1, <2>2, <2>3, <2>4, <2>5 DEF CoreType
  <2>7. CoreInv'
    BY <1>1, <1>2, <2>1, <2>2, <2>3, <2>4, <2>5 DEF CoreInv, Path, Consent, Written, Aligned,
       JobOf, ApprovalFollowsRun, OneAnswer, Pending, InModel, ToolRecorded, Waiting, Terminal,
       Done, CoreType, Session
  <2>8. Forward
    BY <1>1, <1>2, <2>1, <2>2, <2>4 DEF Forward, Pending, InModel, Continuing, Waiting, Terminal, Done
  <2>9. QED
    BY <2>6, <2>7, <2>8 DEF CoreDone
<1>5. QED
  BY <1>3, <1>4

LEMMA CompletionStep ==
  ASSUME CoreType, CoreInv, NEW w \in Worker, worker[w].event \in Event, WorkerInv(w),
         CommitCompletion(w)
  PROVE  CoreDone
<1>1. Same(w) /\ worker[w].step = "commit" /\ worker[w].event # "tool"
  BY DEF CommitCompletion, MayCommit, Committing
<1>2. InModel \/ Continuing
  BY <1>1, SameRun DEF Event
<1>3. QED
  BY <1>2, AnswerStep DEF CommitCompletion

LEMMA FailureStep ==
  ASSUME CoreType, CoreInv, NEW w \in Worker, worker[w].event \in Event, WorkerInv(w),
         RecordRunFailure(w) \/ RecordContinuationFailure(w) \/ FailExhausted(w)
  PROVE  CoreDone
<1>1. CASE RecordRunFailure(w)
  <2>1. CASE UNCHANGED <<run, job>>
    BY <1>1, <2>1, CoreStays DEF RecordRunFailure
  <2>2. CASE Same(w) /\ Close("failed")
    <3>1. InModel \/ Continuing
      BY <1>1, <2>2, SameRun DEF Event, RecordRunFailure
    <3>2. CloseApproval
      BY <1>1, <3>1 DEF CloseApproval, InModel, Continuing, Waiting, RecordRunFailure
    <3>3. QED
      BY <1>1, <2>2, <3>1, <3>2, CloseStep DEF InModel, Continuing, Waiting, RunStatus, Done,
         RecordRunFailure
  <2>3. QED
    BY <1>1, <2>1, <2>2 DEF RecordRunFailure
<1>2. CASE RecordContinuationFailure(w)
  <2>1. CASE UNCHANGED <<run, job>>
    BY <1>2, <2>1, CoreStays DEF RecordContinuationFailure
  <2>2. CASE Waiting /\ Close("failed")
    <3>1. CloseApproval
      BY <1>2, <2>2 DEF CloseApproval, Waiting, RecordContinuationFailure
    <3>2. QED
      BY <1>2, <2>2, <3>1, CloseStep DEF Waiting, RunStatus, Done, RecordContinuationFailure
  <2>3. QED
    BY <1>2, <2>1, <2>2 DEF RecordContinuationFailure
<1>3. CASE FailExhausted(w)
  <2>1. CASE Terminal /\ UNCHANGED <<run, job>>
    BY <1>3, <2>1, CoreStays DEF FailExhausted, CloseApproval, Terminal, Done
  <2>2. CASE ~Terminal /\ Close(IF run.status = "queued" THEN "cancelled" ELSE "failed")
    <3>1. run.status # "absent"
      BY <1>3 DEF FailExhausted, LocalInv, WorkerInv
    <3>2. QED
      BY <1>3, <2>2, <3>1, CloseStep DEF FailExhausted, Terminal, CoreType, RunRecord
  <2>3. QED
    BY <1>3, <2>1, <2>2 DEF FailExhausted
<1>4. QED
  BY <1>1, <1>2, <1>3

LEMMA ToolStep ==
  ASSUME CoreType, CoreInv, NEW w \in Worker, WorkerInv(w), CallTool(w) \/ RecordTool(w)
  PROVE  CoreDone
<1>1. CASE CallTool(w)
  <2>1. approval = "approved" /\ output' = [output EXCEPT !.tool = TRUE]
        /\ UNCHANGED <<run, job, approval, proposal, conv>>
    BY <1>1 DEF CallTool, At, LocalInv, WorkerInv
  <2>2. /\ output' \in [answers : 0..1, drafts : 0..1, tool : BOOLEAN] /\ output'.tool
        /\ output'.answers = output.answers /\ output'.drafts = output.drafts
    BY <2>1 DEF CoreType
  <2>3. CoreType'
    BY <2>1, <2>2 DEF CoreType
  <2>4. CoreInv'
    BY <2>1, <2>2 DEF CoreInv, Path, Consent, Written, Aligned, ApprovalFollowsRun, OneAnswer,
       Pending, InModel, ToolRecorded, Waiting, Terminal
  <2>5. Forward
    BY <2>1, <2>2 DEF Forward, Pending, InModel, Continuing, Waiting, Terminal, CoreType,
       RunRecord, Rev
  <2>6. QED
    BY <2>3, <2>4, <2>5 DEF CoreDone
<1>2. CASE RecordTool(w)
  <2>0. worker[w].event = "tool" /\ UNCHANGED <<approval, proposal>>
    BY <1>2 DEF RecordTool
  <2>1. CASE UNCHANGED <<run, job, conv, output>>
    BY <2>0, <2>1, CoreStays
  <2>2. CASE run.status = "running" /\ (Close("failed") \/ Close("cancelled"))
             /\ UNCHANGED <<conv, output>>
    <3>1. CloseApproval
      BY <2>0, <2>2 DEF CloseApproval
    <3>2. QED
      BY <2>0, <2>2, <3>1, CloseStep DEF RunStatus, Done
  <2>3. CASE /\ worker[w].step = "commit" /\ run.status = "running" /\ Close("succeeded")
             /\ conv' = Advanced(conv)
             /\ output' = [output EXCEPT !.answers = output.answers + 1]
    <3>1. approval = "approved"
      BY <2>0, <2>3 DEF LocalInv, WorkerInv
    <3>2. ToolRecorded
      BY <2>3, <3>1 DEF CoreInv, Path, Consent, Pending
    <3>3. QED
      BY <2>0, <2>3, <3>2, AnswerStep
  <2>4. QED
    BY <1>2, <2>1, <2>2, <2>3 DEF RecordTool, ToolBound
<1>3. QED
  BY <1>1, <1>2

LEMMA ContinueStep ==
  ASSUME TypeOK, CoreInv, NEW w \in Worker, PrepareProposalContinuation(w)
  PROVE  CoreDone
<1>. USE DEF PrepareProposalContinuation
<1>0. CoreType
  BY DEF TypeOK, CoreType
<1>1. CASE UNCHANGED <<run, job>>
  BY <1>0, <1>1, CoreStays
<1>2. CASE Waiting /\ UNCHANGED run /\ job' = Reported /\ job.phase # "proposal_decision_recorded"
  <2>1. run.rev = 3 /\ job.rev = 3
    BY <1>2 DEF CoreInv, Path, Aligned
  <2>2. /\ job' \in JobRecord /\ job'.status = "running" /\ job'.rev = 4
        /\ job'.phase = "proposal_decision_recorded"
    BY <1>2, <2>1 DEF Reported, JobRecord, JobStatus, JobPhase, Rev
  <2>3. CoreType'
    BY <1>0, <1>2, <2>2 DEF CoreType
  <2>4. CoreInv'
    BY <1>2, <2>1, <2>2 DEF CoreInv, Path, Consent, Written, Aligned, JobOf, ApprovalFollowsRun,
       OneAnswer, Pending, InModel, ToolRecorded, Waiting, Terminal, Done
  <2>5. Forward
    BY <1>2, <2>1, <2>2 DEF Forward, Pending, InModel, Continuing, Waiting, Terminal, Done
  <2>6. QED
    BY <2>3, <2>4, <2>5 DEF CoreDone
<1>3. QED
  BY <1>1, <1>2 DEF Reported

\* Every step: the Run, its Job, its questions and its output stay consistent and
\* move forward.
LEMMA CoreStep ==
  ASSUME IInv, [Next]_vars
  PROVE  CoreDone
<1>0. CoreType /\ CoreInv /\ \A w \in Worker : WorkerInv(w) /\ worker[w].event \in Event
  BY DEF IInv, TypeOK, CoreType, Local
<1>1. CASE UNCHANGED vars
  BY <1>0, <1>1, CoreStays DEF vars
<1>2. CASE Request
  <2>1. CASE CancelAgentRun
    BY <1>0, <2>1, CloseStep DEF CancelAgentRun
  <2>2. CASE CancelJob
    BY <1>0, <2>2, CloseStep DEF CancelJob, RunStatus, Done
  <2>3. QED
    BY <1>0, <1>2, <2>1, <2>2, CreateStep, UpdateStep, DecideToolStep, ProposalStep DEF Request
<1>3. ASSUME NEW w \in Worker, Handle(w)
      PROVE  CoreDone
  <2>1. CASE CallModel(w) \/ CommitRefused(w) \/ PrepareToolDecision(w) \/ HookRaises(w)
             \/ Complete(w) \/ Retry(w)
    BY <1>0, <2>1, CoreStays DEF CallModel, CommitRefused, PrepareToolDecision, HookRaises,
       Complete, Retry, Unsaved
  <2>2. QED
    BY <1>0, <1>3, <2>1, PrepareStep, PreflightStep, InterruptStep, CompletionStep, FailureStep,
       ToolStep, ContinueStep DEF Handle, IInv
<1>4. ASSUME NEW w \in Worker, \/ \E e \in Event : Claim(w, e)
                               \/ HookRaises(w) \/ Crash(w) \/ StorageError(w) \/ LeaseLost(w)
      PROVE  CoreDone
  BY <1>0, <1>4, CoreStays DEF Claim, HookRaises, Crash, StorageError, LeaseLost, Unsaved
<1>5. ASSUME NEW e \in Event, LeaseExpires(e)
      PROVE  CoreDone
  BY <1>0, <1>5, CoreStays DEF LeaseExpires
<1>6. QED
  BY <1>1, <1>2, <1>3, <1>4, <1>5 DEF Next

-----------------------------------------------------------------------------
\* Workers.
WorkersDone == worker' \in [Worker -> Local] /\ \A w \in Worker : WorkerInv(w)'

\* What a worker knows stays true while the Run moves forward.
LEMMA KnowledgeStays ==
  ASSUME CoreType, CoreInv, CoreDone, NEW l \in Local, LocalInv(l)
  PROVE  LocalInv(l)'
BY DEF CoreDone, Forward, LocalInv, CoreType, RunRecord, Rev

LEMMA OneWorker ==
  ASSUME IInv, CoreDone, NEW w \in Worker, NEW l \in Local,
         worker' = [worker EXCEPT ![w] = l], LocalInv(l)'
  PROVE  WorkersDone
<1>1. CoreType /\ CoreInv /\ worker \in [Worker -> Local] /\ \A v \in Worker : LocalInv(worker[v])
  BY DEF IInv, TypeOK, CoreType, WorkerInv
<1>2. worker' \in [Worker -> Local]
  BY <1>1
<1>3. ASSUME NEW v \in Worker
      PROVE  LocalInv(worker[v])'
  <2>1. PICK m \in Local : m = worker'[v] /\ (v # w => m = worker[v]) /\ (v = w => m = l)
    BY <1>1, <1>3
  <2>2. LocalInv(m)'
    BY <1>1, <1>3, <2>1, KnowledgeStays
  <2>3. QED
    BY <2>1, <2>2
<1>4. QED
  BY <1>2, <1>3 DEF WorkersDone, WorkerInv

LEMMA WorkersStay ==
  ASSUME IInv, CoreDone, UNCHANGED worker
  PROVE  WorkersDone
<1>1. CoreType /\ CoreInv /\ worker \in [Worker -> Local] /\ \A v \in Worker : LocalInv(worker[v])
  BY DEF IInv, TypeOK, CoreType, WorkerInv
<1>2. ASSUME NEW v \in Worker
      PROVE  LocalInv(worker[v])'
  <2>1. PICK m \in Local : m = worker'[v] /\ m = worker[v]
    BY <1>1, <1>2
  <2>2. LocalInv(m)'
    BY <1>1, <1>2, <2>1, KnowledgeStays
  <2>3. QED
    BY <2>1, <2>2
<1>3. QED
  BY <1>1, <1>2 DEF WorkersDone, WorkerInv

LEMMA WorkerStops ==
  ASSUME IInv, CoreDone, NEW w \in Worker, Stop(w)
  PROVE  WorkersDone
<1>1. Idle \in Local
  BY BoundAssumption DEF Idle, Local, Event, Step, Rev, ConvRev
<1>2. PICK l \in Local : l = Idle /\ l.step = "idle"
  BY <1>1 DEF Idle
<1>3. LocalInv(l)'
  BY <1>2 DEF LocalInv
<1>4. QED
  BY <1>2, <1>3, OneWorker DEF Stop

\* A move of a worker within its handler that reads nothing new.
LEMMA WorkerGoes ==
  ASSUME IInv, CoreDone, NEW w \in Worker, NEW s \in Step, Goto(w, s), worker[w].step # "idle",
         s \in {"external", "commit", "fail"} => worker[w].event = "tool"
                                    \/ (s = "fail" /\ worker[w].step \in {"external", "commit"}),
         s \in {"external", "commit"} => approval' = "approved",
         s = "commit" => output'.tool,
         s = "settle" => IF worker[w].event = "queued" THEN ~Pending' ELSE Terminal',
         s = "retry" => worker[w].attempt < MaxAttempts \/ Terminal'
  PROVE  WorkersDone
<1>1. worker[w] \in Local /\ LocalInv(worker[w]) /\ CoreType /\ CoreInv
  BY DEF IInv, TypeOK, WorkerInv, CoreType
<1>2. PICK m \in Local : m = worker[w]
  BY <1>1
<1>3. LocalInv(m)'
  BY <1>1, <1>2, KnowledgeStays
<1>4. PICK l \in Local : /\ worker' = [worker EXCEPT ![w] = l]
                         /\ l.step = s /\ l.event = m.event /\ l.attempt = m.attempt
                         /\ l.run = m.run /\ l.job = m.job /\ l.outcome = m.outcome
  <2>1. [m EXCEPT !.step = s] \in Local
    BY DEF Local
  <2>2. QED
    BY <1>2, <2>1 DEF Goto, Local
<1>5. LocalInv(l)'
  BY <1>2, <1>3, <1>4, BoundAssumption DEF LocalInv, Local, Event
<1>6. QED
  BY <1>4, <1>5, OneWorker

LEMMA RaiseStep ==
  ASSUME IInv, CoreDone, NEW w \in Worker, worker[w].step # "idle", Raise(w)
  PROVE  WorkersDone
<1>1. CASE worker[w].attempt >= MaxAttempts
  BY <1>1, WorkerGoes DEF Raise, Step
<1>2. CASE ~(worker[w].attempt >= MaxAttempts)
  <2>1. worker[w].attempt < MaxAttempts
    BY <1>2, BoundAssumption DEF IInv, TypeOK, Local
  <2>2. QED
    BY <1>2, <2>1, WorkerGoes DEF Raise, Step
<1>3. QED
  BY <1>1, <1>2

LEMMA ClaimStep ==
  ASSUME IInv, CoreDone, NEW w \in Worker, NEW e \in Event, Claim(w, e)
  PROVE  WorkersDone
<1>1. NextAttempt(e) \in 0..MaxAttempts /\ run.status # "absent"
  BY BoundAssumption DEF Claim, Available, IInv, TypeOK, EventInv, EventRow, NextAttempt
<1>2. Idle \in Local
  BY BoundAssumption DEF Idle, Local, Event, Step, Rev, ConvRev
<1>3. [Idle EXCEPT !.event = e, !.step = "prepare", !.attempt = NextAttempt(e)] \in Local
  BY <1>1, <1>2 DEF Local, Step
<1>4. PICK l \in Local : worker' = [worker EXCEPT ![w] = l] /\ l.step = "prepare"
  BY <1>2, <1>3 DEF Claim, Local
<1>5. run'.status # "absent"
  BY <1>1 DEF CoreDone, Forward
<1>6. LocalInv(l)'
  BY <1>4, <1>5 DEF LocalInv
<1>7. QED
  BY <1>4, <1>6, OneWorker

\* The locals read in the first transaction of a handler.
LEMMA SnapshotStep ==
  ASSUME IInv, CoreDone, NEW w \in Worker, Snapshot(w),
         \/ worker[w].event = "queued" /\ InModel'
         \/ worker[w].event = "proposal" /\ Continuing'
  PROVE  WorkersDone
<1>1. worker[w] \in Local /\ run'.rev \in Rev /\ job'.rev \in Rev /\ conv.rev \in ConvRev
  BY DEF IInv, TypeOK, CoreDone, CoreType, RunRecord, JobRecord, Session
<1>2. PICK l \in Local : /\ worker' = [worker EXCEPT ![w] = l] /\ l.step = "external"
                         /\ l.event = worker[w].event /\ l.run = run'.rev /\ l.job = job'.rev
  <2>1. PICK m \in Local : m = worker[w]
    BY <1>1
  <2>2. [m EXCEPT !.step = "external", !.run = run'.rev, !.job = job'.rev, !.grant = conv.rev]
          \in Local
    BY <1>1 DEF Local, Step
  <2>3. QED
    BY <2>1, <2>2 DEF Snapshot, Local
<1>3. LocalInv(l)'
  BY <1>2 DEF LocalInv, CoreDone, CoreInv, Path, Aligned, InModel, Continuing, ToolRecorded, Waiting
<1>4. QED
  BY <1>2, <1>3, OneWorker

LEMMA CallModelStep ==
  ASSUME IInv, CoreDone, NEW w \in Worker, CallModel(w)
  PROVE  WorkersDone
<1>1. worker[w] \in Local /\ LocalInv(worker[w]) /\ CoreType /\ CoreInv
  BY DEF IInv, TypeOK, WorkerInv, CoreType
<1>2. PICK m \in Local : m = worker[w]
  BY <1>1
<1>3. LocalInv(m)' /\ m.step = "external" /\ m.event # "tool"
  BY <1>1, <1>2, KnowledgeStays DEF CallModel
<1>4. PICK o \in Outcome :
        /\ m.event = "proposal" => o \in {"answer", "failure"}
        /\ worker' = [worker EXCEPT ![w] = [m EXCEPT
             !.step = IF o = "failure" THEN "fail" ELSE "commit", !.outcome = o]]
  BY <1>2 DEF CallModel
<1>5. PICK l \in Local : /\ worker' = [worker EXCEPT ![w] = l]
                         /\ l.step = (IF o = "failure" THEN "fail" ELSE "commit")
                         /\ l.event = m.event /\ l.run = m.run /\ l.job = m.job /\ l.outcome = o
  <2>1. PICK s \in {"fail", "commit"} : s = IF o = "failure" THEN "fail" ELSE "commit"
    OBVIOUS
  <2>2. [m EXCEPT !.step = s, !.outcome = o] \in Local
    BY DEF Local, Step
  <2>3. QED
    BY <1>4, <2>1, <2>2 DEF Local
<1>6. LocalInv(l)'
  BY <1>3, <1>4, <1>5 DEF LocalInv
<1>7. QED
  BY <1>5, <1>6, OneWorker

\* The first transactions.
LEMMA PrepareMoves ==
  ASSUME IInv, CoreDone, NEW w \in Worker,
         PrepareExecution(w) \/ PrepareToolDecision(w) \/ PrepareProposalContinuation(w)
  PROVE  WorkersDone
<1>1. CASE PrepareExecution(w)
  <2>0. worker[w].event = "queued" /\ worker[w].step = "prepare"
    BY <1>1 DEF PrepareExecution, At
  <2>1. CASE (Terminal \/ HandedOff) /\ Goto(w, "settle")
    <3>1. ~Pending
      BY <2>1 DEF HandedOff, Handed, Pending, InModel, Terminal, Done
    <3>2. ~Pending'
      BY <3>1 DEF CoreDone, Forward
    <3>3. QED
      BY <2>0, <2>1, <3>2, WorkerGoes DEF Step
  <2>2. CASE run' = Saved("running")
             /\ SaveJob("running", "model_execution") /\ Snapshot(w)
    <3>1. run'.status = "running"
      BY <2>2 DEF Saved, IInv, TypeOK, RunRecord
    <3>2. InModel'
      BY <2>2, <3>1 DEF SaveJob, InModel
    <3>3. QED
      BY <2>0, <2>2, <3>2, SnapshotStep
  <2>3. CASE InModel /\ UNCHANGED <<run, job>> /\ Snapshot(w)
    <3>1. InModel'
      BY <2>3 DEF InModel
    <3>2. QED
      BY <2>0, <2>3, <3>1, SnapshotStep
  <2>4. CASE Goto(w, "preflight")
    BY <2>0, <2>4, WorkerGoes DEF Step
  <2>5. QED
    BY <1>1, <2>1, <2>2, <2>3, <2>4 DEF PrepareExecution, Save
<1>2. CASE PrepareToolDecision(w)
  <2>0. worker[w].event = "tool" /\ worker[w].step = "prepare"
    BY <1>2 DEF PrepareToolDecision, At
  <2>1. CASE ToolReplay /\ Goto(w, "settle")
    <3>1. Terminal'
      BY <2>1 DEF ToolReplay, CoreDone, Forward
    <3>2. QED
      BY <2>0, <2>1, <3>1, WorkerGoes DEF Step
  <2>2. CASE Raise(w)
    BY <2>0, <2>2, RaiseStep
  <2>3. CASE approval = "approved" /\ Goto(w, "external")
    BY <2>0, <2>3, WorkerGoes DEF Step, CoreDone, Forward
  <2>4. CASE Goto(w, "fail")
    BY <2>0, <2>4, WorkerGoes DEF Step
  <2>5. QED
    BY <1>2, <2>1, <2>2, <2>3, <2>4 DEF PrepareToolDecision
<1>3. CASE PrepareProposalContinuation(w)
  <2>0. worker[w].event = "proposal" /\ worker[w].step = "prepare"
    BY <1>3 DEF PrepareProposalContinuation, At
  <2>1. CASE Raise(w)
    BY <2>0, <2>1, RaiseStep
  <2>2. CASE Terminal /\ Goto(w, "settle")
    BY <2>0, <2>2, WorkerGoes DEF Step, CoreDone, Forward
  <2>3. CASE Waiting /\ UNCHANGED run /\ job' = Reported /\ Snapshot(w)
    <3>1. Continuing'
      BY <2>3 DEF Reported, Continuing, Waiting
    <3>2. QED
      BY <2>0, <2>3, <3>1, SnapshotStep
  <2>4. CASE Goto(w, "supersede")
    BY <2>0, <2>4, WorkerGoes DEF Step
  <2>5. QED
    BY <1>3, <2>1, <2>2, <2>3, <2>4 DEF PrepareProposalContinuation
<1>4. QED
  BY <1>1, <1>2, <1>3

\* The transactions after the external call, and those that record a failure.
LEMMA CommitMoves ==
  ASSUME IInv, CoreDone, NEW w \in Worker,
         \/ CommitRefused(w) \/ CommitCompletion(w) \/ CommitToolApproval(w)
         \/ CommitProposalInterruption(w) \/ RecordRunFailure(w) \/ RecordPreflightFailure(w)
         \/ RecordContinuationFailure(w) \/ FailExhausted(w) \/ CallTool(w) \/ RecordTool(w)
  PROVE  WorkersDone
<1>0. /\ CoreType /\ CoreInv /\ WorkerInv(w) /\ worker[w].event \in Event
      /\ run.status \in RunStatus /\ (Terminal => Terminal') /\ (Terminal' => ~Pending')
  BY DEF IInv, TypeOK, CoreType, Local, RunRecord, CoreDone, Forward, Terminal, Pending, InModel, Done
<1>1. ASSUME worker[w].step # "idle", Terminal', Goto(w, "settle")
      PROVE  WorkersDone
  BY <1>0, <1>1, WorkerGoes DEF Step
<1>2. ASSUME NEW s \in {"succeeded", "failed", "cancelled"}, Close(s)
      PROVE  Terminal'
  BY <1>2 DEF Close, Save, Saved, Terminal, Done, IInv, TypeOK, RunRecord
<1>3. CASE CommitRefused(w)
  <2>0. worker[w].step = "commit"
    BY <1>3 DEF CommitRefused, Committing
  <2>1. CASE run.status = "cancelled" /\ Goto(w, "settle")
    BY <1>0, <1>1, <2>0, <2>1 DEF Terminal, Done
  <2>2. CASE Raise(w)
    BY <2>0, <2>2, RaiseStep
  <2>3. CASE Goto(w, "fail")
    BY <2>0, <2>3, WorkerGoes DEF Step
  <2>4. QED
    BY <1>3, <2>1, <2>2, <2>3 DEF CommitRefused
<1>4. CASE CommitCompletion(w)
  BY <1>1, <1>2, <1>4 DEF CommitCompletion, MayCommit, Committing
<1>5. CASE CommitToolApproval(w) \/ CommitProposalInterruption(w)
  <2>1. worker[w].step = "commit" /\ worker[w].event = "queued" /\ Goto(w, "settle")
    BY <1>0, <1>5 DEF CommitToolApproval, CommitProposalInterruption, MayCommit, Committing,
       LocalInv, WorkerInv, Event
  <2>2. run'.status \in {"waiting_for_approval", "waiting_for_proposal_decision"}
    BY <1>0, <1>5 DEF CommitToolApproval, CommitProposalInterruption, Save, Saved, CoreType, RunRecord
  <2>3. ~Pending'
    BY <2>2 DEF Pending, InModel
  <2>4. QED
    BY <2>1, <2>3, WorkerGoes DEF Step
<1>6. CASE RecordRunFailure(w)
  <2>0. worker[w].step = "fail"
    BY <1>6 DEF RecordRunFailure
  <2>1. CASE run.status = "cancelled" /\ Goto(w, "settle")
    BY <1>0, <1>1, <2>0, <2>1 DEF Terminal, Done
  <2>2. CASE Raise(w)
    BY <2>0, <2>2, RaiseStep
  <2>3. CASE Close("failed") /\ Goto(w, "settle")
    BY <1>1, <1>2, <2>0, <2>3
  <2>4. QED
    BY <1>6, <2>1, <2>2, <2>3 DEF RecordRunFailure
<1>7. CASE RecordPreflightFailure(w)
  <2>0. worker[w].step = "preflight"
    BY <1>7 DEF RecordPreflightFailure
  <2>1. CASE Raise(w)
    BY <2>0, <2>1, RaiseStep
  <2>2. CASE Goto(w, "settle") /\ (Terminal \/ Close("failed")
               \/ run' = [run EXCEPT !.status = "failed", !.rev = run.rev + 2])
    <3>1. Terminal'
      BY <1>0, <1>2, <2>2 DEF Terminal, Done, CoreType, RunRecord
    <3>2. QED
      BY <1>1, <2>0, <2>2, <3>1
  <2>3. QED
    BY <1>7, <2>1, <2>2 DEF RecordPreflightFailure
<1>8. CASE RecordContinuationFailure(w)
  BY <1>0, <1>1, <1>2, <1>8 DEF RecordContinuationFailure
<1>9. CASE FailExhausted(w)
  <2>1. Terminal'
    <3>1. PICK s \in {"cancelled", "failed"} : Terminal \/ Close(s)
      BY <1>9 DEF FailExhausted
    <3>2. QED
      BY <1>0, <1>2, <3>1
  <2>2. QED
    BY <1>9, <2>1, WorkerGoes DEF FailExhausted, Step
<1>10. CASE CallTool(w)
  <2>1. worker[w].event = "tool" /\ worker[w].step = "external" /\ output'.tool
        /\ approval = "approved" /\ UNCHANGED approval
    BY <1>0, <1>10 DEF CallTool, At, CoreType, LocalInv, WorkerInv
  <2>2. PICK s \in {"commit", "fail"} : Goto(w, s)
    BY <1>10 DEF CallTool
  <2>3. QED
    BY <2>1, <2>2, WorkerGoes DEF Step
<1>11. CASE RecordTool(w)
  <2>0. worker[w].step # "idle"
    BY <1>11 DEF RecordTool
  <2>1. CASE Raise(w)
    BY <2>0, <2>1, RaiseStep
  <2>2. CASE Goto(w, "settle") /\ (ToolReplay \/ \E s \in Done : Close(s))
    BY <1>0, <1>1, <1>2, <2>0, <2>2 DEF ToolReplay, Done
  <2>3. QED
    BY <1>11, <2>1, <2>2 DEF RecordTool, Done
<1>12. QED
  BY <1>3, <1>4, <1>5, <1>6, <1>7, <1>8, <1>9, <1>10, <1>11

LEMMA WorkerStep ==
  ASSUME IInv, [Next]_vars
  PROVE  WorkersDone
<1>0. CoreDone
  BY CoreStep
<1>1. CASE UNCHANGED worker
  BY <1>0, <1>1, WorkersStay
<1>2. ASSUME NEW w \in Worker, Handle(w) \/ HookRaises(w)
      PROVE  WorkersDone
  <2>1. CASE HookRaises(w) \/ Complete(w) \/ Retry(w)
    BY <1>0, <2>1, WorkerStops DEF HookRaises, Complete, Retry
  <2>2. QED
    BY <1>0, <1>2, <2>1, PrepareMoves, CommitMoves, CallModelStep DEF Handle
<1>3. ASSUME NEW w \in Worker, Crash(w) \/ StorageError(w) \/ LeaseLost(w)
      PROVE  WorkersDone
  <2>1. CASE Stop(w)
    BY <1>0, <2>1, WorkerStops
  <2>2. CASE StorageError(w)
    <3>1. worker[w].step # "idle"
      BY <2>2 DEF StorageError
    <3>2. CASE worker[w].step = "commit" /\ Goto(w, "fail")
      BY <1>0, <3>2, WorkerGoes DEF Step
    <3>3. CASE Raise(w)
      BY <1>0, <3>1, <3>3, RaiseStep
    <3>4. QED
      BY <2>2, <3>2, <3>3 DEF StorageError
  <2>3. QED
    BY <1>3, <2>1, <2>2 DEF Crash, LeaseLost
<1>4. ASSUME NEW w \in Worker, NEW e \in Event, Claim(w, e)
      PROVE  WorkersDone
  BY <1>0, <1>4, ClaimStep
<1>5. CASE Request \/ \E e \in Event : LeaseExpires(e)
  BY <1>1, <1>5 DEF Request, CreateAgentRun, UpdateConversation, CancelAgentRun, CancelJob,
     DecideToolApproval, DecideProposal, EditResume, LeaseExpires
<1>6. QED
  BY <1>1, <1>2, <1>3, <1>4, <1>5 DEF Next, vars

-----------------------------------------------------------------------------
\* Events.  The Run needs event e when only e's handler can move it.
Needs(e) == \/ e = "queued"   /\ (run.status = "queued" \/ InModel)
            \/ e = "tool"     /\ run.status = "running" /\ ~InModel
            \/ e = "proposal" /\ Waiting /\ Decided

LEMMA NeededIsOpen ==
  StepIsOwned <=> \A e \in Event : Needs(e) => event[e].state = "open"
BY DEF StepIsOwned, Needs, Event, Decided, Waiting, InModel

\* A step after which the Run needs an event it did not need before emits it.
LEMMA NeedsStep ==
  ASSUME IInv, [Next]_vars, NEW e \in Event, Needs(e)'
  PROVE  Needs(e) \/ event'[e].state = "open"
<1>0. /\ CoreType /\ CoreInv /\ CoreDone /\ event \in [Event -> EventRow]
      /\ \A w \in Worker : WorkerInv(w) /\ worker[w].event \in Event
  BY CoreStep DEF IInv, TypeOK, CoreType, Local
<1>1. ~Terminal'
  BY DEF Needs, Terminal, Done, Waiting, InModel
<1>2. ASSUME NEW s \in Done, Close(s)
      PROVE  FALSE
  BY <1>0, <1>1, <1>2 DEF Close, Save, Saved, CoreType, RunRecord, Terminal
<1>3. CASE UNCHANGED <<run, job, proposal>>
  BY <1>3 DEF Needs, InModel, Waiting, Decided
<1>4. CASE CreateAgentRun
  BY <1>0, <1>4 DEF CreateAgentRun, Emitted, Needs, InModel, Waiting, Event
<1>5. CASE DecideToolApproval
  <2>1. run' = Saved("running") /\ SaveJob("running", "tool_decision_recorded")
        /\ event' = Emitted("tool", run.rev + 1, job.rev + 1)
    BY <1>2, <1>5 DEF DecideToolApproval, Save, Done
  <2>2. run'.status = "running" /\ ~InModel'
    BY <1>0, <2>1 DEF Saved, SaveJob, CoreType, RunRecord, InModel
  <2>3. e = "tool"
    BY <2>2 DEF Needs, Waiting
  <2>4. QED
    BY <1>0, <2>1, <2>3 DEF Emitted
<1>6. CASE DecideProposal
  BY <1>0, <1>6 DEF DecideProposal, Emitted, Needs, InModel, Waiting, Event
<1>7. CASE EditResume
  BY <1>0, <1>7 DEF EditResume, Needs, InModel, Waiting, Decided, CoreType, ProposalRecord
<1>8. ASSUME NEW w \in Worker, Handle(w)
      PROVE  Needs(e) \/ event'[e].state = "open"
  <2>1. CASE PrepareExecution(w)
    <3>1. CASE /\ run.status = "queued" /\ run' = Saved("running")
               /\ SaveJob("running", "model_execution") /\ UNCHANGED proposal
      BY <1>0, <3>1 DEF SaveJob, Saved, CoreType, RunRecord, Needs, InModel, Waiting
    <3>2. QED
      BY <1>3, <2>1, <3>1 DEF PrepareExecution, Save
  <2>2. CASE RecordPreflightFailure(w)
    <3>1. CASE run' = [run EXCEPT !.status = "failed", !.rev = run.rev + 2]
      BY <1>0, <1>1, <3>1 DEF CoreType, RunRecord, Terminal, Done
    <3>2. QED
      BY <1>2, <1>3, <2>2, <3>1 DEF RecordPreflightFailure, Done
  <2>3. CASE CommitToolApproval(w)
    <3>1. run'.status = "waiting_for_approval"
      BY <1>0, <2>3 DEF CommitToolApproval, Save, Saved, CoreType, RunRecord
    <3>2. QED
      BY <3>1 DEF Needs, InModel, Waiting
  <2>4. CASE CommitProposalInterruption(w)
    <3>1. run'.status = "waiting_for_proposal_decision" /\ proposal'.status = "pending"
      BY <1>0, <2>4 DEF CommitProposalInterruption, Save, Saved, CoreType, RunRecord, ProposalRecord
    <3>2. QED
      BY <3>1 DEF Needs, InModel, Waiting, Decided
  <2>5. CASE PrepareProposalContinuation(w)
    <3>1. CASE Waiting /\ UNCHANGED <<run, proposal>>
      BY <3>1 DEF Needs, InModel, Waiting, Decided
    <3>2. QED
      BY <1>3, <2>5, <3>1 DEF PrepareProposalContinuation
  <2>6. CASE CommitCompletion(w) \/ RecordRunFailure(w) \/ RecordContinuationFailure(w)
             \/ FailExhausted(w) \/ RecordTool(w)
    BY <1>2, <1>3, <2>6 DEF CommitCompletion, RecordRunFailure, RecordContinuationFailure,
       FailExhausted, RecordTool, Done
  <2>7. CASE CallModel(w) \/ CommitRefused(w) \/ PrepareToolDecision(w) \/ CallTool(w)
             \/ HookRaises(w) \/ Complete(w) \/ Retry(w)
    BY <1>3, <2>7 DEF CallModel, CommitRefused, PrepareToolDecision, CallTool, HookRaises,
       Complete, Retry, Unsaved
  <2>8. QED
    BY <1>8, <2>1, <2>2, <2>3, <2>4, <2>5, <2>6, <2>7 DEF Handle
<1>9. CASE UpdateConversation \/ CancelAgentRun \/ CancelJob
  BY <1>2, <1>3, <1>9 DEF UpdateConversation, CancelAgentRun, CancelJob, Done
<1>10. CASE \/ \E w \in Worker : \/ \E f \in Event : Claim(w, f)
                                 \/ HookRaises(w) \/ Crash(w) \/ StorageError(w) \/ LeaseLost(w)
            \/ \E f \in Event : LeaseExpires(f)
            \/ UNCHANGED vars
  BY <1>3, <1>10 DEF Claim, HookRaises, Crash, StorageError, LeaseLost, Unsaved, LeaseExpires, vars
<1>11. QED
  BY <1>4, <1>5, <1>6, <1>7, <1>8, <1>9, <1>10 DEF Next, Request

\* How a step changes one event: it is emitted, or its lease changes hands, or it is
\* settled by a worker after which no Run needs it.
LEMMA EventStep ==
  ASSUME IInv, [Next]_vars
  PROVE  event' \in [Event -> EventRow] /\ EventInv'
<1>0. /\ CoreType /\ CoreInv /\ CoreDone /\ event \in [Event -> EventRow]
      /\ \A w \in Worker : WorkerInv(w) /\ worker[w] \in Local
      /\ \A e \in Event : Needs(e) => event[e].state = "open"
      /\ \A e \in Event : event[e].state # "none" => run.status # "absent"
  BY CoreStep, NeededIsOpen DEF IInv, TypeOK, CoreType, EventInv
<1>1. ASSUME NEW e \in Event, NEW r \in EventRow, event' = [event EXCEPT ![e] = r],
             r.state = "none" \/ run'.status # "absent",
             r.state = "open" \/ ~Needs(e)'
      PROVE  event' \in [Event -> EventRow] /\ EventInv'
  <2>1. event' \in [Event -> EventRow]
    BY <1>0, <1>1
  <2>2. \A f \in Event : Needs(f)' => event'[f].state = "open"
    BY <1>0, <1>1, NeedsStep
  <2>3. \A f \in Event : event'[f].state # "none" => run'.status # "absent"
    BY <1>0, <1>1 DEF CoreDone, Forward
  <2>4. StepIsOwned'
    BY <2>2 DEF StepIsOwned, Needs, Event, Decided, Waiting, InModel
  <2>5. QED
    BY <2>1, <2>3, <2>4 DEF EventInv
<1>2. CASE UNCHANGED event
  <2>1. \A f \in Event : Needs(f)' => event'[f].state = "open"
    BY <1>0, <1>2, NeedsStep
  <2>2. StepIsOwned'
    BY <2>1 DEF StepIsOwned, Needs, Event, Decided, Waiting, InModel
  <2>3. QED
    BY <1>0, <1>2, <2>2 DEF EventInv, CoreDone, Forward
<1>3. ASSUME NEW e \in Event, NEW r \in Rev, NEW j \in Rev, event' = Emitted(e, r, j),
             run'.status # "absent"
      PROVE  event' \in [Event -> EventRow] /\ EventInv'
  <2>1. PICK n \in EventRow : event' = [event EXCEPT ![e] = n] /\ n.state = "open"
    <3>1. [state |-> "open", attempt |-> 0, holder |-> Nobody, run |-> r, job |-> j] \in EventRow
      BY BoundAssumption DEF EventRow
    <3>2. QED
      BY <1>3, <3>1 DEF Emitted
  <2>2. QED
    BY <1>1, <1>3, <2>1
<1>4. ASSUME NEW e \in Event, NEW s \in {"open", "published", "failed"}, event' = Released(e, s),
             run'.status # "absent", s = "open" \/ ~Needs(e)'
      PROVE  event' \in [Event -> EventRow] /\ EventInv'
  <2>1. PICK n \in EventRow : event' = [event EXCEPT ![e] = n] /\ n.state = s
    <3>1. [event[e] EXCEPT !.state = s, !.holder = Nobody] \in EventRow
      BY <1>0 DEF EventRow
    <3>2. QED
      BY <1>0, <1>4, <3>1 DEF Released, EventRow
  <2>2. QED
    BY <1>1, <1>4, <2>1
<1>5. CASE Request
  <2>1. CASE CreateAgentRun
    BY <1>3, <2>1 DEF CreateAgentRun, Event, Rev
  <2>2. CASE DecideToolApproval
    <3>1. run.rev + 1 \in Rev /\ job.rev + 1 \in Rev /\ run'.status # "absent"
      BY <1>0, <2>2 DEF DecideToolApproval, CoreInv, Path, Aligned, Rev, CoreDone, Forward
    <3>2. QED
      BY <1>2, <1>3, <2>2, <3>1 DEF DecideToolApproval, Event
  <2>3. CASE DecideProposal
    <3>1. run'.status # "absent"
      BY <1>0, <2>3 DEF DecideProposal, CoreInv, Consent, Pending, CoreDone, Forward
    <3>2. QED
      BY <1>3, <2>3, <3>1 DEF DecideProposal, Event, Rev
  <2>4. QED
    BY <1>2, <1>5, <2>1, <2>2, <2>3 DEF Request, UpdateConversation, CancelAgentRun, CancelJob,
       EditResume
<1>6. ASSUME NEW w \in Worker, Complete(w) \/ Retry(w)
      PROVE  event' \in [Event -> EventRow] /\ EventInv'
  <2>0. PICK e \in Event : e = worker[w].event
    BY <1>0 DEF Local
  <2>1. run'.status # "absent"
    BY <1>0, <1>6 DEF Complete, Retry, WorkerInv, LocalInv
  <2>2. CASE UNCHANGED event
    BY <1>2, <2>2
  <2>3. CASE event' = Released(e, "open")
    BY <1>4, <2>1, <2>3
  <2>4. CASE event' \in {Released(e, "published"), Released(e, "failed")}
             /\ (worker[w].step = "retry" => worker[w].attempt >= MaxAttempts)
    <3>1. ~Needs(e)
      BY <1>0, <1>6, <2>0, <2>4 DEF Complete, Retry, WorkerInv, LocalInv, Needs, Pending, InModel, Waiting,
         Terminal, Done
    <3>2. ~Needs(e)'
      BY <1>6, <3>1 DEF Complete, Retry, Needs, InModel, Waiting, Decided
    <3>3. QED
      BY <1>4, <2>1, <2>4, <3>2
  <2>5. QED
    BY <1>6, <2>0, <2>2, <2>3, <2>4 DEF Complete, Retry
<1>7. ASSUME NEW w \in Worker, NEW e \in Event, Claim(w, e)
      PROVE  event' \in [Event -> EventRow] /\ EventInv'
  <2>1. PICK n \in EventRow : event' = [event EXCEPT ![e] = n] /\ n.state = "open"
    <3>1. NextAttempt(e) \in 0..MaxAttempts /\ event[e] \in EventRow /\ event[e].state = "open"
      BY <1>0, <1>7, BoundAssumption DEF Claim, Available, EventRow, NextAttempt
    <3>2. [event[e] EXCEPT !.attempt = NextAttempt(e), !.holder = w] \in EventRow
      BY <3>1 DEF EventRow
    <3>3. QED
      BY <1>7, <3>1, <3>2 DEF Claim, EventRow
  <2>2. run'.status # "absent"
    BY <1>0, <1>7 DEF Claim, Available, CoreDone, Forward
  <2>3. QED
    BY <1>1, <2>1, <2>2
<1>8. ASSUME NEW e \in Event, LeaseExpires(e)
      PROVE  event' \in [Event -> EventRow] /\ EventInv'
  <2>1. run'.status # "absent"
    BY <1>0, <1>8 DEF LeaseExpires, CoreDone, Forward
  <2>2. QED
    BY <1>4, <1>8, <2>1 DEF LeaseExpires
<1>9. ASSUME NEW w \in Worker, ~(Complete(w) \/ Retry(w)),
             \/ Handle(w) \/ HookRaises(w) \/ Crash(w) \/ StorageError(w) \/ LeaseLost(w)
      PROVE  UNCHANGED event
  BY <1>9 DEF Handle, PrepareExecution, RecordPreflightFailure, CallModel, CommitRefused,
     CommitCompletion, CommitToolApproval, CommitProposalInterruption, RecordRunFailure,
     PrepareToolDecision, CallTool, RecordTool, PrepareProposalContinuation,
     RecordContinuationFailure, FailExhausted, HookRaises, Crash, StorageError, LeaseLost, Unsaved
<1>10. QED
  BY <1>2, <1>5, <1>6, <1>7, <1>8, <1>9 DEF Next, vars

LEMMA FaultsStep ==
  ASSUME IInv, [Next]_vars
  PROVE  faults' \in 0..MaxFaults
<1>1. faults \in 0..MaxFaults
  BY DEF IInv, TypeOK
<1>2. UNCHANGED faults \/ Fault
  BY DEF Next, Request, CreateAgentRun, UpdateConversation, CancelAgentRun, CancelJob,
     DecideToolApproval, DecideProposal, EditResume, Claim, Handle, PrepareExecution,
     RecordPreflightFailure, CallModel, CommitRefused, CommitCompletion, CommitToolApproval,
     CommitProposalInterruption, RecordRunFailure, PrepareToolDecision, CallTool, RecordTool,
     PrepareProposalContinuation, RecordContinuationFailure, FailExhausted, HookRaises, Complete,
     Retry, Crash, StorageError, LeaseLost, LeaseExpires, Unsaved, vars
<1>3. QED
  BY <1>1, <1>2, BoundAssumption DEF Fault

LEMMA InitInv == Init => IInv
<1>. SUFFICES ASSUME Init PROVE IInv
  OBVIOUS
<1>. USE BoundAssumption DEF Init
<1>1. TypeOK
  BY DEF TypeOK, RunRecord, JobRecord, RunStatus, JobStatus, JobPhase, Rev, ConvRev, ProposalRecord, Session,
     EventRow, Absent, Local, Idle, Event, Step
<1>2. CoreInv
  BY DEF CoreInv, Path, Consent, Written, Aligned, JobOf, ApprovalFollowsRun, OneAnswer, Pending,
     InModel, ToolRecorded, Waiting, Terminal, Done
<1>3. \A w \in Worker : WorkerInv(w)
  BY DEF WorkerInv, LocalInv, Idle
<1>4. EventInv
  BY DEF EventInv, StepIsOwned, InModel, Waiting, Absent
<1>5. QED
  BY <1>1, <1>2, <1>3, <1>4 DEF IInv

\* The invariant the theorems follow from.
LEMMA Inductive == Spec => []IInv
<1>1. IInv /\ [Next]_vars => IInv'
  <2>. SUFFICES ASSUME IInv, [Next]_vars PROVE IInv'
    OBVIOUS
  <2>1. CoreType' /\ CoreInv'
    BY CoreStep DEF CoreDone
  <2>2. worker' \in [Worker -> Local] /\ \A w \in Worker : WorkerInv(w)'
    BY WorkerStep DEF WorkersDone
  <2>3. QED
    BY <2>1, <2>2, EventStep, FaultsStep DEF IInv, TypeOK, CoreType
<1>2. QED
  BY <1>1, InitInv, PTL DEF Spec

-----------------------------------------------------------------------------
\* Every variable keeps its type: revisions, counters and attempts stay bounded.
THEOREM TypeCorrect == Spec => []TypeOK
<1>1. IInv => TypeOK
  BY DEF IInv
<1>2. QED
  BY <1>1, Inductive, PTL

\* Run and Job never part, in status or in revision.
THEOREM RunAndJobAligned == Spec => []Aligned
<1>1. IInv => Aligned
  BY DEF IInv, CoreInv, Path
<1>2. QED
  BY <1>1, Inductive, PTL

\* A question is open exactly while its Run waits for it.
THEOREM QuestionFollowsRun == Spec => []ApprovalFollowsRun
<1>1. IInv => ApprovalFollowsRun
  BY DEF IInv, CoreInv, Consent
<1>2. QED
  BY <1>1, Inductive, PTL

\* A Run that waits for no person has an open event that moves it.
THEOREM NoRunIsOrphaned == Spec => []StepIsOwned
<1>1. IInv => StepIsOwned
  BY DEF IInv, EventInv
<1>2. QED
  BY <1>1, Inductive, PTL

\* A Run answers once, and exactly when it succeeds.
THEOREM AnswersOnce == Spec => []OneAnswer
<1>1. IInv => OneAnswer
  BY DEF IInv, CoreInv, Written
<1>2. QED
  BY <1>1, Inductive, PTL

-----------------------------------------------------------------------------
\* A worker that still agrees with the Run it read finds it open.
LEMMA AgreedIsOpen ==
  ASSUME IInv, NEW w \in Worker, Same(w), worker[w].step \in {"commit", "fail"},
         worker[w].event # "tool"
  PROVE  InModel \/ Continuing
BY SameRun DEF IInv, TypeOK, CoreType, Local, Event

\* A Run that is over is never touched again.
THEOREM TerminalRunsAreFinal == Spec => TerminalIsFinal
<1>1. IInv /\ [Next]_vars => [TerminalStep]_vars
  <2>. SUFFICES ASSUME IInv, [Next]_vars, Terminal
                PROVE  UNCHANGED <<run, job, approval>> /\ output'.answers = output.answers
    BY DEF TerminalStep
  <2>1. /\ run.status \in {"succeeded", "failed", "cancelled"}
        /\ ~InModel /\ ~Waiting /\ ~Continuing
    BY DEF Terminal, Done, InModel, Waiting, Continuing
  <2>2. CASE UNCHANGED vars
    BY <2>2 DEF vars
  <2>3. CASE Request
    BY <2>1, <2>3 DEF Request, CreateAgentRun, UpdateConversation, CancelAgentRun, CancelJob,
       DecideToolApproval, DecideProposal, EditResume, Done
  <2>4. ASSUME NEW w \in Worker, Handle(w)
        PROVE  UNCHANGED <<run, job, approval>> /\ output'.answers = output.answers
    <3>1. CASE PrepareExecution(w)
      BY <2>1, <3>1 DEF PrepareExecution
    <3>2. CASE RecordPreflightFailure(w)
      BY <2>1, <3>2 DEF RecordPreflightFailure
    <3>3. CASE CallModel(w) \/ CommitRefused(w) \/ PrepareToolDecision(w) \/ HookRaises(w)
               \/ Complete(w) \/ Retry(w)
      BY <3>3 DEF CallModel, CommitRefused, PrepareToolDecision, HookRaises, Complete, Retry, Unsaved
    <3>4. CASE CommitCompletion(w) \/ CommitToolApproval(w) \/ CommitProposalInterruption(w)
               \/ RecordRunFailure(w)
      BY <2>1, <3>4, AgreedIsOpen DEF CommitCompletion, CommitToolApproval,
         CommitProposalInterruption, MayCommit, Committing, RecordRunFailure
    <3>5. CASE CallTool(w)
      BY <3>5 DEF CallTool, IInv, TypeOK
    <3>6. CASE RecordTool(w)
      BY <2>1, <3>6 DEF RecordTool, ToolBound
    <3>7. CASE PrepareProposalContinuation(w) \/ RecordContinuationFailure(w)
      BY <2>1, <3>7 DEF PrepareProposalContinuation, RecordContinuationFailure
    <3>8. CASE FailExhausted(w)
      BY <2>1, <3>8 DEF FailExhausted, CloseApproval
    <3>9. QED
      BY <2>4, <3>1, <3>2, <3>3, <3>4, <3>5, <3>6, <3>7, <3>8 DEF Handle
  <2>5. CASE \/ \E w \in Worker : \/ \E e \in Event : Claim(w, e)
                                  \/ HookRaises(w) \/ Crash(w) \/ StorageError(w) \/ LeaseLost(w)
             \/ \E e \in Event : LeaseExpires(e)
    BY <2>5 DEF Claim, HookRaises, Crash, StorageError, LeaseLost, LeaseExpires, Unsaved
  <2>6. QED
    BY <2>2, <2>3, <2>4, <2>5 DEF Next
<1>2. QED
  BY <1>1, Inductive, PTL DEF TerminalIsFinal, Spec

-----------------------------------------------------------------------------
\* The user's word, as the abstract Run knows it.
Word(a) == IF a = "none" THEN "none" ELSE IF a = "pending" THEN "asked"
           ELSE IF a = "approved" THEN "given" ELSE "refused"

\* One step of the abstract Run, or none.
Promised == [Lifecycle!LNext]_(Lifecycle!lVars)

LEMMA Stutters ==
  ASSUME run'.status = run.status, approval' = approval,
         output'.tool = output.tool, output'.answers = output.answers
  PROVE  Promised
BY DEF Promised, Lifecycle!lVars

\* Whoever closes a Run in failure shuts the abstract one, question included.
LEMMA Shuts ==
  ASSUME IInv, run.status \in RunStatus \ (Done \cup {"absent"}),
         run'.status \in {"failed", "cancelled"}, CloseApproval,
         output'.tool = output.tool, output'.answers = output.answers
  PROVE  Promised
<1>1. run.status \in Lifecycle!Open
  BY DEF RunStatus, Done, Lifecycle!Open
<1>2. Word(approval') = IF Word(approval) = "asked" THEN "refused" ELSE Word(approval)
  BY DEF Word, CloseApproval, IInv, CoreInv, Consent, ApprovalFollowsRun
<1>3. Lifecycle!Shut
  BY <1>1, <1>2 DEF Lifecycle!Shut, Word
<1>4. QED
  BY <1>3 DEF Promised, Lifecycle!LNext

LEMMA Answers ==
  ASSUME IInv, InModel \/ Continuing \/ (ToolRecorded /\ approval = "approved" /\ output.tool),
         run'.status = "succeeded", UNCHANGED approval,
         output' = [output EXCEPT !.answers = output.answers + 1]
  PROVE  Promised
<1>1. output'.answers = output.answers + 1 /\ output'.tool = output.tool
  BY DEF IInv, TypeOK
<1>2. approval = "none" \/ (approval = "approved" /\ output.tool)
  BY DEF IInv, CoreInv, Consent, Pending, Continuing
<1>3. run.status \in {"running", "waiting_for_proposal_decision"}
  BY DEF InModel, Continuing, ToolRecorded, Waiting
<1>4. Lifecycle!Answer
  BY <1>1, <1>2, <1>3 DEF Lifecycle!Answer
<1>5. QED
  BY <1>4 DEF Promised, Lifecycle!LNext

\* The Run, as its code keeps it, implements the Run its user was promised.
THEOREM ImplementsLifecycle == Spec => Implements
<1>1. Init => Lifecycle!LInit
  BY DEF Init, Lifecycle!LInit
<1>2. IInv /\ [Next]_vars => Promised
  <2>. SUFFICES ASSUME IInv, [Next]_vars PROVE Promised
    OBVIOUS
  <2>0. /\ run \in RunRecord /\ job \in JobRecord /\ run.status \in RunStatus
        /\ output \in [answers : 0..1, drafts : 0..1, tool : BOOLEAN]
        /\ \A w \in Worker : WorkerInv(w) /\ worker[w].event \in Event
    BY DEF IInv, TypeOK, RunRecord, Local
  <2>1. ASSUME NEW s \in RunStatus, NEW j \in JobStatus, NEW p \in JobPhase, Save(s, j, p)
        PROVE  run'.status = s
    BY <2>0, <2>1 DEF Save, Saved, RunRecord
  <2>2. ASSUME NEW s \in Done, Close(s)
        PROVE  run'.status = s
    BY <2>0, <2>2 DEF Close, Save, Saved, RunRecord
  <2>3. CASE Request
    <3>1. CASE CreateAgentRun
      <4>1. Lifecycle!Submit
        BY <3>1 DEF CreateAgentRun, Lifecycle!Submit
      <4>2. QED
        BY <4>1 DEF Promised, Lifecycle!LNext
    <3>2. CASE UpdateConversation \/ DecideProposal \/ EditResume
      BY <3>2, Stutters DEF UpdateConversation, DecideProposal, EditResume
    <3>3. CASE CancelAgentRun \/ CancelJob
      BY <2>2, <3>3, Shuts DEF CancelAgentRun, CancelJob, RunStatus, Done
    <3>4. CASE DecideToolApproval
      <4>1. CASE approval' = "expired" /\ Close("failed")
        BY <2>2, <3>4, <4>1, Shuts DEF DecideToolApproval, CloseApproval, RunStatus, Done
      <4>2. CASE approval' \in {"approved", "rejected"}
                 /\ Save("running", "running", "tool_decision_recorded")
        <5>1. run'.status = "running"
          BY <2>1, <4>2 DEF RunStatus, JobStatus, JobPhase
        <5>2. Lifecycle!Decide
          BY <3>4, <4>2, <5>1 DEF DecideToolApproval, Lifecycle!Decide
        <5>3. QED
          BY <5>2 DEF Promised, Lifecycle!LNext
      <4>3. QED
        BY <3>4, <4>1, <4>2 DEF DecideToolApproval
    <3>5. QED
      BY <2>3, <3>1, <3>2, <3>3, <3>4 DEF Request
  <2>4. ASSUME NEW w \in Worker, Handle(w)
        PROVE  Promised
    <3>1. CASE PrepareExecution(w)
      <4>1. CASE UNCHANGED run
        BY <3>1, <4>1, Stutters DEF PrepareExecution
      <4>2. CASE run.status = "queued" /\ run' = Saved("running")
        <5>1. run'.status = "running"
          BY <2>0, <4>2 DEF Saved, RunRecord
        <5>2. Lifecycle!Begin
          BY <3>1, <4>2, <5>1 DEF PrepareExecution, Lifecycle!Begin
        <5>3. QED
          BY <5>2 DEF Promised, Lifecycle!LNext
      <4>3. QED
        BY <3>1, <4>1, <4>2 DEF PrepareExecution, Save
    <3>2. CASE RecordPreflightFailure(w)
      <4>1. CASE UNCHANGED run
        BY <3>2, <4>1, Stutters DEF RecordPreflightFailure
      <4>2. CASE run.status \in {"queued", "running"} /\ run'.status = "failed"
        BY <3>2, <4>2, Shuts DEF RecordPreflightFailure, CloseApproval, RunStatus, Done
      <4>3. run' = [run EXCEPT !.status = "failed", !.rev = run.rev + 2] => run'.status = "failed"
        BY <2>0 DEF RunRecord
      <4>4. QED
        BY <2>2, <3>2, <4>1, <4>2, <4>3 DEF RecordPreflightFailure, InModel, Done
    <3>3. CASE CallModel(w) \/ CommitRefused(w) \/ PrepareToolDecision(w) \/ HookRaises(w)
               \/ Complete(w) \/ Retry(w) \/ PrepareProposalContinuation(w)
      BY <3>3, Stutters DEF CallModel, CommitRefused, PrepareToolDecision, HookRaises, Complete,
         Retry, PrepareProposalContinuation, Unsaved
    <3>4. CASE CommitCompletion(w)
      <4>1. InModel \/ Continuing
        BY <3>4, AgreedIsOpen DEF CommitCompletion, MayCommit, Committing
      <4>2. run'.status = "succeeded"
        BY <2>2, <3>4 DEF CommitCompletion, Done
      <4>3. UNCHANGED approval /\ output' = [output EXCEPT !.answers = output.answers + 1]
        BY <3>4 DEF CommitCompletion
      <4>4. QED
        BY <4>1, <4>2, <4>3, Answers
    <3>5. CASE CommitToolApproval(w) \/ CommitProposalInterruption(w)
      <4>1. InModel
        <5>1. worker[w].event = "queued" /\ Same(w) /\ worker[w].step = "commit"
          BY <2>0, <3>5 DEF CommitToolApproval, CommitProposalInterruption, MayCommit, Committing,
             WorkerInv, LocalInv, Event
        <5>2. QED
          BY <5>1, SameRun DEF IInv, TypeOK, CoreType
      <4>2. run.status = "running" /\ approval = "none"
        BY <4>1 DEF InModel, IInv, CoreInv, Consent, Pending
      <4>3. CASE CommitToolApproval(w)
        <5>1. run'.status = "waiting_for_approval"
          BY <2>1, <4>3 DEF CommitToolApproval, RunStatus, JobStatus, JobPhase
        <5>2. Lifecycle!Ask
          BY <4>2, <4>3, <5>1 DEF CommitToolApproval, Lifecycle!Ask
        <5>3. QED
          BY <5>2 DEF Promised, Lifecycle!LNext
      <4>4. CASE CommitProposalInterruption(w)
        <5>1. run'.status = "waiting_for_proposal_decision"
          BY <2>1, <4>4 DEF CommitProposalInterruption, RunStatus, JobStatus, JobPhase
        <5>2. output'.tool = output.tool /\ output'.answers = output.answers
          BY <2>0, <4>4 DEF CommitProposalInterruption
        <5>3. Lifecycle!Draft
          BY <4>2, <4>4, <5>1, <5>2 DEF CommitProposalInterruption, Lifecycle!Draft
        <5>4. QED
          BY <5>3 DEF Promised, Lifecycle!LNext
      <4>5. QED
        BY <3>5, <4>3, <4>4
    <3>6. CASE RecordRunFailure(w)
      <4>1. CASE UNCHANGED run
        BY <3>6, <4>1, Stutters DEF RecordRunFailure
      <4>2. CASE Same(w) /\ Close("failed")
        <5>1. run.status \in {"running", "waiting_for_proposal_decision"}
          BY <3>6, <4>2, AgreedIsOpen DEF RecordRunFailure, InModel, Continuing, Waiting
        <5>2. QED
          BY <2>2, <3>6, <4>2, <5>1, Shuts DEF RecordRunFailure, CloseApproval, RunStatus, Done
      <4>3. QED
        BY <3>6, <4>1, <4>2 DEF RecordRunFailure
    <3>7. CASE CallTool(w)
      <4>1. approval = "approved" /\ output'.tool = TRUE /\ output'.answers = output.answers
        BY <2>0, <3>7 DEF CallTool, At, WorkerInv, LocalInv
      <4>2. Lifecycle!Call
        BY <3>7, <4>1 DEF CallTool, Lifecycle!Call
      <4>3. QED
        BY <4>2 DEF Promised, Lifecycle!LNext
    <3>8. CASE RecordTool(w)
      <4>1. CASE UNCHANGED <<run, output>>
        BY <3>8, <4>1, Stutters DEF RecordTool
      <4>2. CASE run.status = "running" /\ (Close("failed") \/ Close("cancelled")) /\ UNCHANGED output
        BY <2>2, <3>8, <4>2, Shuts DEF RecordTool, CloseApproval, RunStatus, Done
      <4>3. CASE /\ worker[w].step = "commit" /\ run.status = "running" /\ Close("succeeded")
                 /\ output' = [output EXCEPT !.answers = output.answers + 1]
        <5>1. approval = "approved" /\ output.tool /\ UNCHANGED approval
          BY <2>0, <3>8, <4>3 DEF RecordTool, WorkerInv, LocalInv
        <5>2. ToolRecorded
          BY <4>3, <5>1 DEF IInv, CoreInv, Path, Consent, Pending
        <5>3. QED
          BY <2>2, <4>3, <5>1, <5>2, Answers DEF Done
      <4>4. QED
        BY <3>8, <4>1, <4>2, <4>3 DEF RecordTool, ToolBound
    <3>9. CASE RecordContinuationFailure(w)
      <4>1. CASE UNCHANGED run
        BY <3>9, <4>1, Stutters DEF RecordContinuationFailure
      <4>2. CASE Waiting /\ Close("failed")
        BY <2>2, <3>9, <4>2, Shuts DEF RecordContinuationFailure, Waiting, CloseApproval, RunStatus, Done
      <4>3. QED
        BY <3>9, <4>1, <4>2 DEF RecordContinuationFailure
    <3>10. CASE FailExhausted(w)
      <4>1. CASE Terminal /\ UNCHANGED run
        BY <3>10, <4>1, Stutters DEF FailExhausted, CloseApproval, Terminal, Done
      <4>2. CASE ~Terminal /\ Close(IF run.status = "queued" THEN "cancelled" ELSE "failed")
        <5>1. run.status # "absent"
          BY <2>0, <3>10 DEF FailExhausted, WorkerInv, LocalInv
        <5>2. run'.status \in {"failed", "cancelled"}
          BY <2>2, <4>2 DEF Done
        <5>3. QED
          BY <2>0, <3>10, <4>2, <5>1, <5>2, Shuts DEF FailExhausted, Terminal
      <4>3. QED
        BY <3>10, <4>1, <4>2 DEF FailExhausted
    <3>11. QED
      BY <2>4, <3>1, <3>2, <3>3, <3>4, <3>5, <3>6, <3>7, <3>8, <3>9, <3>10 DEF Handle
  <2>5. CASE \/ \E w \in Worker : \/ \E e \in Event : Claim(w, e)
                                  \/ HookRaises(w) \/ Crash(w) \/ StorageError(w) \/ LeaseLost(w)
             \/ \E e \in Event : LeaseExpires(e)
             \/ UNCHANGED vars
    BY <2>5, Stutters DEF Claim, HookRaises, Crash, StorageError, LeaseLost, LeaseExpires, Unsaved, vars
  <2>6. QED
    BY <2>3, <2>4, <2>5 DEF Next
<1>3. QED
  BY <1>1, <1>2, Inductive, PTL DEF Spec, Promised, Implements, Lifecycle!LSpec
=============================================================================
