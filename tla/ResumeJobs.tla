------------------------------ MODULE ResumeJobs ------------------------------
(***************************************************************************)
(* The Jobs of the Resume domain: imports of one upload, restores and      *)
(* renders of one Resume (application/resumes.py, application/             *)
(* resume_worker.py, infrastructure/resumes.py), with the upload session   *)
(* they consume, which Knowledge competes for, and the edits that go on    *)
(* meanwhile.                                                              *)
(*                                                                         *)
(* A handler prepares, converts or renders outside any transaction, and    *)
(* completes.  A Job delivered again keeps its revision, so two handlers   *)
(* of one Job are told apart by nothing until one of them settles it.      *)
(***************************************************************************)
EXTENDS JobWork, UploadSession, Sequences, FiniteSets

CONSTANTS Knowledge,  \* the Knowledge version that may consume the upload
          Kinds,      \* subset of {"import", "restore", "render"}
          MaxEdits    \* bound: later edits of the Resume

ASSUME ConsumerAssumption == Consumer = Job \cup {Knowledge} /\ Knowledge \notin Job
ASSUME EditAssumption     == "edit" \notin Job
ASSUME KindAssumption     == Kinds # {} /\ Kinds \subseteq {"import", "restore", "render"}
ASSUME EditsAssumption    == MaxEdits \in Nat

VARIABLE resume   \* what made each revision of the Resume: "edit", or a restore Job

vars == <<resume, upload, stored, lapsed, attempt, job, delivery, worker, performed, cancel>>

\* base: the revision of the Resume in the Job's subject.
JobRow == [status : Status, kind : Kinds, rev : Nat, base : Nat]

TypeOK == /\ resume \in Seq(Job \cup {"edit"})
          /\ UploadTypeOK
          /\ WorkTypeOK(JobRow)

NoRow == [status |-> "absent", kind |-> CHOOSE k \in Kinds : TRUE, rev |-> 0, base |-> 0]

Init == resume \in {<<>>, <<"edit">>} /\ UploadInit /\ WorkInit(NoRow)

-----------------------------------------------------------------------------
(* Requests.                                                               *)

\* apply_operations, a decided Proposal, undo: anything that makes a revision.
EditResume == /\ resume # <<>>
              /\ Cardinality({n \in DOMAIN resume : resume[n] = "edit"}) <= MaxEdits
              /\ resume' = Append(resume, "edit")
              /\ UNCHANGED jobVars /\ UNCHANGED uVars

Queued(kind) == [status |-> "queued", kind |-> kind, rev |-> 1, base |-> Len(resume)]

\* create_import_job: claims the upload, unless it has expired.
CreateImportJob(j) == /\ "import" \in Kinds /\ ~lapsed
                      /\ ClaimContent(j)
                      /\ AddJob(j, Queued("import"))
                      /\ UNCHANGED resume

\* create_restore_job, create_render_job
CreateResumeJob(j, kind) == /\ resume # <<>> /\ kind \in Kinds \ {"import"}
                            /\ AddJob(j, Queued(kind))
                            /\ UNCHANGED resume /\ UNCHANGED uVars

\* create_knowledge_source and create_knowledge_source_version ignore the expiry.
ConsumeByKnowledge == ClaimContent(Knowledge) /\ UNCHANGED resume /\ UNCHANGED jobVars

\* cancel_job with _cancel_resume_import: a cancelled import gives its upload back.
Cancel ==
  LET j == cancel.job
      releases == job[j].kind = "import"
  IN  /\ j # NoJob
      /\ IF Swaps(j) /\ (releases => upload.by = j)
         THEN /\ job' = Withdrawn(j)
              /\ IF releases THEN ReleaseContent ELSE UNCHANGED uVars
         ELSE UNCHANGED job /\ UNCHANGED uVars
      /\ cancel' = NoRead
      /\ UNCHANGED <<resume, delivery, worker, performed>>

-----------------------------------------------------------------------------
(* The worker.                                                             *)
Only == UNCHANGED <<resume, cancel>> /\ UNCHANGED uVars

\* get_import_source, and the target of a restore before the work is done.
Usable(j) == CASE job[j].kind = "import"  -> upload.status = "completed" /\ upload.by = j
               [] job[j].kind = "restore" -> job[j].base = Len(resume)
               [] OTHER -> TRUE

\* _prepare settles what it cannot execute: a target that moved on, a template
\* that is gone; a Job that is terminal is left alone.
PrepareNothing(j) ==
  /\ Receives(j)
  /\ IF JobSettled(j) THEN UNCHANGED job
     ELSE job' = [job EXCEPT ![j] = StartedAndClosed(j, "failed")]
  /\ AcknowledgeAtOnce(j)
  /\ UNCHANGED <<worker, performed>> /\ Only

\* A running Job is taken up at its revision: nothing fences the last handler.
Prepare(w, j) ==
  /\ Receives(j) /\ worker[w] = Idle
  /\ ~JobSettled(j) /\ Usable(j)
  /\ LET rev == IF job[j].status = "queued" THEN job[j].rev + 1 ELSE job[j].rev
     IN  /\ job' = [job EXCEPT ![j].status = "running", ![j].rev = rev]
         /\ Take(w, j, rev, Len(resume))
  /\ UNCHANGED performed /\ Only

\* save_resume compares the revision read by the preparation.
SavesUnchecked(w) == TRUE
Saves(w) == worker[w].targetRev = Len(resume)

\* _complete: the result and the end of the Job commit together.
Complete(w) ==
  LET j == worker[w].job
  IN  /\ HoldsJob(w)
      /\ IF job[j].kind = "restore" THEN Saves(w) /\ resume' = Append(resume, j)
         ELSE UNCHANGED resume
      /\ job' = [job EXCEPT ![j] = Closed(j, "succeeded")]
      /\ performed' = performed \cup {j}
      /\ Release(w, TRUE)
      /\ UNCHANGED cancel /\ UNCHANGED uVars

\* Every handler that finds its Job terminal returns it.
ReturnLate(w) == /\ worker[w].job # NoJob /\ JobSettled(worker[w].job)
                 /\ Release(w, TRUE)
                 /\ UNCHANGED <<job, performed>> /\ Only

\* _fail_job: a failure that is not retried; it looks at no revision.
Fail(w) == LET j == worker[w].job
           IN  /\ j # NoJob /\ ~JobSettled(j)
               /\ job' = [job EXCEPT ![j] = StartedAndClosed(j, "failed")]
               /\ Release(w, TRUE)
               /\ UNCHANGED performed /\ Only

\* ResumeWorkerRetry, a lost lease or a crash.
Raise(w) == /\ worker[w].job # NoJob
            /\ Release(w, FALSE)
            /\ UNCHANGED <<job, performed>> /\ Only

\* fail_exhausted
Exhaust(j) == /\ Spent(j)
              /\ job' = IF JobSettled(j) THEN job
                        ELSE [job EXCEPT ![j] = StartedAndClosed(j, "failed")]
              /\ delivery' = [delivery EXCEPT ![j].open = FALSE]
              /\ UNCHANGED <<worker, performed>> /\ Only

-----------------------------------------------------------------------------
Requests(j) == \/ CreateImportJob(j)
               \/ \E kind \in Kinds : CreateResumeJob(j, kind)
               \/ ReadForCancel(j) /\ UNCHANGED resume /\ UNCHANGED uVars
Receive(j) == PrepareNothing(j) \/ \E w \in Worker : Prepare(w, j)
Ends(w)    == Complete(w) \/ ReturnLate(w) \/ Fail(w) \/ Raise(w)

Next == \/ UploadNext /\ UNCHANGED resume /\ UNCHANGED jobVars
        \/ EditResume \/ ConsumeByKnowledge \/ Cancel
        \/ \E j \in Job : Requests(j) \/ Receive(j) \/ Exhaust(j)
        \/ \E w \in Worker : Ends(w)

Spec == Init /\ [][Next]_vars

-----------------------------------------------------------------------------
(* PROPERTIES                                                              *)

\* The content of an upload becomes one Resume or one Knowledge version, never
\* both: a cancelled import gives it back only if its handlers publish nothing.
ConsumedOnce == \A j \in performed : job[j].kind = "import" =>
                  upload.status = "completed" /\ upload.by = j

\* A restore makes the revision after the one its request named, once: whatever
\* was edited since is never overwritten by it.
RestoreKeepsEdits == \A n \in DOMAIN resume : resume[n] \in Job =>
                       n = job[resume[n]].base + 1 /\ resume[n] \in performed
=============================================================================
