----------------------------- MODULE ResumeProofs -----------------------------
(***************************************************************************)
(* Theorems about the Resume domain.  First its Jobs, for any number of    *)
(* Jobs, handlers, attempts, edits and completion requests; then the       *)
(* operations on a Resume, for any operation ids, edits and batches.       *)
(***************************************************************************)
EXTENDS ResumeJobs, ResumeOperations, JobWorkProofs

\* A live or successful import is the consumer of a verified upload.
Imports == \A j \in Job :
  job[j].kind = "import" /\ job[j].status \in {"queued", "running", "succeeded"}
    => upload.status = "completed" /\ upload.by = j

\* What is published was published by a Job that succeeded.
PerformedSucceeded == \A j \in performed : job[j].status = "succeeded"

\* A handler of a restore has read the very revision its Job was asked for.
RestoresBase == \A w \in Worker :
  worker[w].job # NoJob /\ job[worker[w].job].kind = "restore"
    => worker[w].targetRev = job[worker[w].job].base

Inv == /\ TypeOK /\ WorkInv /\ Imports /\ PerformedSucceeded
       /\ RestoresBase /\ RestoreKeepsEdits

-----------------------------------------------------------------------------
\* The types, as the lemmas of JobWorkProofs want them.
LEMMA Typed ==
  ASSUME TypeOK
  PROVE  /\ WorkTyped /\ job \in [Job -> JobRow]
         /\ \A j \in Job : job[j] \in JobRow /\ job[j].rev \in Nat /\ job[j].base \in Nat
         /\ Len(resume) \in Nat
BY DEF TypeOK, WorkTypeOK, WorkTyped, JobRow

\* A closed row keeps its kind and base, and has a later revision.
LEMMA ClosedFacts ==
  ASSUME NEW j \in Job, job[j] \in JobRow, NEW how \in {"succeeded", "failed", "cancelled"}
  PROVE  /\ Closed(j, how) \in JobRow /\ Closed(j, how).status = how
         /\ Closed(j, how).kind = job[j].kind /\ Closed(j, how).base = job[j].base
         /\ Closed(j, how).rev > job[j].rev
         /\ StartedAndClosed(j, how) \in JobRow /\ StartedAndClosed(j, how).status = how
         /\ StartedAndClosed(j, how).kind = job[j].kind
         /\ StartedAndClosed(j, how).base = job[j].base
         /\ StartedAndClosed(j, how).rev > job[j].rev
<1>1. how \in Status BY DEF Status, Settled
<1> DEFINE c == Closed(j, how)
<1>2. /\ c \in JobRow /\ c.status = how /\ c.kind = job[j].kind /\ c.base = job[j].base
      /\ c.rev = job[j].rev + 1 /\ job[j].rev \in Nat
  <2>1. PICK k \in Kinds, n \in Nat, b \in Nat, st \in Status :
          job[j] = [status |-> st, kind |-> k, rev |-> n, base |-> b]
    BY DEF JobRow
  <2>2. [job[j] EXCEPT !.status = how] = [status |-> how, kind |-> k, rev |-> n, base |-> b]
    BY <2>1
  <2>3. c = [[job[j] EXCEPT !.status = how] EXCEPT !.rev = n + 1] BY <2>1 DEF Closed
  <2>4. c = [status |-> how, kind |-> k, rev |-> n + 1, base |-> b] BY <2>2, <2>3
  <2> QED BY <1>1, <2>1, <2>4 DEF JobRow
<1> HIDE DEF c
<1> DEFINE s == [c EXCEPT !.rev = IF job[j].status = "queued" THEN c.rev + 1 ELSE c.rev]
<1>3. /\ s \in JobRow /\ s.status = how /\ s.kind = job[j].kind /\ s.base = job[j].base
      /\ s.rev > job[j].rev
  <2>1. (IF job[j].status = "queued" THEN c.rev + 1 ELSE c.rev) \in Nat BY <1>2
  <2>2. (IF job[j].status = "queued" THEN c.rev + 1 ELSE c.rev) > job[j].rev BY <1>2
  <2> QED BY <1>2, <2>1, <2>2 DEF JobRow
<1>4. StartedAndClosed(j, how) = s BY DEF StartedAndClosed, c
<1> QED BY <1>2, <1>3, <1>4 DEF c

\* The upload's own steps keep its consumer and its verdict.
LEMMA UploadSteps ==
  ASSUME UploadTypeOK, UploadNext
  PROVE  /\ UploadTypeOK' /\ upload'.by = upload.by
         /\ upload.status \in {"completed", "failed"} => upload'.status = upload.status
<1>1. CASE Put BY <1>1 DEF Put, UploadTypeOK
<1>2. CASE Lapse BY <1>2 DEF Lapse, UploadTypeOK
<1>3. ASSUME NEW a \in Attempt, NEW op \in Operation, Begin(a, op)
      PROVE  /\ UploadTypeOK' /\ upload'.by = upload.by
             /\ upload.status \in {"completed", "failed"} => upload'.status = upload.status
  BY <1>3 DEF Begin, UploadTypeOK
<1>4. ASSUME NEW a \in Attempt, Scan(a)
      PROVE  /\ UploadTypeOK' /\ upload'.by = upload.by
             /\ upload.status \in {"completed", "failed"} => upload'.status = upload.status
  BY <1>4 DEF Scan, Goto, UploadTypeOK
<1>5. ASSUME NEW a \in Attempt, RecordFailure(a)
      PROVE  /\ UploadTypeOK' /\ upload'.by = upload.by
             /\ upload.status \in {"completed", "failed"} => upload'.status = upload.status
  BY <1>5 DEF RecordFailure, Owns, Leave, NoAttempt, UploadTypeOK
<1>6. ASSUME NEW a \in Attempt, CommitCompletion(a)
      PROVE  /\ UploadTypeOK' /\ upload'.by = upload.by
             /\ upload.status \in {"completed", "failed"} => upload'.status = upload.status
  BY <1>6 DEF CommitCompletion, Owns, Leave, NoAttempt, UploadTypeOK
<1>7. ASSUME NEW a \in Attempt, Abandon(a)
      PROVE  /\ UploadTypeOK' /\ upload'.by = upload.by
             /\ upload.status \in {"completed", "failed"} => upload'.status = upload.status
  BY <1>7 DEF Abandon, Leave, NoAttempt, UploadTypeOK
<1> QED BY <1>1, <1>2, <1>3, <1>4, <1>5, <1>6, <1>7 DEF UploadNext

\* Claiming and releasing the content.
LEMMA ContentSteps ==
  ASSUME UploadTypeOK
  PROVE  /\ \A c \in Consumer : ClaimContent(c) =>
              /\ UploadTypeOK' /\ upload'.by = c /\ upload'.status = upload.status
              /\ upload.status = "completed" /\ upload.by = NoConsumer
         /\ ReleaseContent =>
              UploadTypeOK' /\ upload'.by = NoConsumer /\ upload'.status = upload.status
BY DEF ClaimContent, Claimable, ReleaseContent, UploadTypeOK

-----------------------------------------------------------------------------
LEMMA InitInv == Init => Inv
<1> SUFFICES ASSUME Init PROVE Inv OBVIOUS
<1> USE DEF Init
<1>1. NoRow \in JobRow /\ NoRow.status = "absent"
  BY KindAssumption DEF NoRow, JobRow, Status
<1>2. UploadTypeOK
  <2>1. PICK st \in {"created", "absent"}, type \in BOOLEAN : upload = Created(st, type)
    BY DEF UploadInit
  <2>2. attempt \in [Attempt -> [op : Operation \cup {NoOperation},
                                at : {"idle", "scanning", "rejected", "verified"}]]
    BY DEF UploadInit, NoAttempt
  <2> QED BY <2>1, <2>2 DEF UploadInit, UploadTypeOK, Created
<1>3. WorkTypeOK(JobRow)
  BY <1>1 DEF WorkInit, WorkTypeOK, Idle, Local, NoRead, Read
<1>4. TypeOK
  <2>1. <<>> \in Seq(Job \cup {"edit"}) OBVIOUS
  <2>2. <<"edit">> \in Seq(Job \cup {"edit"}) OBVIOUS
  <2> QED BY <1>2, <1>3, <2>1, <2>2 DEF TypeOK
<1>5. /\ \A j \in Job : job[j].status = "absent" /\ ~delivery[j].open
      /\ \A w \in Worker : worker[w].job = NoJob
      /\ cancel.job = NoJob /\ performed = {}
  BY <1>1 DEF WorkInit, Idle, NoRead
<1>6. WorkInv BY <1>5 DEF WorkInv
<1>7. Imports /\ PerformedSucceeded /\ RestoresBase
  BY <1>5 DEF Imports, PerformedSucceeded, RestoresBase
<1>8. RestoreKeepsEdits
  BY EditAssumption DEF RestoreKeepsEdits
<1> QED BY <1>4, <1>6, <1>7, <1>8 DEF Inv

-----------------------------------------------------------------------------
\* What every step but a request does to a Job, its event and its handlers.
Kept(j) == job[j].status # "absent" => job'[j].kind = job[j].kind /\ job'[j].base = job[j].base

Core(j) == /\ WorkTypeOK(JobRow)' /\ Advances(j) /\ Delivers(j) /\ Works(j) /\ Reads
           /\ Kept(j)
           /\ Allowed(j, job[j].status, job'[j].status, delivery[j].open, delivery'[j].open)

\* A row that is not the moving one is as it was; no row that exists loses its kind.
LEMMA CoreFacts ==
  ASSUME TypeOK, NEW j \in Job, Core(j)
  PROVE  \A i \in Job : /\ job'[i] # job[i] => i = j
                        /\ job[i].status # "absent" =>
                             job'[i].kind = job[i].kind /\ job'[i].base = job[i].base
BY DEF Core, Kept, Advances

\* A step of that form keeps the invariants about Jobs and is a step of UnifiedJob.
LEMMA CoreStep ==
  ASSUME TypeOK, WorkInv, NEW j \in Job, Core(j)
  PROVE  WorkInv' /\ [Unified!JNext]_<<Statuses, performed, Events>>
<1>1. WorkTyped /\ \A i \in Job : job[i].rev \in Nat BY Typed
<1>2. WorkInv' BY <1>1, WorkInvKept DEF Core
<1>3. OthersRest(j) BY DEF Core, Advances, Delivers, OthersRest
<1>4. delivery[j].open \in BOOLEAN /\ delivery'[j].open \in BOOLEAN
  BY DEF TypeOK, WorkTypeOK, Core
<1> QED BY <1>2, <1>3, <1>4, UnifiedStep DEF Core

\* A Job that succeeded stays so.
LEMMA SucceededStays ==
  ASSUME NEW j \in Job, Core(j), NEW i \in Job, job[i].status = "succeeded"
  PROVE  job'[i].status = "succeeded"
<1>1. CASE i = j BY <1>1 DEF Core, Allowed, Live
<1>2. CASE i # j BY <1>2 DEF Core, Advances
<1> QED BY <1>1, <1>2

\* What handlers hold after the step: what they held, or a restore's own revision.
HandlersKept(j) == \A w \in Worker :
  \/ worker'[w] \in {worker[w], Idle}
  \/ /\ worker'[w].job = j /\ job[j].status # "absent"
     /\ job[j].kind = "restore" => worker'[w].targetRev = job[j].base

Published(j) == \/ UNCHANGED performed
                \/ performed' = performed \cup {j} /\ job'[j].status = "succeeded"

LEMMA HandlersClosing ==
  ASSUME Inv, NEW j \in Job, Core(j), HandlersKept(j), Published(j)
  PROVE  PerformedSucceeded' /\ RestoresBase'
<1>1. PerformedSucceeded'
  <2> SUFFICES ASSUME NEW i \in performed' PROVE job'[i].status = "succeeded"
    BY DEF PerformedSucceeded
  <2>1. CASE i \in performed
    <3>1. i \in Job /\ job[i].status = "succeeded"
      BY <2>1 DEF Inv, PerformedSucceeded, TypeOK, WorkTypeOK
    <3> QED BY <3>1, SucceededStays
  <2> QED BY <2>1 DEF Published
<1>2. RestoresBase'
  <2> SUFFICES ASSUME NEW w \in Worker, worker'[w].job # NoJob,
                      job'[worker'[w].job].kind = "restore"
               PROVE  worker'[w].targetRev = job'[worker'[w].job].base
    BY DEF RestoresBase
  <2>1. \A i \in Job : job[i].status # "absent" =>
          job'[i].kind = job[i].kind /\ job'[i].base = job[i].base
    BY CoreFacts DEF Inv
  <2>2. CASE worker'[w] = worker[w]
    <3>1. worker[w].job \in Job /\ job[worker[w].job].status # "absent"
      BY <2>2 DEF Inv, WorkInv, TypeOK, WorkTypeOK, Local
    <3> QED BY <2>1, <2>2, <3>1 DEF Inv, RestoresBase
  <2>3. CASE worker'[w] = Idle BY <2>3 DEF Idle
  <2>4. CASE /\ worker'[w].job = j /\ job[j].status # "absent"
             /\ job[j].kind = "restore" => worker'[w].targetRev = job[j].base
    BY <2>1, <2>4
  <2> QED BY <2>2, <2>3, <2>4 DEF HandlersKept
<1> QED BY <1>1, <1>2

\* While the Resume is left alone, each restore stands where it was asked for.
LEMMA EditsKept ==
  ASSUME Inv, NEW j \in Job, Core(j), Published(j), UNCHANGED resume
  PROVE  RestoreKeepsEdits'
<1> SUFFICES ASSUME NEW n \in DOMAIN resume, resume[n] \in Job
             PROVE  n = job'[resume[n]].base + 1 /\ resume[n] \in performed'
  BY DEF RestoreKeepsEdits
<1>1. n = job[resume[n]].base + 1 /\ resume[n] \in performed
  BY DEF Inv, RestoreKeepsEdits
<1>2. job[resume[n]].status # "absent" BY <1>1 DEF Inv, PerformedSucceeded
<1>3. job'[resume[n]].base = job[resume[n]].base BY <1>2, CoreFacts DEF Inv
<1> QED BY <1>1, <1>3 DEF Published

\* Steps that leave the Resume and the upload alone.
LEMMA QuietClosing ==
  ASSUME Inv, NEW j \in Job, Core(j), HandlersKept(j), Published(j),
         UNCHANGED resume, UNCHANGED uVars,
         \/ job'[j].status \notin {"queued", "running", "succeeded"}
         \/ job[j].status \in {"queued", "running", "succeeded"}
         \/ job'[j] = job[j] \/ job'[j].kind # "import"
  PROVE  Inv'
<1>1. TypeOK' BY DEF Inv, TypeOK, UploadTypeOK, uVars, Core
<1>2. WorkInv' BY CoreStep DEF Inv
<1>3. PerformedSucceeded' /\ RestoresBase' BY HandlersClosing
<1>4. Imports'
  <2> SUFFICES ASSUME NEW i \in Job, job'[i].kind = "import",
                      job'[i].status \in {"queued", "running", "succeeded"}
               PROVE  upload.status = "completed" /\ upload.by = i
    BY DEF Imports, uVars
  <2>1. CASE job'[i] = job[i] BY <2>1 DEF Inv, Imports
  <2>2. CASE job'[i] # job[i]
    <3>1. i = j BY <2>2, CoreFacts DEF Inv
    <3>2. job[j].status \in {"queued", "running", "succeeded"} BY <2>2, <3>1
    <3>3. job[j].kind = "import" BY <3>1, <3>2, CoreFacts DEF Inv
    <3> QED BY <3>1, <3>2, <3>3 DEF Inv, Imports
  <2> QED BY <2>1, <2>2
<1>5. RestoreKeepsEdits' BY EditsKept
<1> QED BY <1>1, <1>2, <1>3, <1>4, <1>5 DEF Inv

-----------------------------------------------------------------------------
\* The handlers' steps other than a completion, and the exhaustion hook.
LEMMA FailStep ==
  ASSUME Inv, NEW j \in Job, ~JobSettled(j), job[j].status # "absent",
         job' = [job EXCEPT ![j] = StartedAndClosed(j, "failed")]
  PROVE  /\ job' \in [Job -> JobRow] /\ Advances(j) /\ Kept(j)
         /\ job'[j].status = "failed" /\ job[j].status \in Live
<1>1. job \in [Job -> JobRow] /\ job[j] \in JobRow /\ job[j].rev \in Nat BY Typed DEF Inv
<1>2. /\ StartedAndClosed(j, "failed") \in JobRow
      /\ StartedAndClosed(j, "failed").status = "failed"
      /\ StartedAndClosed(j, "failed").kind = job[j].kind
      /\ StartedAndClosed(j, "failed").base = job[j].base
      /\ StartedAndClosed(j, "failed").rev > job[j].rev
  BY <1>1, ClosedFacts
<1>3. job[j].status \in Live BY <1>1 DEF JobRow, Status, JobSettled
<1>4. StartedAndClosed(j, "failed").rev \in Nat BY <1>2 DEF JobRow
<1>5. job'[j] = StartedAndClosed(j, "failed") /\ \A i \in Job \ {j} : job'[i] = job[i]
  BY <1>1
<1>6. job' \in [Job -> JobRow] BY <1>1, <1>2
<1> QED BY <1>1, <1>2, <1>3, <1>4, <1>5, <1>6 DEF Advances, Kept

LEMMA PrepareNothingStep ==
  ASSUME Inv, NEW j \in Job, PrepareNothing(j)
  PROVE  Core(j) /\ Inv'
<1>1. /\ WorkTyped /\ job \in [Job -> JobRow] /\ job[j] \in JobRow /\ job[j].rev \in Nat
      /\ delivery[j].open /\ job[j].status # "absent"
  BY Typed DEF Inv, WorkInv, PrepareNothing, Receives
<1>2. /\ delivery' \in [Job -> [open : BOOLEAN, attempt : Nat]]
      /\ \A i \in Job \ {j} : delivery'[i].open = delivery[i].open
  BY <1>1, AtOnceFacts DEF PrepareNothing
<1>3. UNCHANGED <<worker, performed, cancel, resume>> /\ UNCHANGED uVars
  BY DEF PrepareNothing, Only
<1>4. /\ job' \in [Job -> JobRow] /\ Advances(j) /\ Kept(j)
      /\ \/ job'[j].status = "failed" /\ job[j].status \in Live
         \/ job'[j] = job[j] /\ job[j].status \in Settled
  <2>1. CASE JobSettled(j)
    BY <1>1, <2>1 DEF PrepareNothing, JobSettled, Advances, Kept
  <2>2. CASE ~JobSettled(j)
    BY <1>1, <2>2, FailStep DEF PrepareNothing
  <2> QED BY <2>1, <2>2
<1>5. Core(j)
  <2>1. WorkTypeOK(JobRow)' BY <1>1, <1>2, <1>3, <1>4 DEF WorkTypeOK, WorkTyped
  <2>2. Delivers(j) BY <1>1, <1>2 DEF Delivers
  <2>4. Works(j) /\ Reads BY <1>3 DEF Works, Reads
  <2>3. Allowed(j, job[j].status, job'[j].status, delivery[j].open, delivery'[j].open)
    BY <1>1, <1>3, <1>4 DEF Allowed
  <2> QED BY <1>4, <2>1, <2>2, <2>3, <2>4 DEF Core
<1>6. HandlersKept(j) /\ Published(j) BY <1>3 DEF HandlersKept, Published
<1>7. \/ job'[j].status \notin {"queued", "running", "succeeded"}
      \/ job'[j] = job[j]
  BY <1>4
<1>8. Inv' BY <1>3, <1>5, <1>6, <1>7, QuietClosing
<1> QED BY <1>5, <1>8

LEMMA ExhaustStep ==
  ASSUME Inv, NEW j \in Job, Exhaust(j)
  PROVE  Core(j) /\ Inv'
<1>1. /\ WorkTyped /\ job \in [Job -> JobRow] /\ job[j] \in JobRow /\ job[j].rev \in Nat
      /\ delivery[j].open /\ job[j].status # "absent"
  BY Typed DEF Inv, WorkInv, Exhaust, Spent
<1>2. /\ delivery' \in [Job -> [open : BOOLEAN, attempt : Nat]] /\ ~delivery'[j].open
      /\ \A i \in Job \ {j} : delivery'[i].open = delivery[i].open
  BY <1>1, CloseFacts DEF Exhaust
<1>3. UNCHANGED <<worker, performed, cancel, resume>> /\ UNCHANGED uVars
  BY DEF Exhaust, Only
<1>4. /\ job' \in [Job -> JobRow] /\ Advances(j) /\ Kept(j)
      /\ \/ job'[j].status = "failed" /\ job[j].status \in Live
         \/ job'[j] = job[j] /\ job[j].status \in Settled
  <2>1. CASE JobSettled(j)
    BY <1>1, <2>1 DEF Exhaust, JobSettled, Advances, Kept
  <2>2. CASE ~JobSettled(j)
    BY <1>1, <2>2, FailStep DEF Exhaust
  <2> QED BY <2>1, <2>2
<1>5. Core(j)
  <2>1. WorkTypeOK(JobRow)' BY <1>1, <1>2, <1>3, <1>4 DEF WorkTypeOK, WorkTyped
  <2>2. Delivers(j) BY <1>1, <1>2 DEF Delivers
  <2>4. Works(j) /\ Reads BY <1>3 DEF Works, Reads
  <2>3. Allowed(j, job[j].status, job'[j].status, delivery[j].open, delivery'[j].open)
    BY <1>1, <1>2, <1>3, <1>4 DEF Allowed
  <2> QED BY <1>4, <2>1, <2>2, <2>3, <2>4 DEF Core
<1>6. HandlersKept(j) /\ Published(j) BY <1>3 DEF HandlersKept, Published
<1>7. \/ job'[j].status \notin {"queued", "running", "succeeded"}
      \/ job'[j] = job[j]
  BY <1>4
<1>8. Inv' BY <1>3, <1>5, <1>6, <1>7, QuietClosing
<1> QED BY <1>5, <1>8

\* A preparation: the row runs, at its revision or the next.
LEMMA StartFacts ==
  ASSUME TypeOK, NEW j \in Job, job[j].status \in Live, NEW n \in Nat, n >= job[j].rev,
         n = job[j].rev => job[j].status = "running",
         job' = [job EXCEPT ![j].status = "running", ![j].rev = n]
  PROVE  /\ job' \in [Job -> JobRow] /\ Advances(j) /\ Kept(j)
         /\ job'[j].status = "running" /\ job'[j].rev = n
<1>1. job \in [Job -> JobRow] BY Typed
<1>2. PICK st \in Status, k \in Kinds, r \in Nat, b \in Nat :
        job[j] = [status |-> st, kind |-> k, rev |-> r, base |-> b]
  BY <1>1 DEF JobRow
<1> DEFINE row == [status |-> "running", kind |-> k, rev |-> n, base |-> b]
<1>3. job' = [job EXCEPT ![j] = row]
  <2> DEFINE g == [job EXCEPT ![j].status = "running"]
  <2>1. [job[j] EXCEPT !.status = "running"] = [status |-> "running", kind |-> k, rev |-> r, base |-> b]
    BY <1>2
  <2>2. g = [job EXCEPT ![j] = [job[j] EXCEPT !.status = "running"]] OBVIOUS
  <2>3. /\ g[j] = [status |-> "running", kind |-> k, rev |-> r, base |-> b]
        /\ DOMAIN g = Job /\ g = [i \in Job |-> g[i]] /\ \A i \in Job \ {j} : g[i] = job[i]
    BY <1>1, <2>1, <2>2
  <2>4. job' = [g EXCEPT ![j].rev = n] OBVIOUS
  <2> HIDE DEF g
  <2>5. job' = [g EXCEPT ![j] = [g[j] EXCEPT !.rev = n]] BY <2>4
  <2>6. [g[j] EXCEPT !.rev = n] = row BY <2>3
  <2>7. job' = [i \in Job |-> IF i = j THEN row ELSE job[i]] BY <2>3, <2>5, <2>6
  <2> QED BY <1>1, <2>7
<1>4. row \in JobRow BY DEF JobRow, Status, Live
<1>5. job'[j] = row /\ \A i \in Job \ {j} : job'[i] = job[i] BY <1>1, <1>3
<1>6. job' \in [Job -> JobRow] BY <1>1, <1>3, <1>4
<1> QED BY <1>2, <1>5, <1>6 DEF Advances, Kept

LEMMA PrepareStep ==
  ASSUME Inv, NEW w \in Worker, NEW j \in Job, Prepare(w, j)
  PROVE  Core(j) /\ Inv'
<1> DEFINE rev == IF job[j].status = "queued" THEN job[j].rev + 1 ELSE job[j].rev
<1>1. /\ WorkTyped /\ job \in [Job -> JobRow] /\ job[j] \in JobRow /\ job[j].rev \in Nat
      /\ delivery[j].open /\ job[j].status # "absent" /\ Len(resume) \in Nat
  BY Typed DEF Inv, WorkInv, Prepare, Receives
<1>2. job[j].status \in Live BY <1>1 DEF Prepare, JobSettled, JobRow, Status
<1>3. rev \in Nat /\ rev >= job[j].rev /\ (rev = job[j].rev => job[j].status = "running")
  BY <1>1, <1>2 DEF Live
<1>4. /\ job' = [job EXCEPT ![j].status = "running", ![j].rev = rev]
      /\ Take(w, j, rev, Len(resume))
      /\ UNCHANGED <<performed, cancel, resume>> /\ UNCHANGED uVars /\ Usable(j)
  BY DEF Prepare, Only
<1> HIDE DEF rev
<1>5. /\ job' \in [Job -> JobRow] /\ Advances(j) /\ Kept(j)
      /\ job'[j].status = "running" /\ job'[j].rev = rev
  BY <1>2, <1>3, <1>4, StartFacts DEF Inv
<1>6. /\ worker' \in [Worker -> Local]
      /\ worker'[w].job = j /\ worker'[w].targetRev = Len(resume)
      /\ \A v \in Worker \ {w} : worker'[v] = worker[v]
      /\ delivery' \in [Job -> [open : BOOLEAN, attempt : Nat]]
      /\ \A i \in Job : delivery'[i].open = delivery[i].open
  BY <1>1, <1>3, <1>4, TakeFacts
<1>7. Core(j)
  <2>1. WorkTypeOK(JobRow)' BY <1>1, <1>4, <1>5, <1>6 DEF WorkTypeOK, WorkTyped
  <2>2. Delivers(j) BY <1>1, <1>6 DEF Delivers
  <2>3. Works(j) BY <1>5, <1>6 DEF Works
  <2>4. Reads BY <1>4 DEF Reads
  <2>5. Allowed(j, job[j].status, job'[j].status, delivery[j].open, delivery'[j].open)
    BY <1>2, <1>4, <1>5, <1>6 DEF Allowed, Live
  <2> QED BY <1>5, <2>1, <2>2, <2>3, <2>4, <2>5 DEF Core
<1>8. HandlersKept(j)
  <2>1. job[j].kind = "restore" => Len(resume) = job[j].base BY <1>4 DEF Usable
  <2> QED BY <1>1, <1>6, <2>1 DEF HandlersKept
<1>9. Published(j) BY <1>4 DEF Published
<1>10. job[j].status \in {"queued", "running", "succeeded"} BY <1>2 DEF Live
<1>11. Inv' BY <1>4, <1>7, <1>8, <1>9, <1>10, QuietClosing
<1> QED BY <1>7, <1>11

\* A handler that ends without a result.
LEMMA EndStep ==
  ASSUME Inv, NEW w \in Worker, worker[w].job # NoJob, NEW settle \in BOOLEAN,
         Release(w, settle), UNCHANGED <<performed, cancel, resume>>, UNCHANGED uVars,
         \/ job' = [job EXCEPT ![worker[w].job] = StartedAndClosed(worker[w].job, "failed")]
            /\ ~JobSettled(worker[w].job)
         \/ job' = job /\ (settle => JobSettled(worker[w].job))
  PROVE  \E j \in Job : Core(j) /\ Inv'
<1> DEFINE j == worker[w].job
<1>1. /\ WorkTyped /\ job \in [Job -> JobRow] /\ \A i \in Job : job[i].rev \in Nat
      /\ job[j].status # "absent"
  BY Typed DEF Inv, WorkInv
<1>2. /\ j \in Job /\ worker' \in [Worker -> Local]
      /\ worker'[w] = Idle /\ \A v \in Worker \ {w} : worker'[v] = worker[v]
      /\ delivery' \in [Job -> [open : BOOLEAN, attempt : Nat]]
      /\ \A i \in Job \ {j} : delivery'[i].open = delivery[i].open
      /\ delivery'[j].open => delivery[j].open
      /\ ~settle => delivery'[j].open = delivery[j].open
  BY <1>1, ReleaseFacts
<1> HIDE DEF j
<1>3. /\ job' \in [Job -> JobRow] /\ Advances(j) /\ Kept(j)
      /\ \/ job'[j].status = "failed" /\ job[j].status \in Live
         \/ job'[j] = job[j] /\ (settle => job[j].status \in Settled)
  <2>1. CASE job' = [job EXCEPT ![j] = StartedAndClosed(j, "failed")] /\ ~JobSettled(j)
    BY <1>1, <1>2, <2>1, FailStep DEF j
  <2>2. CASE job' = job /\ (settle => JobSettled(j))
    BY <1>1, <1>2, <2>2 DEF JobSettled, Advances, Kept
  <2> QED BY <2>1, <2>2 DEF j
<1>4. Core(j)
  <2>1. WorkTypeOK(JobRow)' BY <1>1, <1>2, <1>3 DEF WorkTypeOK, WorkTyped
  <2>2. Delivers(j) BY <1>2 DEF Delivers
  <2>3. Works(j) BY <1>2 DEF Works, Idle
  <2>4. Reads BY DEF Reads
  <2>5. Allowed(j, job[j].status, job'[j].status, delivery[j].open, delivery'[j].open)
    BY <1>2, <1>3 DEF Allowed
  <2> QED BY <1>3, <2>1, <2>2, <2>3, <2>4, <2>5 DEF Core
<1>5. HandlersKept(j) /\ Published(j) BY <1>2 DEF HandlersKept, Published
<1>6. \/ job'[j].status \notin {"queued", "running", "succeeded"}
      \/ job'[j] = job[j]
  BY <1>3
<1>7. Inv' BY <1>2, <1>4, <1>5, <1>6, QuietClosing
<1> QED BY <1>2, <1>4, <1>7

\* A completion publishes its result and closes its Job in one transaction.
LEMMA CompleteStep ==
  ASSUME Inv, NEW w \in Worker, Complete(w)
  PROVE  \E j \in Job : Core(j) /\ Inv'
<1> DEFINE j == worker[w].job
<1>1. /\ WorkTyped /\ job \in [Job -> JobRow] /\ \A i \in Job : job[i].rev \in Nat
      /\ j # NoJob /\ job[j].status = "running" /\ Release(w, TRUE)
      /\ job' = [job EXCEPT ![j] = Closed(j, "succeeded")]
      /\ performed' = performed \cup {j} /\ UNCHANGED cancel /\ UNCHANGED uVars
  BY Typed DEF Inv, Complete, HoldsJob
<1>2. /\ j \in Job /\ worker' \in [Worker -> Local]
      /\ worker'[w] = Idle /\ \A v \in Worker \ {w} : worker'[v] = worker[v]
      /\ delivery' \in [Job -> [open : BOOLEAN, attempt : Nat]]
      /\ \A i \in Job \ {j} : delivery'[i].open = delivery[i].open
      /\ delivery'[j].open => delivery[j].open
  BY <1>1, ReleaseFacts
<1>3. \/ UNCHANGED resume /\ job[j].kind # "restore"
      \/ /\ job[j].kind = "restore" /\ worker[w].targetRev = Len(resume)
         /\ resume' = Append(resume, j)
  BY DEF Complete, Saves
<1>4. job[j].kind = "restore" => worker[w].targetRev = job[j].base
  BY <1>1 DEF Inv, RestoresBase
<1> HIDE DEF j
<1>5. /\ Closed(j, "succeeded") \in JobRow /\ Closed(j, "succeeded").status = "succeeded"
      /\ Closed(j, "succeeded").kind = job[j].kind
      /\ Closed(j, "succeeded").base = job[j].base
      /\ Closed(j, "succeeded").rev > job[j].rev
  BY <1>1, <1>2, ClosedFacts
<1>6. /\ job' \in [Job -> JobRow] /\ Advances(j) /\ Kept(j)
      /\ job'[j].status = "succeeded"
  <2>1. Closed(j, "succeeded").rev \in Nat BY <1>5 DEF JobRow
  <2>2. job'[j] = Closed(j, "succeeded") /\ \A i \in Job \ {j} : job'[i] = job[i]
    BY <1>1, <1>2
  <2>3. job' \in [Job -> JobRow] BY <1>1, <1>5
  <2> QED BY <1>1, <1>2, <1>5, <2>1, <2>2, <2>3 DEF Advances, Kept
<1>7. Core(j)
  <2>1. WorkTypeOK(JobRow)' BY <1>1, <1>2, <1>6 DEF WorkTypeOK, WorkTyped
  <2>2. Delivers(j) BY <1>2 DEF Delivers
  <2>3. Works(j) BY <1>2 DEF Works, Idle
  <2>4. Reads BY <1>1 DEF Reads
  <2>5. Allowed(j, job[j].status, job'[j].status, delivery[j].open, delivery'[j].open)
    BY <1>1, <1>2, <1>6 DEF Allowed, Live
  <2> QED BY <1>6, <2>1, <2>2, <2>3, <2>4, <2>5 DEF Core
<1>8. HandlersKept(j) BY <1>2 DEF HandlersKept
<1>9. Published(j) BY <1>1, <1>6 DEF Published
<1>10. CASE UNCHANGED resume
  <2>1. Inv' BY <1>1, <1>2, <1>7, <1>8, <1>9, <1>10, QuietClosing
  <2> QED BY <1>2, <1>7, <2>1
<1>11. CASE job[j].kind = "restore" /\ job[j].base = Len(resume) /\ resume' = Append(resume, j)
  <2>1. WorkInv' BY <1>2, <1>7, CoreStep DEF Inv
  <2>2. PerformedSucceeded' /\ RestoresBase' BY <1>2, <1>7, <1>8, <1>9, HandlersClosing
  <2>3. resume \in Seq(Job \cup {"edit"}) BY DEF Inv, TypeOK
  <2>4. TypeOK'
    <3>1. resume' \in Seq(Job \cup {"edit"}) BY <1>2, <1>11, <2>3
    <3>2. UploadTypeOK' BY <1>1 DEF Inv, TypeOK, UploadTypeOK, uVars
    <3> QED BY <1>7, <3>1, <3>2 DEF TypeOK, Core
  <2>5. Imports'
    <3> SUFFICES ASSUME NEW i \in Job, job'[i].kind = "import",
                        job'[i].status \in {"queued", "running", "succeeded"}
                 PROVE  upload.status = "completed" /\ upload.by = i
      BY <1>1 DEF Imports, uVars
    <3>1. job'[i] = job[i] BY <1>2, <1>1, <1>7, <1>11, CoreFacts DEF Inv
    <3> QED BY <3>1 DEF Inv, Imports
  <2>6. RestoreKeepsEdits'
    <3> SUFFICES ASSUME NEW n \in DOMAIN resume', resume'[n] \in Job
                 PROVE  n = job'[resume'[n]].base + 1 /\ resume'[n] \in performed'
      BY DEF RestoreKeepsEdits
    <3>1. job'[j].base = job[j].base BY <1>1, <1>2, <1>7, CoreFacts DEF Inv
    <3>2. CASE n = Len(resume) + 1
      <4>1. resume'[n] = j BY <1>11, <2>3, <3>2
      <4> QED BY <1>1, <1>11, <3>1, <3>2, <4>1
    <3>3. CASE n \in DOMAIN resume /\ resume'[n] = resume[n]
      <4>1. n = job[resume[n]].base + 1 /\ resume[n] \in performed
        BY <3>3 DEF Inv, RestoreKeepsEdits
      <4>2. job[resume[n]].status # "absent" /\ resume[n] \in Job
        BY <3>3, <4>1 DEF Inv, PerformedSucceeded
      <4>3. job'[resume[n]].base = job[resume[n]].base BY <1>2, <1>7, <4>2, CoreFacts DEF Inv
      <4> QED BY <1>1, <3>3, <4>1, <4>3
    <3>4. \/ n = Len(resume) + 1
          \/ n \in DOMAIN resume /\ resume'[n] = resume[n]
      BY <1>11, <2>3
    <3> QED BY <3>2, <3>3, <3>4
  <2>7. Inv' BY <2>1, <2>2, <2>4, <2>5, <2>6 DEF Inv
  <2> QED BY <1>2, <1>7, <2>7
<1>12. \/ UNCHANGED resume
       \/ job[j].kind = "restore" /\ job[j].base = Len(resume) /\ resume' = Append(resume, j)
  BY <1>3, <1>4 DEF j
<1> QED BY <1>10, <1>11, <1>12

-----------------------------------------------------------------------------
(* Requests.                                                               *)

\* A new row is queued.
LEMMA QueuedFacts ==
  ASSUME TypeOK, NEW j \in Job, NEW kind \in Kinds, AddJob(j, Queued(kind)),
         job[j].status = "absent"
  PROVE  Core(j) /\ job'[j].kind = kind /\ UNCHANGED <<worker, performed>>
<1>1. WorkTyped /\ job \in [Job -> JobRow] /\ Len(resume) \in Nat /\ performed \subseteq Job
  BY Typed DEF WorkTyped
<1>2. /\ job' = [job EXCEPT ![j] = Queued(kind)]
      /\ UNCHANGED <<worker, performed, cancel>>
      /\ delivery' \in [Job -> [open : BOOLEAN, attempt : Nat]]
      /\ delivery'[j].open
      /\ \A i \in Job \ {j} : delivery'[i].open = delivery[i].open
  BY <1>1, AddFacts
<1>3. /\ Queued(kind) \in JobRow /\ Queued(kind).status = "queued" /\ Queued(kind).kind = kind
      /\ Queued(kind).rev = 1
  BY <1>1 DEF Queued, JobRow, Status, Live
<1> HIDE DEF Queued
<1>4. job' \in [Job -> JobRow] BY <1>1, <1>2, <1>3
<1>5. job'[j] = Queued(kind) /\ \A i \in Job \ {j} : job'[i] = job[i] BY <1>1, <1>2
<1>6. Advances(j) /\ Kept(j) BY <1>3, <1>5 DEF Advances, Kept
<1>7. WorkTypeOK(JobRow)' BY <1>1, <1>2, <1>4 DEF WorkTypeOK, WorkTyped
<1>8. Delivers(j) BY <1>2, <1>3, <1>5 DEF Delivers
<1>9. Works(j) /\ Reads BY <1>2 DEF Works, Reads
<1>10. Allowed(j, job[j].status, job'[j].status, delivery[j].open, delivery'[j].open)
  BY <1>2, <1>3, <1>5 DEF Allowed
<1> QED BY <1>2, <1>3, <1>5, <1>6, <1>7, <1>8, <1>9, <1>10 DEF Core

LEMMA ImportStep ==
  ASSUME Inv, NEW j \in Job, CreateImportJob(j)
  PROVE  Core(j) /\ Inv'
<1>1. /\ "import" \in Kinds /\ ClaimContent(j) /\ AddJob(j, Queued("import"))
      /\ UNCHANGED resume /\ job[j].status = "absent" /\ j \in Consumer
  BY ConsumerAssumption DEF CreateImportJob, AddJob
<1>2. Core(j) /\ UNCHANGED <<worker, performed>> BY <1>1, QueuedFacts DEF Inv
<1>3. /\ UploadTypeOK' /\ upload'.by = j /\ upload'.status = "completed"
      /\ upload.by = NoConsumer
  BY <1>1, ContentSteps DEF Inv, TypeOK
<1>4. HandlersKept(j) /\ Published(j) BY <1>2 DEF HandlersKept, Published
<1>5. PerformedSucceeded' /\ RestoresBase' BY <1>2, <1>4, HandlersClosing
<1>6. TypeOK' BY <1>1, <1>2, <1>3 DEF Inv, TypeOK, Core
<1>7. WorkInv' BY <1>2, CoreStep DEF Inv
<1>8. Imports'
  <2> SUFFICES ASSUME NEW i \in Job, job'[i].kind = "import",
                      job'[i].status \in {"queued", "running", "succeeded"}
               PROVE  upload'.status = "completed" /\ upload'.by = i
    BY DEF Imports
  <2>1. CASE i # j
    <3>1. job'[i] = job[i] BY <1>2, <2>1, CoreFacts DEF Inv
    <3>2. upload.by = i BY <3>1 DEF Inv, Imports
    <3> QED BY <1>3, <3>2, NullAssumption, ConsumerAssumption
  <2> QED BY <1>3, <2>1
<1>9. RestoreKeepsEdits' BY <1>1, <1>2, <1>4, EditsKept
<1> QED BY <1>2, <1>5, <1>6, <1>7, <1>8, <1>9 DEF Inv

LEMMA ResumeJobStep ==
  ASSUME Inv, NEW j \in Job, NEW kind \in Kinds, CreateResumeJob(j, kind)
  PROVE  Core(j) /\ Inv'
<1>1. /\ kind # "import" /\ AddJob(j, Queued(kind)) /\ job[j].status = "absent"
      /\ UNCHANGED resume /\ UNCHANGED uVars
  BY DEF CreateResumeJob, AddJob
<1>2. Core(j) /\ job'[j].kind = kind /\ UNCHANGED <<worker, performed>>
  BY <1>1, QueuedFacts DEF Inv
<1>3. HandlersKept(j) /\ Published(j) BY <1>2 DEF HandlersKept, Published
<1>4. Inv' BY <1>1, <1>2, <1>3, QuietClosing
<1> QED BY <1>2, <1>4

LEMMA ReadStep ==
  ASSUME Inv, NEW j \in Job, ReadForCancel(j), UNCHANGED resume, UNCHANGED uVars
  PROVE  Core(j) /\ Inv'
<1>1. WorkTyped /\ job \in [Job -> JobRow] /\ job[j].rev \in Nat BY Typed DEF Inv
<1>2. cancel' \in Read /\ Reads /\ UNCHANGED <<job, delivery, worker, performed>>
  BY <1>1, ReadFacts
<1>3. Core(j)
  <2>1. WorkTypeOK(JobRow)' BY <1>1, <1>2 DEF WorkTypeOK, WorkTyped
  <2>2. Advances(j) /\ Kept(j) BY <1>1, <1>2 DEF Advances, Kept
  <2>3. Delivers(j) BY <1>2 DEF Delivers
  <2>4. Works(j) BY <1>2 DEF Works
  <2>5. Allowed(j, job[j].status, job'[j].status, delivery[j].open, delivery'[j].open)
    BY <1>2 DEF Allowed
  <2> QED BY <1>2, <2>1, <2>2, <2>3, <2>4, <2>5 DEF Core
<1>4. HandlersKept(j) /\ Published(j) BY <1>2 DEF HandlersKept, Published
<1>5. Inv' BY <1>2, <1>3, <1>4, QuietClosing
<1> QED BY <1>3, <1>5

\* The row a cancellation leaves.
LEMMA WithdrawnFacts ==
  ASSUME TypeOK, NEW j \in Job, job[j].status \in Live, job' = Withdrawn(j)
  PROVE  /\ job' \in [Job -> JobRow] /\ Advances(j) /\ Kept(j)
         /\ job'[j].status = "cancelled"
<1>1. job \in [Job -> JobRow] BY Typed
<1>2. PICK st \in Status, k \in Kinds, r \in Nat, b \in Nat :
        job[j] = [status |-> st, kind |-> k, rev |-> r, base |-> b]
  BY <1>1 DEF JobRow
<1> DEFINE row == [status |-> "cancelled", kind |-> k, rev |-> r + 1, base |-> b]
           g == [job EXCEPT ![j].status = "cancelled"]
<1>3. [job[j] EXCEPT !.status = "cancelled"]
        = [status |-> "cancelled", kind |-> k, rev |-> r, base |-> b]
  BY <1>2
<1>4. g = [job EXCEPT ![j] = [job[j] EXCEPT !.status = "cancelled"]] OBVIOUS
<1>5. /\ g[j] = [status |-> "cancelled", kind |-> k, rev |-> r, base |-> b]
      /\ DOMAIN g = Job /\ \A i \in Job \ {j} : g[i] = job[i]
  BY <1>1, <1>3, <1>4
<1>6. job' = [g EXCEPT ![j].rev = @ + 1] BY DEF Withdrawn
<1> HIDE DEF g
<1>7. job' = [g EXCEPT ![j] = [g[j] EXCEPT !.rev = g[j].rev + 1]] BY <1>6
<1>8. [g[j] EXCEPT !.rev = g[j].rev + 1] = row BY <1>5
<1>9. job' = [i \in Job |-> IF i = j THEN row ELSE job[i]] BY <1>5, <1>7, <1>8
<1>10. row \in JobRow BY DEF JobRow, Status, Settled
<1>11. job'[j] = row /\ \A i \in Job \ {j} : job'[i] = job[i] BY <1>9
<1>12. job' \in [Job -> JobRow] BY <1>1, <1>9, <1>10
<1> QED BY <1>2, <1>11, <1>12 DEF Advances, Kept

LEMMA CancelStep ==
  ASSUME Inv, Cancel
  PROVE  \E j \in Job : Core(j) /\ Inv'
<1> DEFINE j == cancel.job
           releases == job[j].kind = "import"
<1>1. /\ WorkTyped /\ job \in [Job -> JobRow] /\ \A i \in Job : job[i].rev \in Nat
      /\ j # NoJob /\ cancel' = NoRead
      /\ UNCHANGED <<resume, delivery, worker, performed>> /\ NoRead \in Read
  BY Typed DEF Inv, Cancel, NoRead, Read
<1>2. j \in Job BY <1>1 DEF WorkTyped, Read
<1>3. \/ UNCHANGED job /\ UNCHANGED uVars
      \/ /\ Swaps(j) /\ job' = Withdrawn(j)
         /\ \/ releases /\ upload.by = j /\ ReleaseContent
            \/ ~releases /\ UNCHANGED uVars
  BY DEF Cancel
<1>4. Swaps(j) => job[j].status \in Live BY <1>1, SwapIsLive DEF Inv
<1> HIDE DEF j
<1>5. ASSUME /\ job' \in [Job -> JobRow] /\ Advances(j) /\ Kept(j)
             /\ \/ job'[j].status = "cancelled" /\ job[j].status \in Live
                \/ job'[j] = job[j]
      PROVE  Core(j)
  <2>1. WorkTypeOK(JobRow)' BY <1>1, <1>5 DEF WorkTypeOK, WorkTyped
  <2>2. Delivers(j) BY <1>1 DEF Delivers
  <2>3. Works(j) /\ Reads BY <1>1 DEF Works, Reads
  <2>4. job[j].status \in Live => j \notin performed
    BY DEF Inv, PerformedSucceeded, Live
  <2>5. Allowed(j, job[j].status, job'[j].status, delivery[j].open, delivery'[j].open)
    BY <1>1, <1>5, <2>4 DEF Allowed
  <2> QED BY <1>5, <2>1, <2>2, <2>3, <2>5 DEF Core
<1>6. HandlersKept(j) /\ Published(j) BY <1>1 DEF HandlersKept, Published
<1>7. CASE UNCHANGED job /\ UNCHANGED uVars
  <2>1. Advances(j) /\ Kept(j) BY <1>1, <1>2, <1>7 DEF Advances, Kept
  <2>2. Core(j) BY <1>1, <1>5, <1>7, <2>1
  <2>3. Inv' BY <1>1, <1>2, <1>6, <1>7, <2>2, QuietClosing
  <2> QED BY <1>2, <2>2, <2>3
<1>8. CASE Swaps(j) /\ job' = Withdrawn(j)
  <2>1. job[j].status \in Live BY <1>4, <1>8
  <2>2. /\ job' \in [Job -> JobRow] /\ Advances(j) /\ Kept(j)
        /\ job'[j].status = "cancelled"
    BY <1>2, <1>8, <2>1, WithdrawnFacts DEF Inv
  <2>3. Core(j) BY <1>5, <2>1, <2>2
  <2>4. CASE UNCHANGED uVars
    <3>1. Inv' BY <1>1, <1>2, <1>6, <2>2, <2>3, <2>4, QuietClosing
    <3> QED BY <1>2, <2>3, <3>1
  <2>5. CASE releases /\ upload.by = j /\ ReleaseContent
    <3>1. UploadTypeOK' BY <2>5, ContentSteps DEF Inv, TypeOK
    <3>2. TypeOK' BY <1>1, <2>3, <3>1 DEF Inv, TypeOK, Core
    <3>3. WorkInv' BY <1>2, <2>3, CoreStep DEF Inv
    <3>4. PerformedSucceeded' /\ RestoresBase' BY <1>2, <1>6, <2>3, HandlersClosing
    <3>5. Imports'
      <4> SUFFICES ASSUME NEW i \in Job, job'[i].kind = "import",
                          job'[i].status \in {"queued", "running", "succeeded"}
                   PROVE  FALSE
        BY DEF Imports
      <4>1. i # j BY <2>2
      <4>2. job'[i] = job[i] BY <1>2, <2>3, <4>1, CoreFacts DEF Inv
      <4> QED BY <2>5, <4>1, <4>2 DEF Inv, Imports
    <3>6. RestoreKeepsEdits' BY <1>1, <1>2, <1>6, <2>3, EditsKept
    <3>7. Inv' BY <3>2, <3>3, <3>4, <3>5, <3>6 DEF Inv
    <3> QED BY <1>2, <2>3, <3>7
  <2> QED BY <1>3, <1>7, <1>8, <2>4, <2>5
<1> QED BY <1>3, <1>7, <1>8

-----------------------------------------------------------------------------
\* The Resume is edited, Knowledge takes the content, or the upload moves: the
\* Jobs are left alone.
LEMMA OutsideStep ==
  ASSUME Inv, UNCHANGED jobVars,
         \/ EditResume
         \/ ConsumeByKnowledge
         \/ UploadNext /\ UNCHANGED resume
         \/ UNCHANGED vars
  PROVE  Inv' /\ UNCHANGED <<Statuses, performed, Events>>
<1>1. UNCHANGED <<job, delivery, worker, performed, cancel>> BY DEF jobVars
<1>2. /\ WorkTypeOK(JobRow)' /\ WorkInv' /\ PerformedSucceeded' /\ RestoresBase'
  BY <1>1 DEF Inv, TypeOK, WorkTypeOK, WorkInv, PerformedSucceeded, RestoresBase
<1>3. CASE EditResume
  <2>1. resume \in Seq(Job \cup {"edit"}) /\ resume' = Append(resume, "edit") /\ UNCHANGED uVars
    BY <1>3 DEF EditResume, Inv, TypeOK
  <2>2. TypeOK'
    <3>1. resume' \in Seq(Job \cup {"edit"}) BY <2>1
    <3>2. UploadTypeOK' BY <2>1 DEF Inv, TypeOK, UploadTypeOK, uVars
    <3> QED BY <1>2, <3>1, <3>2 DEF TypeOK
  <2>3. Imports' BY <1>1, <2>1 DEF Inv, Imports, uVars
  <2>4. RestoreKeepsEdits'
    <3> SUFFICES ASSUME NEW n \in DOMAIN resume', resume'[n] \in Job
                 PROVE  n = job[resume'[n]].base + 1 /\ resume'[n] \in performed
      BY <1>1 DEF RestoreKeepsEdits
    <3>1. n \in DOMAIN resume /\ resume'[n] = resume[n] BY <2>1, EditAssumption
    <3> QED BY <3>1 DEF Inv, RestoreKeepsEdits
  <2> QED BY <1>1, <1>2, <2>2, <2>3, <2>4 DEF Inv, Statuses, Events
<1>4. CASE ConsumeByKnowledge
  <2>1. Knowledge \in Consumer /\ \A i \in Job : i \in Consumer BY ConsumerAssumption
  <2>2. UploadTypeOK' /\ upload.by = NoConsumer /\ UNCHANGED resume
    BY <1>4, <2>1, ContentSteps DEF ConsumeByKnowledge, Inv, TypeOK
  <2>3. Imports'
    <3>1. \A i \in Job : upload.by # i BY <2>1, <2>2, NullAssumption
    <3> QED BY <1>1, <3>1 DEF Inv, Imports
  <2>4. TypeOK' /\ RestoreKeepsEdits'
    BY <1>1, <1>2, <2>2 DEF Inv, TypeOK, RestoreKeepsEdits
  <2> QED BY <1>1, <1>2, <2>3, <2>4 DEF Inv, Statuses, Events
<1>5. CASE UploadNext /\ UNCHANGED resume
  <2>1. /\ UploadTypeOK' /\ upload'.by = upload.by
        /\ upload.status = "completed" => upload'.status = "completed"
    BY <1>5, UploadSteps DEF Inv, TypeOK
  <2>2. Imports' BY <1>1, <2>1 DEF Inv, Imports
  <2>3. TypeOK' /\ RestoreKeepsEdits'
    BY <1>1, <1>2, <1>5, <2>1 DEF Inv, TypeOK, RestoreKeepsEdits
  <2> QED BY <1>1, <1>2, <2>2, <2>3 DEF Inv, Statuses, Events
<1>6. CASE UNCHANGED vars
  <2>1. UNCHANGED resume /\ UNCHANGED uVars BY <1>6 DEF vars, uVars
  <2>2. Imports' BY <1>1, <2>1 DEF Inv, Imports, uVars
  <2>3. TypeOK' /\ RestoreKeepsEdits'
    BY <1>1, <1>2, <2>1 DEF Inv, TypeOK, UploadTypeOK, uVars, RestoreKeepsEdits
  <2> QED BY <1>1, <1>2, <2>2, <2>3 DEF Inv, Statuses, Events
<1> QED BY <1>3, <1>4, <1>5, <1>6

\* Every step keeps the invariant and is a step of UnifiedJob or none.
LEMMA Step ==
  ASSUME Inv, [Next]_vars
  PROVE  Inv' /\ [Unified!JNext]_<<Statuses, performed, Events>>
<1>1. ASSUME NEW j \in Job, Core(j), Inv'
      PROVE  Inv' /\ [Unified!JNext]_<<Statuses, performed, Events>>
  BY <1>1, CoreStep DEF Inv
<1>2. CASE \/ EditResume
           \/ ConsumeByKnowledge
           \/ UploadNext /\ UNCHANGED resume /\ UNCHANGED jobVars
           \/ UNCHANGED vars
  <2>1. UNCHANGED jobVars
    BY <1>2 DEF EditResume, ConsumeByKnowledge, jobVars, vars
  <2> QED BY <1>2, <2>1, OutsideStep
<1>3. CASE Cancel BY <1>1, <1>3, CancelStep
<1>4. ASSUME NEW j \in Job, Requests(j) \/ Receive(j) \/ Exhaust(j)
      PROVE  Core(j) /\ Inv'
  <2>1. CASE CreateImportJob(j) BY <2>1, ImportStep
  <2>2. CASE \E kind \in Kinds : CreateResumeJob(j, kind) BY <2>2, ResumeJobStep
  <2>3. CASE ReadForCancel(j) /\ UNCHANGED resume /\ UNCHANGED uVars BY <2>3, ReadStep
  <2>4. CASE PrepareNothing(j) BY <2>4, PrepareNothingStep
  <2>5. CASE \E w \in Worker : Prepare(w, j) BY <2>5, PrepareStep
  <2>6. CASE Exhaust(j) BY <2>6, ExhaustStep
  <2> QED BY <1>4, <2>1, <2>2, <2>3, <2>4, <2>5, <2>6 DEF Requests, Receive
<1>5. ASSUME NEW w \in Worker, Ends(w)
      PROVE  \E j \in Job : Core(j) /\ Inv'
  <2>1. CASE Complete(w) BY <2>1, CompleteStep
  <2>2. CASE ReturnLate(w)
    <3>1. /\ worker[w].job # NoJob /\ JobSettled(worker[w].job) /\ Release(w, TRUE)
          /\ UNCHANGED <<performed, cancel, resume>> /\ UNCHANGED uVars /\ job' = job
      BY <2>2 DEF ReturnLate, Only
    <3> QED BY <3>1, EndStep
  <2>3. CASE Fail(w)
    <3>1. /\ worker[w].job # NoJob /\ ~JobSettled(worker[w].job) /\ Release(w, TRUE)
          /\ UNCHANGED <<performed, cancel, resume>> /\ UNCHANGED uVars
          /\ job' = [job EXCEPT ![worker[w].job] = StartedAndClosed(worker[w].job, "failed")]
      BY <2>3 DEF Fail, Only
    <3> QED BY <3>1, EndStep
  <2>4. CASE Raise(w)
    <3>1. /\ worker[w].job # NoJob /\ Release(w, FALSE)
          /\ UNCHANGED <<performed, cancel, resume>> /\ UNCHANGED uVars /\ job' = job
      BY <2>4 DEF Raise, Only
    <3> QED BY <3>1, EndStep
  <2> QED BY <1>5, <2>1, <2>2, <2>3, <2>4 DEF Ends
<1> QED BY <1>1, <1>2, <1>3, <1>4, <1>5 DEF Next

-----------------------------------------------------------------------------
(* THEOREMS                                                                *)

\* Every reachable state satisfies the inductive invariant, whatever handlers are
\* lost, delayed or started again.
THEOREM Inductive == Spec => []Inv
<1>1. Init => Inv BY InitInv
<1>2. Inv /\ [Next]_vars => Inv' BY Step
<1> QED BY <1>1, <1>2, PTL DEF Spec

\* The variables keep their types.
THEOREM TypeCorrect == Spec => []TypeOK
<1>1. Inv => TypeOK BY DEF Inv
<1> QED BY <1>1, Inductive, PTL

\* No content of an upload is published twice, cancellations that give it back
\* (_cancel_resume_import) included.
THEOREM ContentConsumedOnce == Spec => []ConsumedOnce
<1>1. Inv => ConsumedOnce
  <2> SUFFICES ASSUME Inv, NEW j \in performed, job[j].kind = "import"
               PROVE  upload.status = "completed" /\ upload.by = j
    BY DEF ConsumedOnce
  <2>1. j \in Job /\ job[j].status = "succeeded"
    BY DEF Inv, TypeOK, WorkTypeOK, PerformedSucceeded
  <2> QED BY <2>1 DEF Inv, Imports
<1> QED BY <1>1, Inductive, PTL

\* A restore never overwrites an edit made since it was requested, and is applied
\* once, however often its event is delivered.
THEOREM EditsSurviveRestore == Spec => []RestoreKeepsEdits
<1>1. Inv => RestoreKeepsEdits BY DEF Inv
<1> QED BY <1>1, Inductive, PTL

\* The verdict on an uploaded object is not changed by a late completion request.
THEOREM VerdictStays == Spec => VerdictIsFinal
<1>1. Inv /\ [Next]_vars => [VerdictStep]_uVars
  <2> SUFFICES ASSUME Inv, [Next]_vars PROVE [VerdictStep]_uVars OBVIOUS
  <2>1. UploadTypeOK BY DEF Inv, TypeOK
  <2>2. CASE UploadNext BY <2>1, <2>2, UploadSteps DEF VerdictStep
  <2>3. ASSUME NEW c \in Consumer, ClaimContent(c) PROVE VerdictStep
    BY <2>1, <2>3, ContentSteps DEF VerdictStep
  <2>4. CASE ReleaseContent BY <2>1, <2>4, ContentSteps DEF VerdictStep
  <2>5. CASE UNCHANGED uVars BY <2>5
  <2>6. ASSUME NEW j \in Job, Requests(j)
        PROVE  UNCHANGED uVars \/ \E c \in Consumer : ClaimContent(c)
    BY <2>6, ConsumerAssumption DEF Requests, CreateImportJob, CreateResumeJob
  <2>7. ASSUME NEW j \in Job, Receive(j) \/ Exhaust(j) PROVE UNCHANGED uVars
    BY <2>7 DEF Receive, PrepareNothing, Prepare, Exhaust, Only
  <2>8. ASSUME NEW w \in Worker, Ends(w) PROVE UNCHANGED uVars
    BY <2>8 DEF Ends, Complete, ReturnLate, Fail, Raise, Only
  <2>9. CASE EditResume BY <2>5, <2>9 DEF EditResume
  <2>10. CASE ConsumeByKnowledge
    BY <2>3, <2>10, ConsumerAssumption DEF ConsumeByKnowledge
  <2>11. CASE Cancel BY <2>4, <2>5, <2>11 DEF Cancel
  <2>12. CASE UNCHANGED vars BY <2>5, <2>12 DEF vars, uVars
  <2> QED BY <2>2, <2>3, <2>5, <2>6, <2>7, <2>8, <2>9, <2>10, <2>11, <2>12 DEF Next
<1> QED BY <1>1, Inductive, PTL DEF Spec, VerdictIsFinal

\* The Jobs of the Resume domain keep what GET and DELETE /jobs/{id} promise.
THEOREM ResumeJobsImplement == Spec => Implements
<1>1. Init => Unified!JInit
  <2>1. NoRow.status = "absent" BY DEF NoRow
  <2>2. ASSUME Init PROVE Statuses = [j \in Job |-> "absent"] /\ performed = {} /\ Events = {}
    BY <2>1, <2>2 DEF Init, WorkInit, Statuses, Events
  <2> QED BY <2>2 DEF Unified!JInit, Statuses, Events
<1>2. Inv /\ [Next]_vars => [Unified!JNext]_<<Statuses, performed, Events>> BY Step
<1>3. Inv /\ [Next]_vars => [Unified!JNext]_(Unified!jVars)
  BY <1>2 DEF Unified!jVars, Statuses, Events
<1> QED BY <1>1, <1>3, Inductive, PTL DEF Spec, Implements, Unified!JSpec

-----------------------------------------------------------------------------
(***************************************************************************)
(* The operations of a Resume                                              *)
(***************************************************************************)

\* What the notation of sequences means for the history and the batches
\* that made it.
IsSeq(s) == Len(s) \in Nat /\ s = [k \in 1..Len(s) |-> s[k]]

\* No two operations of a batch share an id.
Unambiguous(ops) == \A o, p \in ToSet(ops) : o.id = p.id => o = p

\* Every revision has its batch of operations, the ledger is about revisions that
\* exist, and a Proposal about operations that can be told apart.
RevisionTyped ==
  /\ IsSeq(history) /\ IsSeq(made) /\ Len(made) = Revision /\ Revision # 0
  /\ ledger = [id \in OpId |-> ledger[id]]
  /\ \A id \in OpId : ledger[id].revision \in 0..Revision
  /\ DOMAIN proposal = {"status", "base", "operations", "accepted"}
  /\ proposal.base \in 0..Revision
  /\ Ids(proposal.operations) \subseteq OpId /\ Unambiguous(proposal.operations)

\* The inductive invariant: the two properties need each other's types, no more.
RevisionInv == RevisionTyped /\ AppliedOnce /\ ProposalIsExact

\* What Append does to any sequence.
LEMMA Appended ==
  ASSUME NEW s, IsSeq(s), NEW x
  PROVE  /\ IsSeq(Append(s, x)) /\ Len(Append(s, x)) = Len(s) + 1
         /\ Append(s, x)[Len(s) + 1] = x
         /\ \A k \in 1..Len(s) : Append(s, x)[k] = s[k]
<1> DEFINE S == {s[k] : k \in 1..Len(s)} \cup {x}
<1>1. s \in Seq(S) BY DEF IsSeq
<1> HIDE DEF S
<1>2. x \in S BY DEF S
<1>3. Append(s, x) \in Seq(S) BY <1>1, <1>2
<1>4. /\ Len(Append(s, x)) = Len(s) + 1 /\ Append(s, x)[Len(s) + 1] = x
      /\ \A k \in 1..Len(s) : Append(s, x)[k] = s[k]
  BY <1>1, <1>2
<1>5. ASSUME NEW t \in Seq(S) PROVE IsSeq(t) BY DEF IsSeq
<1> QED BY <1>3, <1>4, <1>5

\* The operations of a batch have ids of their own.
LEMMA BatchIds ==
  ASSUME NEW batches, NEW ops \in Operations(batches)
  PROVE  Ids(ops) \subseteq OpId /\ Unambiguous(ops)
<1>1. PICK edits \in batches :
        ops \in {[k \in DOMAIN edits |-> [id |-> ids[k], edit |-> edits[k]]] :
                  ids \in {f \in [DOMAIN edits -> OpId] : IsInjective(f)}}
  BY DEF Operations
<1>2. PICK ids \in {f \in [DOMAIN edits -> OpId] : IsInjective(f)} :
        ops = [k \in DOMAIN edits |-> [id |-> ids[k], edit |-> edits[k]]]
  BY <1>1
<1>3. \A k \in DOMAIN edits, l \in DOMAIN edits : ids[k] = ids[l] => k = l
  BY <1>2 DEF IsInjective
<1> QED BY <1>2, <1>3 DEF Ids, Unambiguous, ToSet

\* The edit an id stands for in a batch is that of the operation that has the id.
LEMMA EditOfOperation ==
  ASSUME NEW ops, Unambiguous(ops), NEW o \in ToSet(ops)
  PROVE  EditOf(ops, o.id) = o.edit
BY DEF EditOf, Unambiguous

\* A Resume begins with one revision, made of no operation.
LEMMA RevisionInitInv == RevisionInit => RevisionInv
<1> SUFFICES ASSUME RevisionInit PROVE RevisionInv OBVIOUS
<1>1. Len(history) = 1 /\ Len(made) = 1 /\ IsSeq(history) /\ IsSeq(made)
  BY DEF RevisionInit, IsSeq
<1>2. ToSet(proposal.operations) = {} /\ Ids(proposal.operations) = {}
  BY DEF RevisionInit, NoProposal, ToSet, Ids
<1>3. RevisionTyped
  BY <1>1, <1>2 DEF RevisionInit, RevisionTyped, Revision, NoEntry, NoProposal, Unambiguous
<1>4. AppliedOnce BY <1>1 DEF RevisionInit, AppliedOnce, Revision, NoEntry
<1>5. ProposalIsExact BY DEF RevisionInit, NoProposal, ProposalIsExact
<1> QED BY <1>3, <1>4, <1>5 DEF RevisionInv

\* A new revision leaves the earlier ones as they were.
LEMMA SavedRevision ==
  ASSUME RevisionTyped, NEW doc, NEW targets, NEW base, NEW edits, NEW ids,
         Save(doc, targets, base, edits, ids)
  PROVE  /\ IsSeq(history)' /\ IsSeq(made)' /\ Len(made)' = Revision' /\ Revision \in Nat
         /\ Revision' = Revision + 1
         /\ \A r \in 1..Revision : made'[r] = made[r]
         /\ made'[Revision + 1].ids = ids
<1> DEFINE h == [doc |-> doc, targets |-> targets]
           m == [base |-> base, edits |-> edits, ids |-> ids]
<1>1. history' = Append(history, h) /\ made' = Append(made, m) BY DEF Save
<1> HIDE DEF h
<1>2. m.ids = ids OBVIOUS
<1> HIDE DEF m
<1>3. IsSeq(history) /\ IsSeq(made) /\ Len(made) = Len(history) BY DEF RevisionTyped, Revision
<1>4. IsSeq(history') /\ Len(history') = Len(history) + 1 BY <1>1, <1>3, Appended
<1>5. /\ IsSeq(made') /\ Len(made') = Len(made) + 1 /\ made'[Len(made) + 1] = m
      /\ \A k \in 1..Len(made) : made'[k] = made[k]
  BY <1>1, <1>3, Appended
<1>6. Len(history) \in Nat BY <1>3 DEF IsSeq
<1> QED BY <1>2, <1>3, <1>4, <1>5, <1>6 DEF Revision, IsSeq

\* A revision made of the operations that the ledger records for it.
LEMMA SavedOnce ==
  ASSUME RevisionTyped, AppliedOnce,
         NEW doc, NEW targets, NEW base, NEW edits, NEW fresh \in SUBSET OpId,
         Save(doc, targets, base, edits, fresh),
         \A id \in fresh : ledger[id].revision = 0 /\ ledger'[id].revision = Revision + 1,
         \A id \in OpId \ fresh : ledger'[id] = ledger[id]
  PROVE  AppliedOnce'
<1>1. /\ Revision \in Nat /\ Revision' = Revision + 1
      /\ \A r \in 1..Revision : made'[r] = made[r]
      /\ made'[Revision + 1].ids = fresh
  BY SavedRevision
<1> SUFFICES ASSUME NEW id \in OpId
             PROVE  {r \in 1..Revision' : id \in made'[r].ids} = {ledger'[id].revision} \ {0}
  BY DEF AppliedOnce
<1>2. {r \in 1..Revision : id \in made[r].ids} = {ledger[id].revision} \ {0}
  BY DEF AppliedOnce
<1>3. {r \in 1..Revision' : id \in made'[r].ids}
        = {r \in 1..Revision : id \in made[r].ids} \cup (IF id \in fresh THEN {Revision + 1} ELSE {})
  BY <1>1
<1>4. CASE id \in fresh BY <1>1, <1>2, <1>3, <1>4
<1>5. CASE id \notin fresh BY <1>1, <1>2, <1>3, <1>5
<1> QED BY <1>4, <1>5

\* A batch that is let through: what was in the ledger stays, what was chosen is in it.
LEMMA AppliedBatch ==
  ASSUME RevisionTyped, AppliedOnce,
         NEW base, NEW strategy, NEW ops, NEW ids \in SUBSET OpId,
         ApplyBatch(base, strategy, ops, ids)
  PROVE  /\ AppliedOnce'
         /\ IsSeq(history)' /\ IsSeq(made)' /\ Len(made)' = Revision'
         /\ Revision \in Nat /\ Revision' \in {Revision, Revision + 1}
         /\ ledger' = [id \in OpId |-> ledger'[id]]
         /\ \A id \in OpId : /\ ledger'[id].revision \in 0..Revision'
                             /\ ledger[id].revision # 0 => ledger'[id] = ledger[id]
         /\ \A id \in ids : /\ ledger'[id].edit = EditOf(ops, id)
                            /\ ledger'[id].revision \in 1 .. Revision + 1
<1> DEFINE fresh == Fresh(ids)
           edits == Edits(Select(ops, fresh))
           targets == TargetsOf(ops, fresh)
           doc == ApplyAll(Doc, edits)
<1>1. fresh \in SUBSET OpId /\ \A id \in fresh : id \in ids /\ ledger[id].revision = 0 BY DEF Fresh
<1>2. \A id \in ids \ fresh : ledger[id].revision # 0 /\ ledger[id].edit = EditOf(ops, id)
  BY DEF ApplyBatch, Reused, Fresh
<1>3. Revision \in Nat /\ Revision = Len(history) BY DEF RevisionTyped, Revision, IsSeq
<1>4. CASE fresh = {}
  <2>1. UNCHANGED <<history, ledger, made>> BY <1>4 DEF ApplyBatch
  <2>2. AppliedOnce' BY <2>1 DEF AppliedOnce, Revision
  <2>3. \A id \in ids : ledger[id].revision \in 0..Revision /\ ledger[id].revision # 0
    BY <1>2, <1>4 DEF RevisionTyped
  <2>4. \A id \in ids : /\ ledger'[id].edit = EditOf(ops, id)
                        /\ ledger'[id].revision \in 1 .. Revision + 1
    BY <1>2, <1>3, <1>4, <2>1, <2>3
  <2>5. Revision' = Revision BY <2>1 DEF Revision
  <2> QED BY <1>3, <2>1, <2>2, <2>4, <2>5 DEF RevisionTyped
<1>5. CASE fresh # {}
  <2>1. /\ Save(doc, targets, base, edits, fresh)
        /\ ledger' = [id \in OpId |->
             IF id \in fresh THEN [edit |-> EditOf(ops, id), revision |-> Revision + 1]
             ELSE ledger[id]]
    BY <1>5 DEF ApplyBatch
  <2> HIDE DEF fresh, edits, targets, doc
  <2>2. /\ IsSeq(history)' /\ IsSeq(made)' /\ Len(made)' = Revision' /\ Revision' = Revision + 1
    BY <2>1, SavedRevision
  <2>3. \A id \in fresh : ledger'[id].revision = Revision + 1 /\ ledger'[id].edit = EditOf(ops, id)
    BY <1>1, <2>1
  <2>4. \A id \in OpId \ fresh : ledger'[id] = ledger[id] BY <2>1
  <2>5. AppliedOnce' BY <1>1, <2>1, <2>3, <2>4, SavedOnce
  <2>6. \A id \in OpId : ledger[id].revision \in 0..Revision BY DEF RevisionTyped
  <2>7. \A id \in OpId : /\ ledger'[id].revision \in 0..Revision'
                         /\ ledger[id].revision # 0 => ledger'[id] = ledger[id]
    BY <1>1, <1>3, <2>2, <2>3, <2>4, <2>6
  <2>8. \A id \in ids : /\ ledger'[id].edit = EditOf(ops, id)
                        /\ ledger'[id].revision \in 1 .. Revision + 1
    BY <1>1, <1>2, <1>3, <2>3, <2>4, <2>6
  <2>9. ledger' = [id \in OpId |-> ledger'[id]] BY <2>1
  <2> QED BY <1>3, <2>2, <2>5, <2>7, <2>8, <2>9
<1> QED BY <1>4, <1>5

\* As long as the Proposal stays, what the ledger knows stays exact.
LEMMA ExactKept ==
  ASSUME RevisionInv, UNCHANGED proposal,
         \A id \in OpId : ledger[id].revision # 0 => ledger'[id] = ledger[id]
  PROVE  ProposalIsExact'
<1> SUFFICES ASSUME proposal.status \in {"accepted", "partially_accepted"},
                    NEW o \in ToSet(proposal.operations), o.id \in proposal.accepted
             PROVE  /\ ledger'[o.id].edit = o.edit
                    /\ ledger'[o.id].revision \in 1 .. proposal.base + 1
  BY DEF ProposalIsExact
<1>1. o.id \in OpId BY DEF RevisionInv, RevisionTyped, Ids, ToSet
<1>2. ledger[o.id].edit = o.edit /\ ledger[o.id].revision \in 1 .. proposal.base + 1
  BY DEF RevisionInv, ProposalIsExact
<1>3. proposal.base \in Nat BY DEF RevisionInv, RevisionTyped, Revision, IsSeq
<1> QED BY <1>1, <1>2, <1>3

\* POST /operations.
LEMMA BatchStep ==
  ASSUME RevisionInv, NEW base \in 1..Revision, NEW ops \in Operations(Batch),
         ApplyOperations(base, ops)
  PROVE  RevisionInv'
<1>1. Ids(ops) \in SUBSET OpId BY BatchIds
<1>2. ApplyBatch(base, "rebase_if_safe", ops, Ids(ops)) /\ UNCHANGED proposal
  BY DEF ApplyOperations
<1>3. /\ AppliedOnce'
      /\ IsSeq(history)' /\ IsSeq(made)' /\ Len(made)' = Revision'
      /\ Revision \in Nat /\ Revision' \in {Revision, Revision + 1}
      /\ ledger' = [id \in OpId |-> ledger'[id]]
      /\ \A id \in OpId : /\ ledger'[id].revision \in 0..Revision'
                          /\ ledger[id].revision # 0 => ledger'[id] = ledger[id]
  BY <1>1, <1>2, AppliedBatch DEF RevisionInv
<1>4. ProposalIsExact' BY <1>2, <1>3, ExactKept
<1>5. RevisionTyped' BY <1>2, <1>3 DEF RevisionInv, RevisionTyped
<1> QED BY <1>3, <1>4, <1>5 DEF RevisionInv

\* A metadata patch or a restore: a revision without operations.
LEMMA PlainStep ==
  ASSUME RevisionInv, NEW doc, NEW targets, NEW base, NEW edits,
         Save(doc, targets, base, edits, {}), UNCHANGED <<ledger, proposal>>
  PROVE  RevisionInv'
<1>1. /\ IsSeq(history)' /\ IsSeq(made)' /\ Len(made)' = Revision' /\ Revision \in Nat
      /\ Revision' = Revision + 1
  BY SavedRevision DEF RevisionInv
<1>2. AppliedOnce' BY SavedOnce DEF RevisionInv
<1>3. ProposalIsExact' BY ExactKept
<1>4. RevisionTyped' BY <1>1 DEF RevisionInv, RevisionTyped
<1> QED BY <1>2, <1>3, <1>4 DEF RevisionInv

\* Accepting a Proposal, in whole or in part.
LEMMA DecisionStep ==
  ASSUME RevisionInv, NEW ids \in SUBSET Ids(proposal.operations), DecideProposal(ids)
  PROVE  RevisionInv'
<1> DEFINE ops == proposal.operations
<1>1. ids \in SUBSET OpId BY DEF RevisionInv, RevisionTyped
<1>2. ApplyBatch(proposal.base, "reject", ops, ids) BY DEF DecideProposal
<1>3. /\ AppliedOnce'
      /\ IsSeq(history)' /\ IsSeq(made)' /\ Len(made)' = Revision'
      /\ Revision \in Nat /\ Revision' \in {Revision, Revision + 1}
      /\ ledger' = [id \in OpId |-> ledger'[id]]
      /\ \A id \in OpId : ledger'[id].revision \in 0..Revision'
      /\ \A id \in ids : /\ ledger'[id].edit = EditOf(ops, id)
                         /\ ledger'[id].revision \in 1 .. Revision + 1
  BY <1>1, <1>2, AppliedBatch DEF RevisionInv
<1>4. proposal.base = Revision BY <1>2 DEF ApplyBatch
<1>5. /\ proposal'.accepted = ids /\ proposal'.operations = ops
      /\ proposal'.base = proposal.base
      /\ DOMAIN proposal' = {"status", "base", "operations", "accepted"}
  BY DEF DecideProposal, RevisionInv, RevisionTyped
<1>6. ProposalIsExact'
  <2> SUFFICES ASSUME NEW o \in ToSet(ops), o.id \in ids
               PROVE  /\ ledger'[o.id].edit = o.edit
                      /\ ledger'[o.id].revision \in 1 .. proposal.base + 1
    BY <1>5 DEF ProposalIsExact
  <2>1. EditOf(ops, o.id) = o.edit BY EditOfOperation DEF RevisionInv, RevisionTyped
  <2> QED BY <1>3, <1>4, <2>1
<1>7. RevisionTyped' BY <1>3, <1>5 DEF RevisionInv, RevisionTyped
<1> QED BY <1>3, <1>6, <1>7 DEF RevisionInv

\* Drafting a Proposal, or turning one down.
LEMMA ProposalStep ==
  ASSUME RevisionInv, RejectProposal \/ \E ops \in Operations(Draft) : Propose(ops)
  PROVE  RevisionInv'
<1>1. UNCHANGED <<history, ledger, made>> BY DEF RejectProposal, Propose
<1>2. AppliedOnce' BY <1>1 DEF RevisionInv, AppliedOnce, Revision
<1>3. CASE RejectProposal
  <2>1. /\ DOMAIN proposal' = DOMAIN proposal /\ proposal'.status = "rejected"
        /\ proposal'.base = proposal.base /\ proposal'.operations = proposal.operations
    BY <1>3 DEF RejectProposal, RevisionInv, RevisionTyped
  <2>2. RevisionTyped' BY <1>1, <2>1 DEF RevisionInv, RevisionTyped, Revision
  <2> QED BY <1>2, <2>1, <2>2 DEF RevisionInv, ProposalIsExact
<1>4. ASSUME NEW ops \in Operations(Draft), Propose(ops) PROVE RevisionInv'
  <2>1. Ids(ops) \subseteq OpId /\ Unambiguous(ops) BY BatchIds
  <2>2. proposal' = [status |-> "pending", base |-> Revision, operations |-> ops, accepted |-> {}]
    BY <1>4 DEF Propose
  <2>3. Revision \in 0..Revision BY DEF RevisionInv, RevisionTyped, Revision, IsSeq
  <2>4. RevisionTyped' BY <1>1, <2>1, <2>2, <2>3 DEF RevisionInv, RevisionTyped, Revision
  <2> QED BY <1>2, <2>2, <2>4 DEF RevisionInv, ProposalIsExact
<1> QED BY <1>3, <1>4

\* Every handler that writes a Resume keeps the types of its history, the ledger
\* of its operations, and the exactness of an accepted Proposal.
THEOREM RevisionInductive == RevisionSpec => []RevisionInv
<1>1. ASSUME RevisionInv, [RevisionNext]_rVars PROVE RevisionInv'
  <2>1. ASSUME NEW base \in 1..Revision, NEW ops \in Operations(Batch), ApplyOperations(base, ops)
        PROVE  RevisionInv'
    BY <1>1, <2>1, BatchStep
  <2>2. ASSUME NEW title \in Title, UpdateMetadata(title) PROVE RevisionInv'
    BY <1>1, <2>2, PlainStep DEF UpdateMetadata
  <2>3. ASSUME NEW r \in 1 .. Revision - 1, Restore(r) PROVE RevisionInv'
    BY <1>1, <2>3, PlainStep DEF Restore
  <2>4. ASSUME NEW ops \in Operations(Draft), Propose(ops) PROVE RevisionInv'
    BY <1>1, <2>4, ProposalStep
  <2>5. ASSUME NEW ids \in SUBSET Ids(proposal.operations) \ {{}}, DecideProposal(ids)
        PROVE  RevisionInv'
    BY <1>1, <2>5, DecisionStep
  <2>6. CASE RejectProposal BY <1>1, <2>6, ProposalStep
  <2>7. CASE UNCHANGED rVars
    BY <1>1, <2>7 DEF rVars, RevisionInv, RevisionTyped, AppliedOnce, ProposalIsExact, Revision
  <2> QED BY <1>1, <2>1, <2>2, <2>3, <2>4, <2>5, <2>6, <2>7 DEF RevisionNext
<1> QED BY RevisionInitInv, <1>1, PTL DEF RevisionSpec

\* Whatever batches, restores, renames and Proposal decisions a client sends,
\* and however often it repeats them, an operation is part of one revision at
\* most: the one its ledger entry names, if it has one.
THEOREM OperationAppliedOnce == RevisionSpec => []AppliedOnce
<1>1. RevisionInv => AppliedOnce BY DEF RevisionInv
<1> QED BY <1>1, RevisionInductive, PTL

\* What a user accepts of a Proposal was done exactly as it was drafted, on the
\* revision it was drafted for or before it.
THEOREM DecisionIsExact == RevisionSpec => []ProposalIsExact
<1>1. RevisionInv => ProposalIsExact BY DEF RevisionInv
<1> QED BY <1>1, RevisionInductive, PTL
=============================================================================
