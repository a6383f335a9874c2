-------------------------- MODULE InterviewJobsProofs --------------------------
(***************************************************************************)
(* Theorems about an Interview session and its Jobs, for any number of     *)
(* Jobs, handlers, attempts and transcript segments.                       *)
(***************************************************************************)
EXTENDS InterviewJobs, JobWorkProofs

\* A handler's Job was started; an end that was started is never withdrawn; and a
\* handler of a report that still sees the session it prepared has read all of it.
Handlers == \A w \in Worker : worker[w].job # NoJob =>
  /\ job[worker[w].job].status \notin {"absent", "queued"}
  /\ job[worker[w].job].kind = "end" => job[worker[w].job].status # "cancelled"
  /\ worker[w].targetRev <= session.rev
  /\ job[worker[w].job].kind = "report" /\ worker[w].targetRev = session.rev =>
       session.status = "completed" /\ session.report = NoJob /\ stage[w].seen = transcript

\* What is published was published by a Job that was started.
Published == \A j \in performed :
  /\ job[j].status \in {"running", "succeeded", "failed"}
  /\ job[j].kind = "report" => job[j].status = "succeeded"

\* A report Job that succeeded attached its Report.
NoReport == session.report = NoJob => Reports({"succeeded"}) = {}

Inv == /\ TypeOK /\ WorkInv /\ EndingHasJob /\ ReportIsWhole
       /\ Handlers /\ Published /\ NoReport

-----------------------------------------------------------------------------
\* The types, as the lemmas of JobWorkProofs want them.
LEMMA Typed ==
  ASSUME TypeOK
  PROVE  /\ WorkTyped /\ job \in [Job -> JobRow]
         /\ \A j \in Job : job[j] \in JobRow /\ job[j].rev \in Nat
         /\ session \in Session /\ session.rev \in Nat
BY DEF TypeOK, WorkTypeOK, WorkTyped, JobRow, Session

\* The session after one of its transitions.
LEMMA MovedFacts ==
  ASSUME session \in Session, NEW to \in Open \cup {"ending"} \cup Ended
  PROVE  /\ Moved(to) \in Session /\ Moved(to).status = to
         /\ Moved(to).rev = session.rev + 1 /\ Moved(to).pending = NoJob
         /\ Moved(to).report = session.report /\ Moved(to).evidence = session.evidence
         /\ Moved(to).reason = session.reason
<1>1. PICK st \in Open \cup {"ending"} \cup Ended, n \in Nat, p \in Job \cup {NoJob},
           r \in Reason, q \in Job \cup {NoJob}, e \in Nat :
        session = [status |-> st, rev |-> n, pending |-> p, reason |-> r,
                   report |-> q, evidence |-> e]
  BY DEF Session
<1> DEFINE g == [session EXCEPT !.status = to]
           h == [g EXCEPT !.rev = n + 1]
<1>2. g = [status |-> to, rev |-> n, pending |-> p, reason |-> r, report |-> q, evidence |-> e]
  BY <1>1
<1>3. Moved(to) = [h EXCEPT !.pending = NoJob] BY <1>1 DEF Moved
<1> HIDE DEF g
<1>4. h = [status |-> to, rev |-> n + 1, pending |-> p, reason |-> r, report |-> q, evidence |-> e]
  BY <1>2
<1> HIDE DEF h
<1>5. Moved(to) = [status |-> to, rev |-> n + 1, pending |-> NoJob, reason |-> r,
                   report |-> q, evidence |-> e]
  BY <1>3, <1>4
<1> QED BY <1>1, <1>5 DEF Session

\* A closed row keeps its kind, and has a later revision.
LEMMA ClosedFacts ==
  ASSUME NEW j \in Job, job[j] \in JobRow, NEW how \in {"succeeded", "failed", "cancelled"}
  PROVE  /\ Closed(j, how) \in JobRow /\ Closed(j, how).status = how
         /\ Closed(j, how).kind = job[j].kind /\ Closed(j, how).rev > job[j].rev
         /\ StartedAndClosed(j, how) \in JobRow /\ StartedAndClosed(j, how).status = how
         /\ StartedAndClosed(j, how).kind = job[j].kind
         /\ StartedAndClosed(j, how).rev > job[j].rev
<1>1. how \in Status BY DEF Status, Settled
<1> DEFINE c == Closed(j, how)
<1>2. /\ c \in JobRow /\ c.status = how /\ c.kind = job[j].kind
      /\ c.rev = job[j].rev + 1 /\ job[j].rev \in Nat
  <2>1. PICK k \in {"end", "report"}, n \in Nat, st \in Status :
          job[j] = [status |-> st, kind |-> k, rev |-> n]
    BY DEF JobRow
  <2>2. [job[j] EXCEPT !.status = how] = [status |-> how, kind |-> k, rev |-> n] BY <2>1
  <2>3. c = [[job[j] EXCEPT !.status = how] EXCEPT !.rev = n + 1] BY <2>1 DEF Closed
  <2>4. c = [status |-> how, kind |-> k, rev |-> n + 1] BY <2>2, <2>3
  <2> QED BY <1>1, <2>1, <2>4 DEF JobRow
<1> HIDE DEF c
<1> DEFINE s == [c EXCEPT !.rev = IF job[j].status = "queued" THEN c.rev + 1 ELSE c.rev]
<1>3. /\ s \in JobRow /\ s.status = how /\ s.kind = job[j].kind /\ s.rev > job[j].rev
  <2>1. (IF job[j].status = "queued" THEN c.rev + 1 ELSE c.rev) \in Nat BY <1>2
  <2>2. (IF job[j].status = "queued" THEN c.rev + 1 ELSE c.rev) > job[j].rev BY <1>2
  <2> QED BY <1>2, <2>1, <2>2 DEF JobRow
<1>4. StartedAndClosed(j, how) = s BY DEF StartedAndClosed, c
<1> QED BY <1>2, <1>3, <1>4 DEF c

\* A row that takes a status and a revision, one after the other.
LEMMA RowFacts ==
  ASSUME TypeOK, NEW j \in Job, NEW to \in Status, NEW n \in Nat,
         job' = [job EXCEPT ![j].status = to, ![j].rev = n]
  PROVE  /\ job' \in [Job -> JobRow] /\ job'[j].status = to /\ job'[j].rev = n
         /\ job'[j].kind = job[j].kind
         /\ \A i \in Job \ {j} : job'[i] = job[i]
<1>1. job \in [Job -> JobRow] BY Typed
<1>2. PICK st \in Status, k \in {"end", "report"}, r \in Nat :
        job[j] = [status |-> st, kind |-> k, rev |-> r]
  BY <1>1 DEF JobRow
<1> DEFINE row == [status |-> to, kind |-> k, rev |-> n]
           g == [job EXCEPT ![j].status = to]
<1>3. [job[j] EXCEPT !.status = to] = [status |-> to, kind |-> k, rev |-> r] BY <1>2
<1>4. g = [job EXCEPT ![j] = [job[j] EXCEPT !.status = to]] OBVIOUS
<1>5. /\ g[j] = [status |-> to, kind |-> k, rev |-> r]
      /\ DOMAIN g = Job /\ \A i \in Job \ {j} : g[i] = job[i]
  BY <1>1, <1>3, <1>4
<1>6. job' = [g EXCEPT ![j].rev = n] OBVIOUS
<1> HIDE DEF g
<1>7. job' = [g EXCEPT ![j] = [g[j] EXCEPT !.rev = n]] BY <1>6
<1>8. [g[j] EXCEPT !.rev = n] = row BY <1>5
<1>9. job' = [i \in Job |-> IF i = j THEN row ELSE job[i]] BY <1>5, <1>7, <1>8
<1>10. row \in JobRow BY DEF JobRow
<1>11. job'[j] = row /\ \A i \in Job \ {j} : job'[i] = job[i] BY <1>9
<1>12. job' \in [Job -> JobRow] BY <1>1, <1>9, <1>10
<1> QED BY <1>2, <1>11, <1>12

-----------------------------------------------------------------------------
(* What a step of one Job does, to it and to the session.                  *)
Kept(j) == job[j].status # "absent" => job'[j].kind = job[j].kind

Core(j) == /\ TypeOK' /\ Advances(j) /\ Delivers(j) /\ Works(j) /\ Reads /\ Kept(j)
           /\ Allowed(j, job[j].status, job'[j].status, delivery[j].open, delivery'[j].open)

\* An end that has started is not withdrawn.
NotTooLate(j) == job'[j].status = "cancelled" =>
  job[j].status \in {"queued", "cancelled"} \/ job[j].kind = "report"

SessionMoves == \/ session' = session
                \/ session'.rev > session.rev

\* A handler goes, keeps what it has read, or starts with what there is to read.
Stays(v)  == /\ worker'[v].job = worker[v].job /\ worker'[v].targetRev = worker[v].targetRev
             /\ stage'[v].seen = stage[v].seen
Starts(v, j) ==
  /\ job[j].status # "absent" /\ job'[j].status = "running"
  /\ worker'[v].job = j /\ worker'[v].targetRev = session.rev
  /\ session' = session /\ transcript' = transcript /\ stage'[v].seen = transcript
  /\ job[j].kind = "report" => session.status = "completed" /\ session.report = NoJob
HandlersMove(j) == \A v \in Worker : worker'[v].job = NoJob \/ Stays(v) \/ Starts(v, j)

TranscriptKept == session.status = "completed" /\ session' = session => transcript' = transcript

Publishes(j) == \/ UNCHANGED performed
                \/ /\ performed' = performed \cup {j} /\ job[j].status # "absent"
                   /\ job'[j].status \in {"running", "succeeded", "failed"}
                   /\ job[j].kind = "report" => job'[j].status = "succeeded"

LEMMA KindKept ==
  ASSUME NEW j \in Job, Core(j), NEW i \in Job, job[i].status # "absent"
  PROVE  job'[i].kind = job[i].kind /\ job'[i].status # "absent"
BY DEF Core, Kept, Advances

LEMMA StartedStays ==
  ASSUME NEW j \in Job, Core(j), NotTooLate(j), NEW i \in Job,
         job[i].status \notin {"absent", "queued"}
  PROVE  /\ job'[i].status \notin {"absent", "queued"}
         /\ job[i].kind = "end" /\ job[i].status # "cancelled" => job'[i].status # "cancelled"
         /\ job[i].status = "succeeded" => job'[i].status = "succeeded"
<1>1. CASE i = j BY <1>1 DEF Core, Allowed, NotTooLate, Live, Settled
<1>2. CASE i # j BY <1>2 DEF Core, Advances
<1> QED BY <1>1, <1>2

LEMMA HandlersKept ==
  ASSUME Inv, NEW j \in Job, Core(j), NotTooLate(j), SessionMoves, HandlersMove(j),
         TranscriptKept
  PROVE  Handlers'
<1> SUFFICES ASSUME NEW w \in Worker, worker'[w].job # NoJob
             PROVE  /\ job'[worker'[w].job].status \notin {"absent", "queued"}
                    /\ job'[worker'[w].job].kind = "end" => job'[worker'[w].job].status # "cancelled"
                    /\ worker'[w].targetRev <= session'.rev
                    /\ job'[worker'[w].job].kind = "report" /\ worker'[w].targetRev = session'.rev =>
                         /\ session'.status = "completed" /\ session'.report = NoJob
                         /\ stage'[w].seen = transcript'
  BY DEF Handlers
<1>1. session.rev \in Nat /\ session'.rev \in Nat BY DEF Inv, Core, TypeOK, Session
<1>2. CASE Stays(w)
  <2> DEFINE i == worker[w].job
  <2>1. i \in Job /\ worker'[w].job = i /\ worker[w].targetRev \in Nat
    BY <1>2 DEF Stays, Inv, TypeOK, WorkTypeOK, Local
  <2>2. /\ job[i].status \notin {"absent", "queued"}
        /\ job[i].kind = "end" => job[i].status # "cancelled"
        /\ worker[w].targetRev <= session.rev
        /\ job[i].kind = "report" /\ worker[w].targetRev = session.rev =>
             session.status = "completed" /\ session.report = NoJob /\ stage[w].seen = transcript
    BY <2>1 DEF Inv, Handlers
  <2>3. /\ job'[i].status \notin {"absent", "queued"} /\ job'[i].kind = job[i].kind
        /\ job[i].kind = "end" => job'[i].status # "cancelled"
    BY <2>1, <2>2, StartedStays, KindKept
  <2>4. CASE session' = session
    BY <1>2, <2>1, <2>2, <2>3, <2>4 DEF Stays, TranscriptKept
  <2>5. CASE session'.rev > session.rev
    <3>1. worker[w].targetRev <= session'.rev /\ worker[w].targetRev # session'.rev
      BY <1>1, <2>1, <2>2, <2>5
    <3> QED BY <1>2, <2>1, <2>3, <3>1 DEF Stays
  <2> QED BY <2>4, <2>5 DEF SessionMoves
<1>3. CASE Starts(w, j)
  <2>1. job'[j].kind = job[j].kind BY <1>3, KindKept DEF Starts
  <2> QED BY <1>1, <1>3, <2>1 DEF Starts
<1> QED BY <1>2, <1>3 DEF HandlersMove

LEMMA PublishedKept ==
  ASSUME Inv, NEW j \in Job, Core(j), NotTooLate(j), Publishes(j)
  PROVE  Published'
<1> SUFFICES ASSUME NEW i \in performed'
             PROVE  /\ job'[i].status \in {"running", "succeeded", "failed"}
                    /\ job'[i].kind = "report" => job'[i].status = "succeeded"
  BY DEF Published
<1>1. CASE i \in performed
  <2>1. /\ i \in Job /\ job[i].status \in {"running", "succeeded", "failed"}
        /\ job[i].kind = "report" => job[i].status = "succeeded"
    BY <1>1 DEF Inv, TypeOK, WorkTypeOK, Published
  <2>2. /\ job'[i].kind = job[i].kind /\ job'[i].status \notin {"absent", "queued"}
        /\ job[i].status = "succeeded" => job'[i].status = "succeeded"
        /\ job[i].kind = "end" => job'[i].status # "cancelled"
    BY <2>1, KindKept, StartedStays
  <2>3. job[i].kind \in {"end", "report"} /\ job'[i].status \in Status
    BY <2>1 DEF Inv, Core, TypeOK, WorkTypeOK, JobRow
  <2> QED BY <2>1, <2>2, <2>3 DEF Status, Live, Settled
<1>2. CASE i = j /\ ~(UNCHANGED performed)
  <2>1. job'[j].kind = job[j].kind BY <1>2, KindKept DEF Publishes
  <2> QED BY <1>2, <2>1 DEF Publishes
<1> QED BY <1>1, <1>2 DEF Publishes

\* The end Job pending on the session: it stays, appears or goes with its status.
EndLive(row) == row.kind = "end" /\ row.status \in Live
EndMoves(j) ==
  \/ /\ session'.pending = session.pending
     /\ session'.status = "ending" <=> session.status = "ending"
     /\ EndLive(job'[j]) <=> EndLive(job[j])
  \/ /\ session'.status = "ending" /\ session.pending = NoJob
     /\ session'.pending = j /\ EndLive(job'[j])
  \/ /\ session'.status # "ending" /\ session.pending = j
     /\ session'.pending = NoJob /\ ~EndLive(job'[j])

LEMMA EndKept ==
  ASSUME Inv, NEW j \in Job, Core(j), EndMoves(j)
  PROVE  EndingHasJob'
<1>1. session.pending \in Job \cup {NoJob} /\ session'.pending \in Job \cup {NoJob}
  BY DEF Inv, Core, TypeOK, Session
<1>2. /\ session.status = "ending" <=> session.pending # NoJob
      /\ \A i \in Job : EndLive(job[i]) <=> session.pending = i
  BY DEF Inv, EndingHasJob, EndLive
<1>3. \A i \in Job \ {j} : EndLive(job'[i]) <=> EndLive(job[i]) BY DEF Core, Advances, EndLive
<1>4. /\ session'.status = "ending" <=> session'.pending # NoJob
      /\ \A i \in Job : EndLive(job'[i]) <=> session'.pending = i
  <2>1. CASE /\ session'.pending = session.pending
             /\ session'.status = "ending" <=> session.status = "ending"
             /\ EndLive(job'[j]) <=> EndLive(job[j])
    BY <1>2, <1>3, <2>1
  <2>2. CASE /\ session'.status = "ending" /\ session.pending = NoJob
             /\ session'.pending = j /\ EndLive(job'[j])
    BY <1>2, <1>3, <2>2, JobAssumption
  <2>3. CASE /\ session'.status # "ending" /\ session.pending = j
             /\ session'.pending = NoJob /\ ~EndLive(job'[j])
    BY <1>2, <1>3, <2>3, JobAssumption
  <2> QED BY <2>1, <2>2, <2>3 DEF EndMoves
<1> QED BY <1>4 DEF EndingHasJob, EndLive

\* The Report and its Jobs: nothing changes for them, one is requested when there is
\* neither, or one succeeds with the transcript it has read.
ReportLive(row) == row.kind = "report" /\ row.status \in Live
ReportDone(row) == row.kind = "report" /\ row.status = "succeeded"
ReportMoves(j) ==
  \/ /\ session'.report = session.report /\ session'.evidence = session.evidence
     /\ session.report # NoJob => session'.status = session.status /\ transcript' = transcript
     /\ ReportLive(job'[j]) => ReportLive(job[j])
     /\ ReportDone(job'[j]) <=> ReportDone(job[j])
  \/ /\ session' = session /\ transcript' = transcript
     /\ session.report = NoJob /\ Reports(Live) = {}
     /\ ReportLive(job'[j]) /\ ~ReportDone(job'[j]) /\ ~ReportDone(job[j])
  \/ /\ ReportLive(job[j]) /\ session.report = NoJob /\ ReportDone(job'[j]) /\ ~ReportLive(job'[j])
     /\ session'.report = j /\ session'.status = "completed" /\ session'.evidence = transcript'

LEMMA ReportKept ==
  ASSUME Inv, NEW j \in Job, Core(j), ReportMoves(j)
  PROVE  ReportIsWhole' /\ NoReport'
<1>1. \A i : /\ i \in Reports(Live) <=> i \in Job /\ ReportLive(job[i])
             /\ i \in Reports({"succeeded"}) <=> i \in Job /\ ReportDone(job[i])
  BY DEF Reports, ReportLive, ReportDone
<1>2. \A i : /\ i \in (Reports(Live))' <=> i \in Job /\ ReportLive(job'[i])
             /\ i \in (Reports({"succeeded"}))' <=> i \in Job /\ ReportDone(job'[i])
  BY DEF Reports, ReportLive, ReportDone
<1>3. \A i \in Job \ {j} : /\ ReportLive(job'[i]) <=> ReportLive(job[i])
                           /\ ReportDone(job'[i]) <=> ReportDone(job[i])
  BY DEF Core, Advances, ReportLive, ReportDone
<1>4. /\ \A i, k \in Reports(Live) : i = k
      /\ session.report # NoJob =>
           /\ session.status = "completed" /\ session.evidence = transcript
           /\ Reports({"succeeded"}) = {session.report} /\ Reports(Live) = {}
      /\ session.report = NoJob => Reports({"succeeded"}) = {}
  BY DEF Inv, ReportIsWhole, NoReport
<1> HIDE DEF ReportLive, ReportDone, Reports
<1>5. CASE /\ session'.report = session.report /\ session'.evidence = session.evidence
           /\ session.report # NoJob => session'.status = session.status /\ transcript' = transcript
           /\ ReportLive(job'[j]) => ReportLive(job[j])
           /\ ReportDone(job'[j]) <=> ReportDone(job[j])
  <2>1. (Reports(Live))' \subseteq Reports(Live) BY <1>1, <1>2, <1>3, <1>5
  <2>2. (Reports({"succeeded"}))' = Reports({"succeeded"}) BY <1>1, <1>2, <1>3, <1>5
  <2> QED BY <1>4, <1>5, <2>1, <2>2 DEF ReportIsWhole, NoReport
<1>6. CASE /\ session' = session /\ transcript' = transcript
           /\ session.report = NoJob /\ Reports(Live) = {}
           /\ ReportLive(job'[j]) /\ ~ReportDone(job'[j]) /\ ~ReportDone(job[j])
  <2>1. (Reports(Live))' \subseteq {j} BY <1>1, <1>2, <1>3, <1>6
  <2>2. (Reports({"succeeded"}))' = {} BY <1>1, <1>2, <1>3, <1>4, <1>6
  <2> QED BY <1>6, <2>1, <2>2 DEF ReportIsWhole, NoReport
<1>7. CASE /\ ReportLive(job[j]) /\ session.report = NoJob /\ ReportDone(job'[j]) /\ ~ReportLive(job'[j])
           /\ session'.report = j /\ session'.status = "completed"
           /\ session'.evidence = transcript'
  <2>1. \A i \in Reports(Live) : i = j BY <1>1, <1>4, <1>7
  <2>2. (Reports(Live))' = {} BY <1>1, <1>2, <1>3, <1>7, <2>1
  <2>3. (Reports({"succeeded"}))' = {j} BY <1>1, <1>2, <1>3, <1>4, <1>7
  <2> QED BY <1>7, <2>2, <2>3, JobAssumption DEF ReportIsWhole, NoReport
<1> QED BY <1>5, <1>6, <1>7 DEF ReportMoves

\* A step of that form keeps the invariant and is a step of UnifiedJob.
Moves(j) == /\ Core(j) /\ NotTooLate(j) /\ SessionMoves /\ HandlersMove(j) /\ TranscriptKept
            /\ Publishes(j) /\ EndMoves(j) /\ ReportMoves(j)

LEMMA MovesKeep ==
  ASSUME Inv, NEW j \in Job, Moves(j)
  PROVE  Inv' /\ [Unified!JNext]_<<Statuses, performed, Events>>
<1>1. WorkTyped /\ \A i \in Job : job[i].rev \in Nat BY Typed DEF Inv
<1>2. WorkInv' BY <1>1, WorkInvKept DEF Inv, Moves, Core
<1>3. Handlers' /\ Published' BY HandlersKept, PublishedKept DEF Moves
<1>4. EndingHasJob' /\ ReportIsWhole' /\ NoReport' BY EndKept, ReportKept DEF Moves
<1>5. TypeOK' BY DEF Moves, Core
<1>6. OthersRest(j) BY DEF Moves, Core, Advances, Delivers, OthersRest
<1>7. delivery[j].open \in BOOLEAN /\ delivery'[j].open \in BOOLEAN
  BY <1>5 DEF Inv, TypeOK, WorkTypeOK
<1>8. [Unified!JNext]_<<Statuses, performed, Events>>
  BY <1>6, <1>7, UnifiedStep DEF Moves, Core
<1> QED BY <1>2, <1>3, <1>4, <1>5, <1>8 DEF Inv

-----------------------------------------------------------------------------
(* Handlers that settle their Job without a result, or leave it.           *)

\* The facts a step starts from.
LEMMA Facts ==
  ASSUME Inv
  PROVE  /\ WorkTyped /\ job \in [Job -> JobRow] /\ session \in Session
         /\ stage \in [Worker -> Stage] /\ transcript \in 0..MaxSegments
         /\ leased \in BOOLEAN /\ connecting \in Nat
         /\ \A j \in Job : job[j] \in JobRow /\ job[j].rev \in Nat
         /\ \A j \in Job : delivery[j].open => job[j].status # "absent"
         /\ \A w \in Worker : worker[w].job # NoJob =>
              worker[w].job \in Job /\ job[worker[w].job].status \notin {"absent", "queued"}
<1>1. \A w \in Worker : worker[w].job \in Job \cup {NoJob}
  BY DEF Inv, TypeOK, WorkTypeOK, Local
<1> QED BY <1>1, Typed DEF Inv, TypeOK, WorkInv, Handlers

\* A handler that leaves.
LEMMA LeaveFacts ==
  ASSUME Inv, NEW w \in Worker, worker[w].job # NoJob, NEW settle \in BOOLEAN, Leave(w, settle)
  PROVE  /\ worker' \in [Worker -> Local] /\ stage' \in [Worker -> Stage]
         /\ \A v \in Worker : worker'[v].job = NoJob \/ Stays(v)
         /\ delivery' \in [Job -> [open : BOOLEAN, attempt : Nat]]
         /\ \A i \in Job \ {worker[w].job} : delivery'[i].open = delivery[i].open
         /\ delivery'[worker[w].job].open => delivery[worker[w].job].open
         /\ ~settle => delivery'[worker[w].job].open = delivery[worker[w].job].open
<1>1. Release(w, settle) /\ stage' = [stage EXCEPT ![w] = Fresh] BY DEF Leave
<1>2. /\ worker' \in [Worker -> Local]
      /\ worker'[w] = Idle /\ \A v \in Worker \ {w} : worker'[v] = worker[v]
      /\ delivery' \in [Job -> [open : BOOLEAN, attempt : Nat]]
      /\ \A i \in Job \ {worker[w].job} : delivery'[i].open = delivery[i].open
      /\ delivery'[worker[w].job].open => delivery[worker[w].job].open
      /\ ~settle => delivery'[worker[w].job].open = delivery[worker[w].job].open
  BY <1>1, Facts, ReleaseFacts
<1>3. stage' \in [Worker -> Stage] /\ \A v \in Worker \ {w} : stage'[v] = stage[v]
  BY <1>1, Facts DEF Stage, Fresh
<1>4. \A v \in Worker : worker'[v].job = NoJob \/ Stays(v)
  BY <1>2, <1>3 DEF Idle, Stays
<1> QED BY <1>2, <1>3, <1>4

\* What Close, or leaving the Job as it is, does to the Job and the session.
LEMMA ClosingFacts ==
  ASSUME Inv, NEW j \in Job, job[j].status # "absent", transcript' = transcript,
         (UNCHANGED <<job, session>>) \/ (~JobSettled(j) /\ Close(j))
  PROVE  /\ job' \in [Job -> JobRow] /\ session' \in Session
         /\ Advances(j) /\ Kept(j) /\ NotTooLate(j)
         /\ SessionMoves /\ TranscriptKept /\ EndMoves(j) /\ ReportMoves(j)
         /\ \/ job'[j].status = "failed" /\ job[j].status \in Live
            \/ job'[j].status = job[j].status /\ UNCHANGED job
<1>1. /\ job \in [Job -> JobRow] /\ session \in Session /\ session.rev \in Nat
      /\ job[j] \in JobRow /\ job[j].rev \in Nat
  BY Typed DEF Inv
<1>2. CASE UNCHANGED <<job, session>>
  <2>1. job' \in [Job -> JobRow] /\ session' \in Session BY <1>1, <1>2
  <2>2. Advances(j) /\ Kept(j) BY <1>1, <1>2 DEF Advances, Kept
  <2>3. NotTooLate(j) /\ SessionMoves /\ TranscriptKept
    BY <1>2 DEF NotTooLate, SessionMoves, TranscriptKept
  <2>4. EndMoves(j) /\ ReportMoves(j)
    BY <1>2 DEF EndMoves, ReportMoves, EndLive, ReportLive, ReportDone
  <2> QED BY <1>2, <2>1, <2>2, <2>3, <2>4
<1>3. CASE ~JobSettled(j) /\ Close(j)
  <2> DEFINE row == StartedAndClosed(j, "failed")
  <2>1. job[j].status \in Live BY <1>1, <1>3 DEF JobRow, Status, JobSettled
  <2>2. row \in JobRow /\ row.status = "failed" /\ row.kind = job[j].kind /\ row.rev > job[j].rev
    BY <1>1, ClosedFacts
  <2>3. row.rev \in Nat BY <2>2 DEF JobRow
  <2>4. job' = [job EXCEPT ![j] = row] /\ session' = FailedEnd(j) BY <1>3 DEF Close
  <2> HIDE DEF row
  <2>5. job'[j] = row /\ \A i \in Job \ {j} : job'[i] = job[i] BY <1>1, <2>4
  <2>6. job' \in [Job -> JobRow] BY <1>1, <2>2, <2>4
  <2>7. Advances(j) /\ Kept(j) BY <1>1, <2>2, <2>3, <2>5 DEF Advances, Kept
  <2>8. /\ Moved("failed") \in Session /\ Moved("failed").status = "failed"
        /\ Moved("failed").rev = session.rev + 1 /\ Moved("failed").pending = NoJob
        /\ Moved("failed").report = session.report
        /\ Moved("failed").evidence = session.evidence
    BY <1>1, MovedFacts DEF Ended
  <2>9. session' = (IF session.pending = j THEN Moved("failed") ELSE session)
    BY <2>4 DEF FailedEnd
  <2> HIDE DEF Moved
  <2>10. session' \in Session /\ SessionMoves /\ TranscriptKept /\ NotTooLate(j)
    BY <1>1, <2>2, <2>5, <2>8, <2>9 DEF SessionMoves, TranscriptKept, NotTooLate
  <2>11. EndMoves(j)
    <3>1. /\ EndLive(job[j]) <=> session.pending = j
          /\ session.status = "ending" <=> session.pending # NoJob
      BY DEF Inv, EndingHasJob, EndLive
    <3>2. ~EndLive(job'[j]) BY <2>2, <2>5 DEF EndLive, Live
    <3> QED BY <2>8, <2>9, <3>1, <3>2 DEF EndMoves
  <2>12. ReportMoves(j)
    <3>1. session.pending = j => session.report = NoJob
      BY JobAssumption DEF Inv, EndingHasJob, ReportIsWhole
    <3>2. ~ReportLive(job'[j]) /\ ~ReportDone(job'[j]) BY <2>2, <2>5 DEF ReportLive, ReportDone, Live
    <3>3. ~ReportDone(job[j]) BY <2>1 DEF ReportDone, Live
    <3> QED BY <2>8, <2>9, <3>1, <3>2, <3>3 DEF ReportMoves
  <2> QED BY <2>1, <2>2, <2>5, <2>6, <2>7, <2>10, <2>11, <2>12
<1> QED BY <1>2, <1>3

\* ReceiveNothing and the exhaustion hook.
LEMMA EventStep ==
  ASSUME Inv, NEW j \in Job, job[j].status # "absent",
         (UNCHANGED <<job, session>> /\ JobSettled(j)) \/ (~JobSettled(j) /\ Close(j)),
         delivery' \in [Job -> [open : BOOLEAN, attempt : Nat]],
         \A i \in Job \ {j} : delivery'[i].open = delivery[i].open,
         delivery[j].open,
         UNCHANGED <<leased, connecting, transcript, stage, worker, performed, cancel>>
  PROVE  Moves(j)
<1>1. /\ job' \in [Job -> JobRow] /\ session' \in Session
      /\ Advances(j) /\ Kept(j) /\ NotTooLate(j)
      /\ SessionMoves /\ TranscriptKept /\ EndMoves(j) /\ ReportMoves(j)
      /\ \/ job'[j].status = "failed" /\ job[j].status \in Live
         \/ job'[j].status = job[j].status /\ UNCHANGED job
  BY ClosingFacts
<1>2. TypeOK' BY <1>1 DEF Inv, TypeOK, WorkTypeOK
<1>3. Delivers(j) /\ Works(j) /\ Reads BY DEF Delivers, Works, Reads
<1>4. JobSettled(j) \/ (job'[j].status = "failed" /\ job[j].status \in Live)
  <2>1. CASE ~JobSettled(j) /\ Close(j)
    <3>1. job'[j].status = "failed"
      BY <2>1, Facts, ClosedFacts DEF Close
    <3> QED BY <1>1, <3>1, <2>1 DEF JobSettled, Settled
  <2> QED BY <2>1
<1>5. Allowed(j, job[j].status, job'[j].status, delivery[j].open, delivery'[j].open)
  BY <1>1, <1>4 DEF Allowed, JobSettled, Live, Settled
<1>6. HandlersMove(j) BY DEF HandlersMove, Stays
<1>7. Publishes(j) BY DEF Publishes
<1> QED BY <1>1, <1>2, <1>3, <1>5, <1>6, <1>7 DEF Moves, Core

LEMMA ReceiveNothingStep ==
  ASSUME Inv, NEW j \in Job, ReceiveNothing(j)
  PROVE  Moves(j)
<1>1. WorkTyped /\ delivery[j].open /\ AcknowledgeAtOnce(j) /\ job[j].status # "absent"
  BY Facts DEF ReceiveNothing, Receives
<1>2. /\ delivery' \in [Job -> [open : BOOLEAN, attempt : Nat]]
      /\ \A i \in Job \ {j} : delivery'[i].open = delivery[i].open
  BY <1>1, AtOnceFacts
<1>3. /\ (UNCHANGED <<job, session>> /\ JobSettled(j)) \/ (~JobSettled(j) /\ Close(j))
      /\ UNCHANGED <<leased, connecting, transcript, stage, worker, performed, cancel>>
  BY DEF ReceiveNothing
<1> QED BY <1>1, <1>2, <1>3, EventStep

LEMMA ExhaustStep ==
  ASSUME Inv, NEW j \in Job, Exhaust(j)
  PROVE  Moves(j)
<1>1. WorkTyped /\ delivery[j].open /\ job[j].status # "absent"
  BY Facts DEF Exhaust, Spent
<1>2. /\ delivery' \in [Job -> [open : BOOLEAN, attempt : Nat]]
      /\ \A i \in Job \ {j} : delivery'[i].open = delivery[i].open
  BY <1>1, CloseFacts DEF Exhaust
<1>3. /\ (UNCHANGED <<job, session>> /\ JobSettled(j)) \/ (~JobSettled(j) /\ Close(j))
      /\ UNCHANGED <<leased, connecting, transcript, stage, worker, performed, cancel>>
  BY DEF Exhaust, Rest
<1> QED BY <1>1, <1>2, <1>3, EventStep

\* Handlers that end without a result.
LEMMA LeaveStep ==
  ASSUME Inv, NEW w \in Worker, worker[w].job # NoJob, NEW settle \in BOOLEAN, Leave(w, settle),
         UNCHANGED <<leased, connecting, transcript, performed, cancel>>,
         \/ UNCHANGED <<job, session>> /\ (settle => JobSettled(worker[w].job))
         \/ ~JobSettled(worker[w].job) /\ Close(worker[w].job)
  PROVE  \E j \in Job : Moves(j)
<1> DEFINE j == worker[w].job
<1>1. j \in Job /\ job[j].status \notin {"absent", "queued"} BY Facts
<1>2. /\ worker' \in [Worker -> Local] /\ stage' \in [Worker -> Stage]
      /\ \A v \in Worker : worker'[v].job = NoJob \/ Stays(v)
      /\ delivery' \in [Job -> [open : BOOLEAN, attempt : Nat]]
      /\ \A i \in Job \ {j} : delivery'[i].open = delivery[i].open
      /\ delivery'[j].open => delivery[j].open
      /\ ~settle => delivery'[j].open = delivery[j].open
  BY LeaveFacts
<1> HIDE DEF j
<1>3. /\ job' \in [Job -> JobRow] /\ session' \in Session
      /\ Advances(j) /\ Kept(j) /\ NotTooLate(j)
      /\ SessionMoves /\ TranscriptKept /\ EndMoves(j) /\ ReportMoves(j)
      /\ \/ job'[j].status = "failed" /\ job[j].status \in Live
         \/ job'[j].status = job[j].status /\ UNCHANGED job
  BY <1>1, ClosingFacts DEF j
<1>4. TypeOK' BY <1>2, <1>3 DEF Inv, TypeOK, WorkTypeOK
<1>5. Delivers(j) BY <1>2 DEF Delivers
<1>6. Works(j) BY <1>2 DEF Works, Stays
<1>7. Reads /\ Publishes(j) BY DEF Reads, Publishes
<1>8. \/ job'[j].status = "failed" /\ job[j].status \in Live
      \/ job'[j].status = job[j].status /\ (settle => job[j].status \in Settled)
  <2>1. CASE UNCHANGED <<job, session>> /\ (settle => JobSettled(j))
    BY <2>1 DEF JobSettled
  <2>2. CASE ~JobSettled(j) /\ Close(j)
    <3>1. job'[j].status = "failed" BY <1>1, <2>2, Facts, ClosedFacts DEF Close
    <3> QED BY <1>3, <2>2, <3>1 DEF JobSettled, Settled
  <2> QED BY <2>1, <2>2 DEF j
<1>9. Allowed(j, job[j].status, job'[j].status, delivery[j].open, delivery'[j].open)
  BY <1>2, <1>8 DEF Allowed
<1>10. HandlersMove(j) BY <1>2 DEF HandlersMove
<1> QED BY <1>1, <1>3, <1>4, <1>5, <1>6, <1>7, <1>9, <1>10 DEF Moves, Core

LEMMA FailStep ==
  ASSUME Inv, NEW w \in Worker, Fail(w) \/ Conflict(w) \/ GiveUp(w)
  PROVE  \E j \in Job : Moves(j)
<1>1. CASE Fail(w)
  <2>1. /\ worker[w].job # NoJob /\ ~JobSettled(worker[w].job) /\ Close(worker[w].job)
        /\ Leave(w, TRUE) /\ UNCHANGED <<leased, connecting, transcript, performed, cancel>>
    BY <1>1 DEF Fail, Holds, HoldsJob, JobSettled, Settled, Rest
  <2> QED BY <2>1, LeaveStep
<1>2. CASE Conflict(w)
  <2>1. PICK settle \in BOOLEAN :
          /\ worker[w].job # NoJob /\ Leave(w, settle)
          /\ \/ UNCHANGED <<job, session>> /\ (settle => JobSettled(worker[w].job))
             \/ ~JobSettled(worker[w].job) /\ Close(worker[w].job)
          /\ UNCHANGED <<leased, connecting, transcript, performed, cancel>>
    BY <1>2 DEF Conflict, Rest
  <2> QED BY <2>1, LeaveStep
<1>3. CASE GiveUp(w)
  <2>1. /\ worker[w].job # NoJob /\ Leave(w, TRUE)
        /\ \/ UNCHANGED <<job, session>> /\ JobSettled(worker[w].job)
           \/ ~JobSettled(worker[w].job) /\ Close(worker[w].job)
        /\ UNCHANGED <<leased, connecting, transcript, performed, cancel>>
    BY <1>3 DEF GiveUp, Rest
  <2> QED BY <2>1, LeaveStep
<1> QED BY <1>1, <1>2, <1>3

-----------------------------------------------------------------------------
(* Handlers at work.                                                       *)

\* A revision more, nothing else: the progress of a report.
LEMMA BumpFacts ==
  ASSUME Inv, NEW j \in Job, job[j].status # "absent", job' = [job EXCEPT ![j].rev = @ + 1]
  PROVE  /\ job' \in [Job -> JobRow] /\ Advances(j) /\ Kept(j)
         /\ job'[j].status = job[j].status /\ job'[j].kind = job[j].kind
<1>1. job \in [Job -> JobRow] BY Facts
<1>2. PICK st \in Status, k \in {"end", "report"}, r \in Nat :
        job[j] = [status |-> st, kind |-> k, rev |-> r]
  BY <1>1 DEF JobRow
<1>3. job' = [job EXCEPT ![j] = [job[j] EXCEPT !.rev = job[j].rev + 1]] OBVIOUS
<1>4. [job[j] EXCEPT !.rev = job[j].rev + 1] = [status |-> st, kind |-> k, rev |-> r + 1] BY <1>2
<1>5. job'[j] = [status |-> st, kind |-> k, rev |-> r + 1] /\ \A i \in Job \ {j} : job'[i] = job[i]
  BY <1>1, <1>3, <1>4
<1>6. job' \in [Job -> JobRow] BY <1>1, <1>3, <1>4 DEF JobRow
<1>7. Advances(j) BY <1>2, <1>5 DEF Advances
<1> QED BY <1>2, <1>5, <1>6, <1>7 DEF Kept

\* The parts of Moves that a step which leaves the session and the transcript alone,
\* and no status of a Job behind, has anyway.
LEMMA QuietFacts ==
  ASSUME Inv, NEW j \in Job, job[j].status # "absent",
         job'[j].kind = job[j].kind, UNCHANGED <<session, transcript>>,
         \/ job'[j].status = job[j].status
         \/ job'[j].status = "running" /\ job[j].status \in Live
  PROVE  /\ NotTooLate(j) /\ SessionMoves /\ TranscriptKept /\ EndMoves(j) /\ ReportMoves(j)
<1>1. NotTooLate(j) /\ SessionMoves /\ TranscriptKept
  BY DEF NotTooLate, SessionMoves, TranscriptKept
<1>2. EndMoves(j) BY DEF EndMoves, EndLive, Live
<1>3. ReportMoves(j) BY DEF ReportMoves, ReportLive, ReportDone, Live
<1> QED BY <1>1, <1>2, <1>3

LEMMA RaiseStep ==
  ASSUME Inv, NEW w \in Worker, Raise(w)
  PROVE  \E j \in Job : Moves(j)
<1> DEFINE j == worker[w].job
<1>1. /\ j # NoJob /\ Leave(w, FALSE) /\ UNCHANGED <<session, transcript>>
      /\ UNCHANGED <<leased, connecting, performed, cancel>>
      /\ UNCHANGED job \/ job' = [job EXCEPT ![j].rev = @ + 1]
  BY DEF Raise, Rest
<1>2. CASE UNCHANGED job BY <1>1, <1>2, LeaveStep
<1>3. CASE job' = [job EXCEPT ![j].rev = @ + 1]
  <2>1. j \in Job /\ job[j].status # "absent" BY <1>1, Facts
  <2>2. /\ worker' \in [Worker -> Local] /\ stage' \in [Worker -> Stage]
        /\ \A v \in Worker : worker'[v].job = NoJob \/ Stays(v)
        /\ delivery' \in [Job -> [open : BOOLEAN, attempt : Nat]]
        /\ \A i \in Job : delivery'[i].open = delivery[i].open
    BY <1>1, LeaveFacts
  <2> HIDE DEF j
  <2>3. /\ job' \in [Job -> JobRow] /\ Advances(j) /\ Kept(j)
        /\ job'[j].status = job[j].status /\ job'[j].kind = job[j].kind
    BY <1>3, <2>1, BumpFacts
  <2>4. TypeOK' BY <1>1, <2>2, <2>3 DEF Inv, TypeOK, WorkTypeOK
  <2>5. Delivers(j) BY <2>1, <2>2 DEF Delivers
  <2>6. Works(j) BY <2>2 DEF Works, Stays
  <2>7. Reads /\ Publishes(j) BY <1>1 DEF Reads, Publishes
  <2>8. Allowed(j, job[j].status, job'[j].status, delivery[j].open, delivery'[j].open)
    BY <1>1, <2>1, <2>2, <2>3 DEF Allowed
  <2>9. HandlersMove(j) BY <2>2 DEF HandlersMove
  <2>10. NotTooLate(j) /\ SessionMoves /\ TranscriptKept /\ EndMoves(j) /\ ReportMoves(j)
    BY <1>1, <2>1, <2>3, QuietFacts
  <2> QED BY <2>1, <2>3, <2>4, <2>5, <2>6, <2>7, <2>8, <2>9, <2>10 DEF Moves, Core
<1> QED BY <1>1, <1>2, <1>3

LEMMA ProgressStep ==
  ASSUME Inv, NEW w \in Worker, ReportProgress(w)
  PROVE  \E j \in Job : Moves(j)
<1> DEFINE j == worker[w].job
<1>1. /\ j # NoJob /\ job' = [job EXCEPT ![j].rev = @ + 1]
      /\ worker' = [worker EXCEPT ![w].jobRev = @ + 1]
      /\ stage' = [stage EXCEPT ![w].validating = TRUE]
      /\ UNCHANGED <<session, transcript, delivery, leased, connecting, performed, cancel>>
  BY DEF ReportProgress, Holds, HoldsJob, Rest
<1>2. /\ j \in Job /\ job[j].status # "absent"
      /\ worker \in [Worker -> Local] /\ stage \in [Worker -> Stage]
  BY <1>1, Facts DEF WorkTyped
<1>3. /\ worker' \in [Worker -> Local]
      /\ \A v \in Worker : worker'[v].job = worker[v].job /\ worker'[v].targetRev = worker[v].targetRev
  <2>1. PICK i \in Job \cup {NoJob}, a \in Nat, r \in Nat, t \in Nat :
          worker[w] = [job |-> i, attempt |-> a, jobRev |-> r, targetRev |-> t]
    BY <1>2 DEF Local
  <2>2. worker' = [worker EXCEPT ![w] = [worker[w] EXCEPT !.jobRev = worker[w].jobRev + 1]] BY <1>1
  <2>3. [worker[w] EXCEPT !.jobRev = worker[w].jobRev + 1]
          = [job |-> i, attempt |-> a, jobRev |-> r + 1, targetRev |-> t]
    BY <2>1
  <2> QED BY <1>2, <2>1, <2>2, <2>3 DEF Local
<1>4. stage' \in [Worker -> Stage] /\ \A v \in Worker : stage'[v].seen = stage[v].seen
  BY <1>1, <1>2 DEF Stage
<1> HIDE DEF j
<1>5. /\ job' \in [Job -> JobRow] /\ Advances(j) /\ Kept(j)
      /\ job'[j].status = job[j].status /\ job'[j].kind = job[j].kind
  BY <1>1, <1>2, BumpFacts
<1>6. TypeOK' BY <1>1, <1>3, <1>4, <1>5 DEF Inv, TypeOK, WorkTypeOK
<1>7. Delivers(j) BY <1>1 DEF Delivers
<1>8. Works(j) BY <1>3 DEF Works
<1>9. Reads /\ Publishes(j) BY <1>1 DEF Reads, Publishes
<1>10. Allowed(j, job[j].status, job'[j].status, delivery[j].open, delivery'[j].open)
  BY <1>1, <1>5 DEF Allowed
<1>11. HandlersMove(j) BY <1>3, <1>4 DEF HandlersMove, Stays
<1>12. NotTooLate(j) /\ SessionMoves /\ TranscriptKept /\ EndMoves(j) /\ ReportMoves(j)
  BY <1>1, <1>2, <1>5, QuietFacts
<1> QED BY <1>2, <1>5, <1>6, <1>7, <1>8, <1>9, <1>10, <1>11, <1>12 DEF Moves, Core

LEMMA FinalizeStep ==
  ASSUME Inv, NEW w \in Worker, Finalize(w)
  PROVE  \E j \in Job : Moves(j)
<1> DEFINE j == worker[w].job
<1>1. /\ j # NoJob /\ job[j].kind = "end" /\ performed' = performed \cup {j}
      /\ UNCHANGED <<job, delivery, worker, cancel, session, leased, connecting, transcript, stage>>
  BY DEF Finalize, iVars
<1>2. /\ j \in Job /\ job \in [Job -> JobRow] /\ job[j] \in JobRow /\ job[j].rev \in Nat
      /\ job[j].status \notin {"absent", "queued"}
  BY <1>1, Facts
<1>3. job[j].status # "cancelled" BY <1>1 DEF Inv, Handlers
<1>4. job[j].status \in {"running", "succeeded", "failed"}
  BY <1>2, <1>3 DEF JobRow, Status, Live, Settled
<1> HIDE DEF j
<1>5. TypeOK' BY <1>1, <1>2 DEF Inv, TypeOK, WorkTypeOK
<1>6. Advances(j) /\ Kept(j) BY <1>1, <1>2 DEF Advances, Kept
<1>7. Delivers(j) /\ Works(j) /\ Reads BY <1>1 DEF Delivers, Works, Reads
<1>8. Allowed(j, job[j].status, job'[j].status, delivery[j].open, delivery'[j].open)
  BY <1>1, <1>4 DEF Allowed
<1>9. HandlersMove(j) BY <1>1 DEF HandlersMove, Stays
<1>10. Publishes(j) BY <1>1, <1>2, <1>4 DEF Publishes
<1>11. NotTooLate(j) /\ SessionMoves /\ TranscriptKept /\ EndMoves(j) /\ ReportMoves(j)
  BY <1>1, <1>2, QuietFacts
<1> QED BY <1>2, <1>5, <1>6, <1>7, <1>8, <1>9, <1>10, <1>11 DEF Moves, Core

LEMMA PrepareStep ==
  ASSUME Inv, NEW w \in Worker, NEW j \in Job, Prepare(w, j)
  PROVE  Moves(j)
<1> DEFINE takes == job[j].kind = "report" \/ job[j].status = "queued"
           rev == IF takes THEN job[j].rev + 1 ELSE job[j].rev
<1>1. /\ WorkTyped /\ job \in [Job -> JobRow] /\ job[j] \in JobRow /\ job[j].rev \in Nat
      /\ session.rev \in Nat /\ stage \in [Worker -> Stage] /\ transcript \in Nat
      /\ delivery[j].open /\ job[j].status # "absent"
  BY Facts, SegmentAssumption DEF Prepare, Receives, Session
<1>2. job[j].status \in Live BY <1>1 DEF Prepare, JobSettled, JobRow, Status
<1>3. rev \in Nat /\ rev >= job[j].rev /\ (rev = job[j].rev => job[j].status = "running")
  BY <1>1, <1>2 DEF Live
<1>4. /\ job' = [job EXCEPT ![j].status = "running", ![j].rev = rev]
      /\ Take(w, j, rev, session.rev)
      /\ stage' = [stage EXCEPT ![w] = [validating |-> FALSE, seen |-> transcript]]
      /\ UNCHANGED <<session, leased, connecting, transcript, performed, cancel>>
      /\ job[j].kind = "report" => MayReport
  BY DEF Prepare
<1> HIDE DEF rev, takes
<1>5. /\ job' \in [Job -> JobRow] /\ job'[j].status = "running" /\ job'[j].rev = rev
      /\ job'[j].kind = job[j].kind /\ \A i \in Job \ {j} : job'[i] = job[i]
  BY <1>3, <1>4, RowFacts DEF Inv, Status, Live
<1>6. Advances(j) /\ Kept(j) BY <1>1, <1>2, <1>3, <1>5 DEF Advances, Kept
<1>7. /\ worker' \in [Worker -> Local]
      /\ worker'[w].job = j /\ worker'[w].targetRev = session.rev
      /\ \A v \in Worker \ {w} : worker'[v] = worker[v]
      /\ delivery' \in [Job -> [open : BOOLEAN, attempt : Nat]]
      /\ \A i \in Job : delivery'[i].open = delivery[i].open
  BY <1>1, <1>3, <1>4, TakeFacts
<1>8. /\ stage' \in [Worker -> Stage] /\ stage'[w].seen = transcript
      /\ \A v \in Worker \ {w} : stage'[v] = stage[v]
  BY <1>1, <1>4 DEF Stage
<1>9. TypeOK' BY <1>4, <1>5, <1>7, <1>8 DEF Inv, TypeOK, WorkTypeOK
<1>10. Delivers(j) BY <1>1, <1>7 DEF Delivers
<1>11. Works(j) BY <1>5, <1>7 DEF Works
<1>12. Reads /\ Publishes(j) BY <1>4 DEF Reads, Publishes
<1>13. Allowed(j, job[j].status, job'[j].status, delivery[j].open, delivery'[j].open)
  BY <1>2, <1>4, <1>5, <1>7 DEF Allowed, Live
<1>14. HandlersMove(j)
  <2>1. Starts(w, j) BY <1>1, <1>4, <1>5, <1>7, <1>8 DEF Starts, MayReport
  <2>2. \A v \in Worker \ {w} : Stays(v) BY <1>7, <1>8 DEF Stays
  <2> QED BY <2>1, <2>2 DEF HandlersMove
<1>15. NotTooLate(j) /\ SessionMoves /\ TranscriptKept /\ EndMoves(j) /\ ReportMoves(j)
  BY <1>1, <1>2, <1>4, <1>5, QuietFacts
<1> QED BY <1>6, <1>9, <1>10, <1>11, <1>12, <1>13, <1>14, <1>15 DEF Moves, Core

\* What both completions do to the Job, its event and the handlers.
LEMMA SucceedsFacts ==
  ASSUME Inv, NEW w \in Worker, Holds(w), Succeeds(w)
  PROVE  LET j == worker[w].job
         IN  /\ j \in Job /\ job[j].status = "running" /\ job'[j].status = "succeeded"
             /\ worker[w].targetRev = session.rev
             /\ WorkTypeOK(JobRow)' /\ stage' \in [Worker -> Stage]
             /\ UNCHANGED <<leased, connecting>>
             /\ Advances(j) /\ Kept(j) /\ job'[j].kind = job[j].kind
             /\ Delivers(j) /\ Works(j) /\ Reads /\ NotTooLate(j)
             /\ Allowed(j, job[j].status, job'[j].status, delivery[j].open, delivery'[j].open)
             /\ HandlersMove(j) /\ Publishes(j)
<1> DEFINE j == worker[w].job
<1>1. /\ j # NoJob /\ job[j].status = "running" /\ worker[w].targetRev = session.rev
      /\ job' = [job EXCEPT ![j] = Closed(j, "succeeded")]
      /\ performed' = performed \cup {j} /\ Leave(w, TRUE)
      /\ UNCHANGED <<leased, connecting, cancel>>
  BY DEF Succeeds, Holds, HoldsJob
<1>2. j \in Job /\ job \in [Job -> JobRow] /\ job[j] \in JobRow /\ job[j].rev \in Nat
  BY <1>1, Facts
<1>3. /\ worker' \in [Worker -> Local] /\ stage' \in [Worker -> Stage]
      /\ \A v \in Worker : worker'[v].job = NoJob \/ Stays(v)
      /\ delivery' \in [Job -> [open : BOOLEAN, attempt : Nat]]
      /\ \A i \in Job \ {j} : delivery'[i].open = delivery[i].open
      /\ delivery'[j].open => delivery[j].open
  BY <1>1, LeaveFacts
<1> HIDE DEF j
<1> DEFINE row == Closed(j, "succeeded")
<1>4. row \in JobRow /\ row.status = "succeeded" /\ row.kind = job[j].kind /\ row.rev > job[j].rev
  BY <1>2, ClosedFacts
<1>5. row.rev \in Nat BY <1>4 DEF JobRow
<1>6. job' = [job EXCEPT ![j] = row] BY <1>1
<1> HIDE DEF row
<1>7. job'[j] = row /\ \A i \in Job \ {j} : job'[i] = job[i] BY <1>2, <1>6
<1>8. job' \in [Job -> JobRow] BY <1>2, <1>4, <1>6
<1>9. Advances(j) /\ Kept(j) BY <1>1, <1>2, <1>4, <1>5, <1>7 DEF Advances, Kept
<1>10. WorkTypeOK(JobRow)' BY <1>1, <1>2, <1>3, <1>8 DEF Inv, TypeOK, WorkTypeOK
<1>11. Delivers(j) BY <1>3 DEF Delivers
<1>12. Works(j) /\ Reads BY <1>1, <1>3 DEF Works, Stays, Reads
<1>13. Allowed(j, job[j].status, job'[j].status, delivery[j].open, delivery'[j].open)
  BY <1>1, <1>3, <1>4, <1>7 DEF Allowed, Live
<1>14. NotTooLate(j) BY <1>4, <1>7 DEF NotTooLate
<1>15. HandlersMove(j) BY <1>3 DEF HandlersMove
<1>16. Publishes(j) BY <1>1, <1>4, <1>7 DEF Publishes
<1> QED BY <1>1, <1>2, <1>3, <1>4, <1>7, <1>9, <1>10, <1>11, <1>12, <1>13, <1>14, <1>15, <1>16 DEF j

LEMMA CompleteEndStep ==
  ASSUME Inv, NEW w \in Worker, CompleteEnd(w)
  PROVE  \E j \in Job : Moves(j)
<1> DEFINE j == worker[w].job
<1>1. /\ Holds(w) /\ job[j].kind = "end" /\ session' = Moved(StatusFor)
      /\ transcript' \in transcript..MaxSegments /\ Succeeds(w)
  BY DEF CompleteEnd
<1>2. /\ j \in Job /\ job[j].status = "running" /\ job'[j].status = "succeeded"
      /\ WorkTypeOK(JobRow)' /\ stage' \in [Worker -> Stage]
      /\ UNCHANGED <<leased, connecting>>
      /\ Advances(j) /\ Kept(j) /\ job'[j].kind = job[j].kind
      /\ Delivers(j) /\ Works(j) /\ Reads /\ NotTooLate(j)
      /\ Allowed(j, job[j].status, job'[j].status, delivery[j].open, delivery'[j].open)
      /\ HandlersMove(j) /\ Publishes(j)
  BY <1>1, SucceedsFacts
<1> HIDE DEF j
<1>3. StatusFor \in Ended /\ session \in Session /\ transcript \in 0..MaxSegments
  BY Facts DEF StatusFor, Ended
<1>4. /\ session' \in Session /\ session'.status \in Ended
      /\ session'.rev = session.rev + 1 /\ session'.pending = NoJob
      /\ session'.report = session.report /\ session'.evidence = session.evidence
  BY <1>1, <1>3, MovedFacts
<1>5. transcript' \in 0..MaxSegments BY <1>1, <1>3, SegmentAssumption
<1>6. TypeOK' BY <1>2, <1>4, <1>5 DEF Inv, TypeOK
<1>7. SessionMoves /\ TranscriptKept
  <2>1. session.rev \in Nat BY <1>3 DEF Session
  <2>2. session'.rev > session.rev BY <1>4, <2>1
  <2>3. session' # session BY <1>4, <2>1
  <2> QED BY <2>2, <2>3 DEF SessionMoves, TranscriptKept
<1>8. session.pending = j /\ session.status = "ending"
  <2>1. session.pending = j BY <1>1, <1>2 DEF Inv, EndingHasJob, Live
  <2> QED BY <1>2, <2>1, JobAssumption DEF Inv, EndingHasJob
<1>9. EndMoves(j) BY <1>2, <1>4, <1>8 DEF EndMoves, EndLive, Ended, Live
<1>10. session.report = NoJob BY <1>8 DEF Inv, ReportIsWhole
<1>11. ReportMoves(j) BY <1>1, <1>2, <1>4, <1>10 DEF ReportMoves, ReportLive, ReportDone
<1> QED BY <1>2, <1>6, <1>7, <1>9, <1>11 DEF Moves, Core

LEMMA CompleteReportStep ==
  ASSUME Inv, NEW w \in Worker, CompleteReport(w)
  PROVE  \E j \in Job : Moves(j)
<1> DEFINE j == worker[w].job
<1>1. /\ Holds(w) /\ job[j].kind = "report" /\ UNCHANGED transcript /\ Succeeds(w)
      /\ session' = [session EXCEPT !.rev = @ + 1, !.report = j, !.evidence = stage[w].seen]
  BY DEF CompleteReport
<1>2. /\ j \in Job /\ job[j].status = "running" /\ job'[j].status = "succeeded"
      /\ worker[w].targetRev = session.rev
      /\ WorkTypeOK(JobRow)' /\ stage' \in [Worker -> Stage]
      /\ UNCHANGED <<leased, connecting>>
      /\ Advances(j) /\ Kept(j) /\ job'[j].kind = job[j].kind
      /\ Delivers(j) /\ Works(j) /\ Reads /\ NotTooLate(j)
      /\ Allowed(j, job[j].status, job'[j].status, delivery[j].open, delivery'[j].open)
      /\ HandlersMove(j) /\ Publishes(j)
  BY <1>1, SucceedsFacts
<1>3. session.status = "completed" /\ session.report = NoJob /\ stage[w].seen = transcript
  BY <1>1, <1>2, JobAssumption DEF Inv, Handlers
<1> HIDE DEF j
<1>4. /\ session' \in Session /\ session'.status = "completed"
      /\ session'.rev = session.rev + 1 /\ session.rev \in Nat
      /\ session'.pending = session.pending
      /\ session'.report = j /\ session'.evidence = transcript
  <2>1. PICK st \in Open \cup {"ending"} \cup Ended, n \in Nat, q \in Job \cup {NoJob},
             r \in Reason, o \in Job \cup {NoJob}, e \in Nat :
          session = [status |-> st, rev |-> n, pending |-> q, reason |-> r,
                     report |-> o, evidence |-> e]
    BY Facts DEF Session
  <2>2. transcript \in Nat BY Facts, SegmentAssumption
  <2> DEFINE g == [session EXCEPT !.rev = n + 1]
             h == [g EXCEPT !.report = j]
  <2>3. g = [status |-> st, rev |-> n + 1, pending |-> q, reason |-> r,
             report |-> o, evidence |-> e]
    BY <2>1
  <2>4. session' = [h EXCEPT !.evidence = transcript] BY <1>1, <1>3, <2>1
  <2> HIDE DEF g
  <2>5. h = [status |-> st, rev |-> n + 1, pending |-> q, reason |-> r,
             report |-> j, evidence |-> e]
    BY <2>3
  <2> HIDE DEF h
  <2>6. session' = [status |-> st, rev |-> n + 1, pending |-> q, reason |-> r,
                    report |-> j, evidence |-> transcript]
    BY <2>4, <2>5
  <2> QED BY <1>2, <1>3, <2>1, <2>2, <2>6 DEF Session
<1>5. TypeOK' BY <1>1, <1>2, <1>4 DEF Inv, TypeOK
<1>6. SessionMoves /\ TranscriptKept BY <1>1, <1>4 DEF SessionMoves, TranscriptKept
<1>7. EndMoves(j) BY <1>1, <1>2, <1>3, <1>4 DEF EndMoves, EndLive
<1>8. ReportMoves(j)
  BY <1>1, <1>2, <1>3, <1>4 DEF ReportMoves, ReportLive, ReportDone, Live
<1> QED BY <1>2, <1>5, <1>6, <1>7, <1>8 DEF Moves, Core

-----------------------------------------------------------------------------
(* Requests.                                                               *)

\* A new row is queued.
LEMMA QueuedFacts ==
  ASSUME Inv, NEW j \in Job, NEW kind \in {"end", "report"}, AddJob(j, Queued(kind)),
         UNCHANGED stage
  PROVE  /\ job[j].status = "absent" /\ job'[j].status = "queued" /\ job'[j].kind = kind
         /\ WorkTypeOK(JobRow)' /\ Advances(j) /\ Kept(j)
         /\ Delivers(j) /\ Works(j) /\ Reads /\ NotTooLate(j)
         /\ Allowed(j, job[j].status, job'[j].status, delivery[j].open, delivery'[j].open)
         /\ HandlersMove(j) /\ Publishes(j)
<1>1. WorkTyped /\ job \in [Job -> JobRow] BY Facts
<1>2. /\ job[j].status = "absent" /\ job' = [job EXCEPT ![j] = Queued(kind)]
      /\ UNCHANGED <<worker, performed, cancel>>
      /\ delivery' \in [Job -> [open : BOOLEAN, attempt : Nat]]
      /\ delivery'[j].open
      /\ \A i \in Job \ {j} : delivery'[i].open = delivery[i].open
  BY <1>1, AddFacts
<1>3. /\ Queued(kind) \in JobRow /\ Queued(kind).status = "queued" /\ Queued(kind).kind = kind
      /\ Queued(kind).rev = 1
  BY DEF Queued, JobRow, Status, Live
<1> HIDE DEF Queued
<1>4. job' \in [Job -> JobRow] BY <1>1, <1>2, <1>3
<1>5. job'[j] = Queued(kind) /\ \A i \in Job \ {j} : job'[i] = job[i] BY <1>1, <1>2
<1>6. Advances(j) /\ Kept(j) BY <1>2, <1>3, <1>5 DEF Advances, Kept
<1>7. WorkTypeOK(JobRow)' BY <1>1, <1>2, <1>4 DEF WorkTypeOK, WorkTyped
<1>8. Delivers(j) BY <1>2, <1>3, <1>5 DEF Delivers
<1>9. Works(j) /\ Reads /\ Publishes(j) BY <1>2 DEF Works, Reads, Publishes
<1>10. Allowed(j, job[j].status, job'[j].status, delivery[j].open, delivery'[j].open)
  BY <1>2, <1>3, <1>5 DEF Allowed
<1>11. NotTooLate(j) BY <1>3, <1>5 DEF NotTooLate
<1>12. HandlersMove(j) BY <1>2 DEF HandlersMove, Stays
<1> QED BY <1>2, <1>3, <1>5, <1>6, <1>7, <1>8, <1>9, <1>10, <1>11, <1>12

LEMMA RequestEndStep ==
  ASSUME Inv, NEW j \in Job, NEW reason \in Reason, RequestEnd(j, reason)
  PROVE  Moves(j)
<1>1. /\ session.status \in Open /\ AddJob(j, Queued("end"))
      /\ session' = [Moved("ending") EXCEPT !.pending = j, !.reason = reason]
      /\ UNCHANGED <<leased, connecting, transcript, stage>>
  BY DEF RequestEnd
<1>2. /\ job[j].status = "absent" /\ job'[j].status = "queued" /\ job'[j].kind = "end"
      /\ WorkTypeOK(JobRow)' /\ Advances(j) /\ Kept(j)
      /\ Delivers(j) /\ Works(j) /\ Reads /\ NotTooLate(j)
      /\ Allowed(j, job[j].status, job'[j].status, delivery[j].open, delivery'[j].open)
      /\ HandlersMove(j) /\ Publishes(j)
  BY <1>1, QueuedFacts
<1>3. session \in Session /\ session.rev \in Nat BY Facts DEF Session
<1>4. /\ session' \in Session /\ session'.status = "ending"
      /\ session'.rev = session.rev + 1 /\ session'.pending = j
      /\ session'.report = session.report /\ session'.evidence = session.evidence
  <2> DEFINE m == Moved("ending")
             g == [m EXCEPT !.pending = j]
  <2>1. /\ m \in Session /\ m.status = "ending" /\ m.rev = session.rev + 1
        /\ m.report = session.report /\ m.evidence = session.evidence
    BY <1>3, MovedFacts
  <2>2. session' = [g EXCEPT !.reason = reason] BY <1>1
  <2> HIDE DEF m
  <2>3. /\ g \in Session /\ g.status = m.status /\ g.rev = m.rev /\ g.pending = j
        /\ g.report = m.report /\ g.evidence = m.evidence
    BY <2>1 DEF Session
  <2> HIDE DEF g
  <2>4. /\ session' \in Session /\ session'.status = g.status /\ session'.rev = g.rev
        /\ session'.pending = g.pending
        /\ session'.report = g.report /\ session'.evidence = g.evidence
    BY <2>2, <2>3 DEF Session
  <2> QED BY <2>1, <2>3, <2>4
<1>5. TypeOK' BY <1>1, <1>2, <1>4 DEF Inv, TypeOK
<1>6. SessionMoves /\ TranscriptKept BY <1>1, <1>3, <1>4 DEF SessionMoves, TranscriptKept
<1>7. session.pending = NoJob /\ session.report = NoJob
  BY <1>1 DEF Inv, EndingHasJob, ReportIsWhole, Open
<1>8. EndMoves(j) BY <1>2, <1>4, <1>7 DEF EndMoves, EndLive, Live
<1>9. ReportMoves(j) BY <1>2, <1>4, <1>7 DEF ReportMoves, ReportLive, ReportDone
<1> QED BY <1>2, <1>5, <1>6, <1>8, <1>9 DEF Moves, Core

LEMMA RequestReportStep ==
  ASSUME Inv, NEW j \in Job, RequestReport(j)
  PROVE  Moves(j)
<1>1. /\ session.report = NoJob /\ Reports(Live) = {} /\ AddJob(j, Queued("report"))
      /\ UNCHANGED <<session, leased, connecting, transcript, stage>>
  BY DEF RequestReport, MayReport, iVars
<1>2. /\ job[j].status = "absent" /\ job'[j].status = "queued" /\ job'[j].kind = "report"
      /\ WorkTypeOK(JobRow)' /\ Advances(j) /\ Kept(j)
      /\ Delivers(j) /\ Works(j) /\ Reads /\ NotTooLate(j)
      /\ Allowed(j, job[j].status, job'[j].status, delivery[j].open, delivery'[j].open)
      /\ HandlersMove(j) /\ Publishes(j)
  BY <1>1, QueuedFacts
<1>3. TypeOK' BY <1>1, <1>2 DEF Inv, TypeOK
<1>4. SessionMoves /\ TranscriptKept BY <1>1 DEF SessionMoves, TranscriptKept
<1>5. EndMoves(j) BY <1>1, <1>2 DEF EndMoves, EndLive, Live
<1>6. ReportMoves(j) BY <1>1, <1>2 DEF ReportMoves, ReportLive, ReportDone, Live
<1> QED BY <1>2, <1>3, <1>4, <1>5, <1>6 DEF Moves, Core

LEMMA ReadStep ==
  ASSUME Inv, NEW j \in Job, ReadForCancel(j), UNCHANGED iVars
  PROVE  Moves(j)
<1>1. WorkTyped /\ job \in [Job -> JobRow] /\ job[j].rev \in Nat /\ job[j].status # "absent"
  BY Facts DEF ReadForCancel, Cancels, Live
<1>2. cancel' \in Read /\ Reads /\ UNCHANGED <<job, delivery, worker, performed>>
  BY <1>1, ReadFacts
<1>3. UNCHANGED <<session, leased, connecting, transcript, stage>> BY DEF iVars
<1>4. TypeOK' BY <1>2, <1>3 DEF Inv, TypeOK, WorkTypeOK
<1>5. Advances(j) /\ Kept(j) BY <1>1, <1>2 DEF Advances, Kept
<1>6. Delivers(j) /\ Works(j) BY <1>2 DEF Delivers, Works
<1>7. Allowed(j, job[j].status, job'[j].status, delivery[j].open, delivery'[j].open)
  BY <1>2 DEF Allowed
<1>8. HandlersMove(j) /\ Publishes(j) BY <1>2, <1>3 DEF HandlersMove, Stays, Publishes
<1>9. NotTooLate(j) /\ SessionMoves /\ TranscriptKept /\ EndMoves(j) /\ ReportMoves(j)
  BY <1>1, <1>2, <1>3, QuietFacts
<1> QED BY <1>2, <1>4, <1>5, <1>6, <1>7, <1>8, <1>9 DEF Moves, Core

LEMMA CancelStep ==
  ASSUME Inv, Cancel
  PROVE  \E j \in Job : Moves(j)
<1> DEFINE j == cancel.job
<1>1. /\ WorkTyped /\ job \in [Job -> JobRow] /\ session \in Session /\ session.rev \in Nat
      /\ j # NoJob /\ cancel' = NoRead /\ NoRead \in Read
      /\ UNCHANGED <<leased, connecting, transcript, stage, delivery, worker, performed>>
  BY Facts DEF Cancel, NoRead, Read, Session
<1>2. j \in Job /\ job[j] \in JobRow /\ job[j].rev \in Nat BY <1>1, Facts DEF WorkTyped, Read
<1>3. job[j].status # "absent" BY <1>1 DEF Inv, WorkInv
<1>4. \/ UNCHANGED <<job, session>>
      \/ /\ Swaps(j) /\ Cancellable(j) /\ job' = Withdrawn(j)
         /\ session' = IF job[j].kind = "end" THEN Moved("cancelled") ELSE session
  BY DEF Cancel
<1>5. Swaps(j) => job[j].status = cancel.status /\ cancel.status \in Live
  BY <1>1, SwapIsLive DEF Inv
<1>6. Cancellable(j) =>
        IF job[j].kind = "end"
        THEN session.status = "ending" /\ session.pending = j /\ cancel.status = "queued"
        ELSE session.status = "completed" /\ session.report = NoJob
  BY DEF Cancellable, Bound
<1> HIDE DEF j
<1>7. /\ Delivers(j) /\ Works(j) /\ Reads /\ HandlersMove(j) /\ Publishes(j)
  BY <1>1 DEF Delivers, Works, Reads, HandlersMove, Stays, Publishes
<1>8. CASE UNCHANGED <<job, session>>
  <2>1. TypeOK' BY <1>1, <1>8 DEF Inv, TypeOK, WorkTypeOK
  <2>2. Advances(j) /\ Kept(j) BY <1>1, <1>2, <1>8 DEF Advances, Kept
  <2>3. Allowed(j, job[j].status, job'[j].status, delivery[j].open, delivery'[j].open)
    BY <1>1, <1>8 DEF Allowed
  <2>4. NotTooLate(j) /\ SessionMoves /\ TranscriptKept /\ EndMoves(j) /\ ReportMoves(j)
    BY <1>1, <1>2, <1>3, <1>8, QuietFacts
  <2> QED BY <1>2, <1>7, <2>1, <2>2, <2>3, <2>4 DEF Moves, Core
<1>9. CASE /\ Swaps(j) /\ Cancellable(j) /\ job' = Withdrawn(j)
           /\ session' = IF job[j].kind = "end" THEN Moved("cancelled") ELSE session
  <2>1. job[j].status \in Live /\ job[j].status = cancel.status BY <1>5, <1>9
  <2>2. /\ job' \in [Job -> JobRow] /\ job'[j].status = "cancelled"
        /\ job'[j].kind = job[j].kind
        /\ job'[j].rev = job[j].rev + 1 /\ \A i \in Job \ {j} : job'[i] = job[i]
    <3> DEFINE g == [job EXCEPT ![j].status = "cancelled"]
    <3>2. g[j].rev = job[j].rev BY <1>1, <1>2 DEF JobRow
    <3>3. job' = [g EXCEPT ![j].rev = g[j].rev + 1] BY <1>9 DEF Withdrawn
    <3>1. job' = [job EXCEPT ![j].status = "cancelled", ![j].rev = job[j].rev + 1]
      BY <3>2, <3>3
    <3> HIDE DEF g
    <3> DEFINE n == job[j].rev + 1
    <3>4. n \in Nat /\ "cancelled" \in Status BY <1>2 DEF Status, Settled
    <3>5. job' = [job EXCEPT ![j].status = "cancelled", ![j].rev = n] BY <3>1
    <3>6. job'[j].rev = n => job'[j].rev = job[j].rev + 1 OBVIOUS
    <3> HIDE DEF n
    <3>7. TypeOK BY DEF Inv
    <3>8. j \in Job BY <1>2
    <3>9. /\ job' \in [Job -> JobRow] /\ job'[j].status = "cancelled" /\ job'[j].rev = n
          /\ job'[j].kind = job[j].kind
          /\ \A i \in Job \ {j} : job'[i] = job[i]
      BY <3>4, <3>5, <3>7, <3>8, RowFacts
    <3> QED BY <3>6, <3>9
  <2>3. Advances(j) /\ Kept(j) BY <1>2, <2>1, <2>2 DEF Advances, Kept
  <2>4. /\ Moved("cancelled") \in Session /\ Moved("cancelled").status = "cancelled"
        /\ Moved("cancelled").rev = session.rev + 1 /\ Moved("cancelled").pending = NoJob
        /\ Moved("cancelled").report = session.report
        /\ Moved("cancelled").evidence = session.evidence
    BY <1>1, MovedFacts DEF Ended
  <2> HIDE DEF Moved
  <2>5. TypeOK' BY <1>1, <1>9, <2>2, <2>4 DEF Inv, TypeOK, WorkTypeOK
  <2>6. job[j].kind \in {"end", "report"} BY <1>2 DEF JobRow
  <2>7. j \notin performed BY <1>6, <1>9, <2>1, <2>6 DEF Inv, Published, Live
  <2>8. Allowed(j, job[j].status, job'[j].status, delivery[j].open, delivery'[j].open)
    BY <1>1, <2>1, <2>2, <2>7 DEF Allowed
  <2>9. SessionMoves /\ TranscriptKept
    BY <1>1, <1>9, <2>4 DEF SessionMoves, TranscriptKept
  <2>10. NotTooLate(j) BY <1>6, <1>9, <2>1, <2>6 DEF NotTooLate
  <2>11. EndMoves(j) BY <1>6, <1>9, <2>2, <2>4, <2>6 DEF EndMoves, EndLive, Live
  <2>12. ReportMoves(j)
    <3>1. job[j].kind = "end" => session.report = NoJob BY <1>6, <1>9 DEF Inv, ReportIsWhole
    <3>2. ~ReportLive(job'[j]) /\ ~ReportDone(job'[j]) /\ ~ReportDone(job[j])
      BY <2>1, <2>2 DEF ReportLive, ReportDone, Live
    <3> QED BY <1>1, <1>9, <2>4, <2>6, <3>1, <3>2 DEF ReportMoves
  <2> QED
    BY <1>2, <1>7, <2>3, <2>5, <2>8, <2>9, <2>10, <2>11, <2>12 DEF Moves, Core
<1> QED BY <1>4, <1>8, <1>9

-----------------------------------------------------------------------------
(* Realtime: the Jobs are left alone.                                      *)
LEMMA RealtimeStep ==
  ASSUME Inv, Realtime \/ UNCHANGED vars
  PROVE  Inv' /\ UNCHANGED <<Statuses, performed, Events>>
<1>1. UNCHANGED <<job, delivery, worker, performed, cancel, stage>>
  BY DEF Realtime, Issue, CommitConnection, MediaStarted, Utter, jobVars, vars
<1>2. session \in Session /\ session.rev \in Nat BY Facts DEF Session
<1>3. \A to \in {"connecting", "active"} :
        /\ Moved(to) \in Session /\ Moved(to).status = to
        /\ Moved(to).rev = session.rev + 1 /\ Moved(to).pending = NoJob
        /\ Moved(to).report = session.report
  BY <1>2, MovedFacts DEF Open
<1>4. \/ session' = session /\ (transcript' = transcript \/ session.status = "active")
      \/ /\ transcript' = transcript /\ session.status \in {"created", "connecting"}
         /\ session' \in Session /\ session'.status \in {"connecting", "active"}
         /\ session'.rev > session.rev /\ session'.pending = NoJob
         /\ session'.report = session.report
  <2>1. CASE Issue BY <2>1 DEF Issue
  <2>2. CASE CommitConnection
    <3>1. CASE session.status = "created" /\ session' = Moved("connecting")
      BY <1>2, <1>3, <2>2, <3>1 DEF CommitConnection
    <3>2. CASE session' = session BY <2>2, <3>2 DEF CommitConnection
    <3> QED BY <2>2, <3>1, <3>2 DEF CommitConnection
  <2>3. CASE MediaStarted BY <1>2, <1>3, <2>3 DEF MediaStarted
  <2>4. CASE Utter BY <2>4 DEF Utter, Accepts
  <2>5. CASE UNCHANGED vars BY <2>5 DEF vars
  <2> QED BY <2>1, <2>2, <2>3, <2>4, <2>5 DEF Realtime
<1>5. leased' \in BOOLEAN /\ connecting' \in Nat /\ transcript' \in 0..MaxSegments
  <2>1. /\ leased \in BOOLEAN /\ connecting \in Nat /\ transcript \in 0..MaxSegments
    BY Facts
  <2>2. CASE Issue BY <1>2, <2>1, <2>2 DEF Issue
  <2>3. CASE CommitConnection BY <2>1, <2>3 DEF CommitConnection
  <2>4. CASE MediaStarted BY <2>1, <2>4 DEF MediaStarted
  <2>5. CASE Utter
    <3>1. transcript' = transcript + 1 /\ transcript < MaxSegments /\ UNCHANGED <<leased, connecting>>
      BY <2>5 DEF Utter
    <3> QED BY <2>1, <3>1, SegmentAssumption
  <2>6. CASE UNCHANGED vars BY <2>1, <2>6 DEF vars
  <2> QED BY <2>2, <2>3, <2>4, <2>5, <2>6 DEF Realtime
<1>6. TypeOK' BY <1>1, <1>2, <1>4, <1>5 DEF Inv, TypeOK, WorkTypeOK
<1>7. WorkInv' /\ Published' BY <1>1 DEF Inv, WorkInv, Published
<1>8. CASE session' = session /\ (transcript' = transcript \/ session.status = "active")
  <2>1. EndingHasJob' BY <1>1, <1>8 DEF Inv, EndingHasJob
  <2>2. ReportIsWhole' /\ NoReport' BY <1>1, <1>8 DEF Inv, ReportIsWhole, NoReport, Reports
  <2>3. Handlers' BY <1>1, <1>8 DEF Inv, Handlers
  <2> QED BY <1>1, <1>6, <1>7, <2>1, <2>2, <2>3 DEF Inv, Statuses, Events
<1>9. CASE /\ transcript' = transcript /\ session.status \in {"created", "connecting"}
           /\ session' \in Session /\ session'.status \in {"connecting", "active"}
           /\ session'.rev > session.rev /\ session'.pending = NoJob
           /\ session'.report = session.report
  <2>1. session.pending = NoJob /\ session.report = NoJob
    BY <1>9 DEF Inv, EndingHasJob, ReportIsWhole
  <2>2. EndingHasJob' BY <1>1, <1>9, <2>1 DEF Inv, EndingHasJob
  <2>3. ReportIsWhole' /\ NoReport'
    BY <1>1, <1>9, <2>1 DEF Inv, ReportIsWhole, NoReport, Reports
  <2>4. Handlers'
    <3> SUFFICES ASSUME NEW w \in Worker, worker[w].job # NoJob
                 PROVE  /\ job[worker[w].job].status \notin {"absent", "queued"}
                        /\ job[worker[w].job].kind = "end" => job[worker[w].job].status # "cancelled"
                        /\ worker[w].targetRev <= session'.rev /\ worker[w].targetRev # session'.rev
      BY <1>1 DEF Handlers
    <3>1. worker[w].targetRev \in Nat /\ session'.rev \in Nat
      BY <1>9 DEF Inv, TypeOK, WorkTypeOK, Local, Session
    <3>2. worker[w].targetRev <= session.rev BY DEF Inv, Handlers
    <3> QED BY <1>2, <1>9, <3>1, <3>2 DEF Inv, Handlers
  <2> QED BY <1>1, <1>6, <1>7, <2>2, <2>3, <2>4 DEF Inv, Statuses, Events
<1> QED BY <1>4, <1>8, <1>9

\* Every step keeps the invariant and is a step of UnifiedJob or none.
LEMMA Step ==
  ASSUME Inv, [Next]_vars
  PROVE  Inv' /\ [Unified!JNext]_<<Statuses, performed, Events>>
<1>1. CASE Realtime \/ UNCHANGED vars BY <1>1, RealtimeStep
<1>2. CASE Cancel BY <1>2, CancelStep, MovesKeep
<1>3. ASSUME NEW j \in Job, Requests(j) \/ Receive(j) \/ Exhaust(j)
      PROVE  Moves(j)
  <2>1. CASE \E reason \in Reason : RequestEnd(j, reason) BY <2>1, RequestEndStep
  <2>2. CASE RequestReport(j) BY <2>2, RequestReportStep
  <2>3. CASE ReadForCancel(j) /\ UNCHANGED iVars BY <2>3, ReadStep
  <2>4. CASE ReceiveNothing(j) BY <2>4, ReceiveNothingStep
  <2>5. CASE \E w \in Worker : Prepare(w, j) BY <2>5, PrepareStep
  <2>6. CASE Exhaust(j) BY <2>6, ExhaustStep
  <2> QED BY <1>3, <2>1, <2>2, <2>3, <2>4, <2>5, <2>6 DEF Requests, Receive
<1>4. ASSUME NEW w \in Worker, Ends(w)
      PROVE  \E j \in Job : Moves(j)
  <2>1. CASE Finalize(w) BY <2>1, FinalizeStep
  <2>2. CASE ReportProgress(w) BY <2>2, ProgressStep
  <2>3. CASE CompleteEnd(w) BY <2>3, CompleteEndStep
  <2>4. CASE CompleteReport(w) BY <2>4, CompleteReportStep
  <2>5. CASE Fail(w) \/ Conflict(w) \/ GiveUp(w) BY <2>5, FailStep
  <2>6. CASE Raise(w) BY <2>6, RaiseStep
  <2> QED BY <1>4, <2>1, <2>2, <2>3, <2>4, <2>5, <2>6 DEF Ends
<1> QED BY <1>1, <1>2, <1>3, <1>4, MovesKeep DEF Next

LEMMA InitInv == Init => Inv
<1> SUFFICES ASSUME Init PROVE Inv OBVIOUS
<1>1. NoRow \in JobRow /\ NoRow.status = "absent" BY DEF NoRow, JobRow, Status
<1>2. /\ session \in Session /\ session.status = "created" /\ session.pending = NoJob
      /\ session.report = NoJob
  BY DEF Init, Session, Open, Reason
<1>3. WorkTypeOK(JobRow) BY <1>1 DEF Init, WorkInit, WorkTypeOK, Idle, Local, NoRead, Read
<1>4. TypeOK
  <2>1. transcript \in 0..MaxSegments BY SegmentAssumption DEF Init
  <2>2. stage \in [Worker -> Stage] BY DEF Init, Fresh, Stage
  <2>3. leased \in BOOLEAN /\ connecting \in Nat BY DEF Init
  <2> QED BY <1>2, <1>3, <2>1, <2>2, <2>3 DEF TypeOK
<1>5. /\ \A j \in Job : job[j].status = "absent" /\ ~delivery[j].open
      /\ \A w \in Worker : worker[w].job = NoJob
      /\ cancel.job = NoJob /\ performed = {}
  BY <1>1 DEF Init, WorkInit, Idle, NoRead
<1>6. WorkInv /\ Handlers /\ Published BY <1>5 DEF WorkInv, Handlers, Published
<1>7. EndingHasJob BY <1>2, <1>5, JobAssumption DEF EndingHasJob, Live
<1>8. ReportIsWhole /\ NoReport BY <1>2, <1>5 DEF ReportIsWhole, NoReport, Reports, Live
<1> QED BY <1>4, <1>6, <1>7, <1>8 DEF Inv

-----------------------------------------------------------------------------
(* THEOREMS                                                                *)

\* Every reachable state satisfies the inductive invariant, whatever handlers are
\* lost, delayed or started again.
THEOREM Inductive == Spec => []Inv
<1>1. Init => Inv BY InitInv
<1>2. Inv /\ [Next]_vars => Inv' BY Step
<1> QED BY <1>1, <1>2, PTL DEF Spec

\* The variables keep their types.
THEOREM TypeCorrect == Spec => []TypeOK
<1>1. Inv => TypeOK BY DEF Inv
<1> QED BY <1>1, Inductive, PTL

\* No handler, exhaustion hook or cancellation ends an ending session or its end Job
\* without the other.
THEOREM EndingStaysAligned == Spec => []EndingHasJob
<1>1. Inv => EndingHasJob BY DEF Inv
<1> QED BY <1>1, Inductive, PTL

\* A session's one Report was made from its whole transcript.
THEOREM ReportStaysWhole == Spec => []ReportIsWhole
<1>1. Inv => ReportIsWhole BY DEF Inv
<1> QED BY <1>1, Inductive, PTL

\* The Jobs of a session keep what GET and DELETE /jobs/{id} promise.
THEOREM InterviewJobsImplement == Spec => Implements
<1>1. Init => Unified!JInit
  <2>1. NoRow.status = "absent" BY DEF NoRow
  <2>2. ASSUME Init PROVE Statuses = [j \in Job |-> "absent"] /\ performed = {} /\ Events = {}
    BY <2>1, <2>2 DEF Init, WorkInit, Statuses, Events
  <2> QED BY <2>2 DEF Unified!JInit, Statuses, Events
<1>2. Inv /\ [Next]_vars => [Unified!JNext]_<<Statuses, performed, Events>> BY Step
<1>3. Inv /\ [Next]_vars => [Unified!JNext]_(Unified!jVars)
  BY <1>2 DEF Unified!jVars, Statuses, Events
<1> QED BY <1>1, <1>3, Inductive, PTL DEF Spec, Implements, Unified!JSpec
=============================================================================
