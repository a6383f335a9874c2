-------------------------- MODULE KnowledgeJobsProofs --------------------------
(***************************************************************************)
(* Theorems about the Jobs of a Knowledge source or Connection, for any    *)
(* number of Jobs, handlers, attempts, versions and edits.                 *)
(***************************************************************************)
EXTENDS KnowledgeJobs, JobWorkProofs

Leaving == {"deleting", "revoking"}
Gone    == {"deleted", "revoked"}

RemovalLive(row) == row.kind = "remove" /\ row.status \in Live

\* A live removal is the only one, and its target waits for it, disabled.
OneRemoval ==
  /\ \A j \in Job : RemovalLive(job[j]) => target.state \in Leaving /\ ~target.enabled
  /\ \A i, j \in Job : RemovalLive(job[i]) /\ RemovalLive(job[j]) => i = j

\* A removal a handler has started, or performed: the target is out of use, and
\* no removal still to be cancelled remembers it otherwise.
Begun(j) == job[j].kind = "remove" /\ (j \in performed \/ \E w \in Worker : worker[w].job = j)
Touched  == \E j \in Job : Begun(j)
TouchedIsOut == Touched =>
  /\ ~target.enabled /\ target.state \in Removal \cup {"failed"}
  /\ \A j \in Job : RemovalLive(job[j]) /\ job[j].status = "queued" =>
       job[j].prev = "failed" /\ ~job[j].enabled

\* A handler's Job was started, a removal that was started is never withdrawn, and
\* a handler whose revision is the target's sees the target as it left it.
Handlers == \A w \in Worker : worker[w].job # NoJob =>
  /\ job[worker[w].job].status \notin {"absent", "queued"}
  /\ job[worker[w].job].kind = "remove" => job[worker[w].job].status # "cancelled"
  /\ worker[w].targetRev <= target.rev
  /\ worker[w].targetRev = target.rev =>
       target.state \in (IF job[worker[w].job].kind = "remove" THEN Leaving ELSE {"fetching"})

\* What is published or performed was so by a Job that was started.
Published == \A j \in performed :
  /\ job[j].status \in {"running", "succeeded", "failed"}
  /\ job[j].kind \in Process => job[j].status = "succeeded"

\* Only a Connection is revoked; a file source keeps its first version.
Shape == /\ target.state \in {"revoking", "revoked"} => ~IsSource
         /\ target.type = "file" => version # <<>>

\* A removed target was removed by a handler, and has no index.
GoneIsErased == target.state \in Gone =>
  Removed /\ \A v \in DOMAIN version : ~version[v].chunks

Inv == /\ TypeOK /\ WorkInv /\ OneRemoval /\ TouchedIsOut /\ Handlers /\ Published
       /\ Shape /\ GoneIsErased /\ InCharge

-----------------------------------------------------------------------------
\* The facts a step starts from.
LEMMA Facts ==
  ASSUME Inv
  PROVE  /\ WorkTyped /\ job \in [Job -> JobRow] /\ target \in Target /\ target.rev \in Nat
         /\ version \in Seq(Version) /\ edits \in 0..MaxEdits
         /\ \A j \in Job : job[j] \in JobRow /\ job[j].rev \in Nat
         /\ \A j \in Job : delivery[j].open => job[j].status # "absent"
         /\ \A w \in Worker : worker[w].job # NoJob =>
              worker[w].job \in Job /\ job[worker[w].job].status \notin {"absent", "queued"}
<1>1. \A w \in Worker : worker[w].job \in Job \cup {NoJob}
  BY DEF Inv, TypeOK, WorkTypeOK, Local
<1> QED BY <1>1 DEF Inv, TypeOK, WorkTypeOK, WorkTyped, WorkInv, Handlers, JobRow, Target

\* The target after one of its transitions.
LEMMA MovedFacts ==
  ASSUME target \in Target, NEW to \in Active \cup Stable \cup Removal
  PROVE  /\ Moved(to) \in Target /\ Moved(to).state = to /\ Moved(to).rev = target.rev + 1
         /\ Moved(to).enabled = target.enabled /\ Moved(to).type = target.type
         /\ Moved(to).current = target.current /\ Moved(to).indexed = target.indexed
<1> DEFINE g == [target EXCEPT !.state = to]
<1>1. /\ g \in Target /\ g.state = to /\ g.rev = target.rev /\ g.rev \in Nat
      /\ g.enabled = target.enabled /\ g.type = target.type
      /\ g.current = target.current /\ g.indexed = target.indexed
  BY DEF Target
<1>2. Moved(to) = [g EXCEPT !.rev = g.rev + 1] BY DEF Moved
<1> HIDE DEF g
<1> QED BY <1>1, <1>2 DEF Target

\* A closed row keeps what it was asked for, and has a later revision.
LEMMA ClosedFacts ==
  ASSUME NEW row \in JobRow, NEW j \in Job, job[j] = row,
         NEW how \in {"succeeded", "failed", "cancelled"}
  PROVE  /\ Closed(j, how) \in JobRow /\ Closed(j, how).status = how
         /\ Closed(j, how).kind = row.kind /\ Closed(j, how).rev > row.rev
         /\ StartedAndClosed(j, how) \in JobRow /\ StartedAndClosed(j, how).status = how
         /\ StartedAndClosed(j, how).kind = row.kind /\ StartedAndClosed(j, how).rev > row.rev
<1>1. how \in Status BY DEF Status, Settled
<1> DEFINE g == [row EXCEPT !.status = how]
           c == Closed(j, how)
<1>2. g \in JobRow /\ g.status = how /\ g.kind = row.kind /\ g.rev = row.rev /\ g.rev \in Nat
  BY <1>1 DEF JobRow
<1>3. c = [g EXCEPT !.rev = g.rev + 1] BY DEF Closed
<1> HIDE DEF g
<1>4. c \in JobRow /\ c.status = how /\ c.kind = row.kind /\ c.rev = row.rev + 1 /\ row.rev \in Nat
  BY <1>2, <1>3 DEF JobRow
<1> HIDE DEF c
<1> DEFINE n == IF row.status = "queued" THEN c.rev + 1 ELSE c.rev
           s == [c EXCEPT !.rev = n]
<1>5. n \in Nat /\ n > row.rev BY <1>4
<1>6. StartedAndClosed(j, how) = s BY DEF StartedAndClosed, c
<1> HIDE DEF n
<1>7. s \in JobRow /\ s.status = how /\ s.kind = row.kind /\ s.rev = n BY <1>4, <1>5 DEF JobRow
<1> HIDE DEF s
<1> QED BY <1>4, <1>5, <1>6, <1>7 DEF c

\* A row that takes another status at the next revision.
LEMMA RowFacts ==
  ASSUME Inv, NEW j \in Job, NEW to \in Status,
         job' = [job EXCEPT ![j].status = to, ![j].rev = @ + 1]
  PROVE  /\ job' \in [Job -> JobRow] /\ job'[j].status = to /\ job'[j].rev = job[j].rev + 1
         /\ job'[j].kind = job[j].kind
         /\ \A i \in Job \ {j} : job'[i] = job[i]
<1>1. job \in [Job -> JobRow] /\ job[j] \in JobRow BY Facts
<1> DEFINE g == [job EXCEPT ![j].status = to]
           r == [job[j] EXCEPT !.status = to]
<1>2. r \in JobRow /\ r.status = to /\ r.kind = job[j].kind /\ r.rev = job[j].rev /\ r.rev \in Nat
  BY <1>1 DEF JobRow
<1>3. g = [job EXCEPT ![j] = r] OBVIOUS
<1> HIDE DEF r
<1>4. g[j] = r /\ DOMAIN g = Job /\ \A i \in Job \ {j} : g[i] = job[i] BY <1>1, <1>3
<1>5. job' = [g EXCEPT ![j].rev = g[j].rev + 1] OBVIOUS
<1> HIDE DEF g
<1> DEFINE s == [r EXCEPT !.rev = r.rev + 1]
<1>6. s \in JobRow /\ s.status = to /\ s.kind = job[j].kind /\ s.rev = job[j].rev + 1
  BY <1>2 DEF JobRow
<1>7. job' = [g EXCEPT ![j] = s] BY <1>4, <1>5
<1> HIDE DEF s
<1>8. job' = [i \in Job |-> IF i = j THEN s ELSE job[i]] BY <1>4, <1>7
<1>9. job'[j] = s /\ \A i \in Job \ {j} : job'[i] = job[i] BY <1>8
<1>10. job' \in [Job -> JobRow] BY <1>1, <1>6, <1>8
<1> QED BY <1>6, <1>9, <1>10

-----------------------------------------------------------------------------
(* What a step of one Job does to it, its handlers and its target.         *)
Kept(j) == /\ job[j].status # "absent" => job'[j].kind = job[j].kind
           /\ job'[j].status = "queued" => job'[j] = job[j] \/ job[j].status = "absent"
           /\ JobSettled(j) => job'[j] = job[j]

Core(j) == /\ TypeOK' /\ Advances(j) /\ Delivers(j) /\ Works(j) /\ Reads /\ Kept(j)
           /\ Allowed(j, job[j].status, job'[j].status, delivery[j].open, delivery'[j].open)

\* A removal that has started is not withdrawn.
NotTooLate(j) == job'[j].status = "cancelled" =>
  job[j].status \in {"queued", "cancelled"} \/ job[j].kind \in Process

TargetMoves == /\ target'.type = target.type
               /\ target' = target \/ target'.rev > target.rev

Runs(row) == row.kind \in Process /\ row.status = "running"

\* The target's state: kept, moved while in use, failed, waiting to be removed, given
\* back by a cancelled removal, or gone.
Still(j) ==
  /\ target'.state = target.state /\ target'.enabled = target.enabled /\ version' = version
  /\ RemovalLive(job'[j]) => RemovalLive(job[j])
  /\ target.state = "fetching" /\ Runs(job[j]) => Runs(job'[j])
  /\ target.state = "revoking" /\ RemovalLive(job[j]) => RemovalLive(job'[j])
InUse(j) ==
  /\ target.state \in Active \/ (target.state \in Stable /\ target.enabled)
  /\ target'.state \in Active \cup Stable /\ target'.enabled = target.enabled
  /\ target'.state = "fetching" => Runs(job'[j])
  /\ ~RemovalLive(job'[j])
Fails(j) ==
  /\ target.state \in Active \/ RemovalLive(job[j])
  /\ target'.state = "failed" /\ target'.enabled = target.enabled
  /\ ~RemovalLive(job'[j])
Requested(j) ==
  /\ target.state \notin Removal /\ target'.state \in Leaving /\ ~target'.enabled
  /\ target'.state = "revoking" => ~IsSource
  /\ job[j].status = "absent" /\ RemovalLive(job'[j])
  /\ job'[j].enabled = target.enabled
  /\ target.state = "failed" => job'[j].prev = "failed"
Restored(j) ==
  /\ RemovalLive(job[j]) /\ job[j].status = "queued" /\ ~RemovalLive(job'[j])
  /\ target'.state = job[j].prev /\ target'.enabled = job[j].enabled
Erased(j) ==
  /\ RemovalLive(job[j]) /\ j \in performed /\ ~RemovalLive(job'[j])
  /\ target'.state \in Gone /\ target'.enabled = target.enabled
  /\ target'.state = "revoked" => ~IsSource
  /\ \A v \in DOMAIN version' : ~version'[v].chunks
StateMoves(j) == Still(j) \/ InUse(j) \/ Fails(j) \/ Requested(j) \/ Restored(j) \/ Erased(j)

\* A handler goes, keeps what it has read, or starts with the target as it leaves it.
Stays(v)     == /\ worker'[v].job = worker[v].job /\ worker'[v].targetRev = worker[v].targetRev
Starts(v, j) ==
  /\ worker'[v].job = j /\ job[j].status \in Live /\ job'[j].status = "running"
  /\ worker'[v].targetRev = target'.rev
  /\ IF job[j].kind = "remove" THEN Still(j) /\ target.state \in Leaving
     ELSE target'.state = "fetching"
HandlersMove(j) == \A v \in Worker : worker'[v].job = NoJob \/ Stays(v) \/ Starts(v, j)

Publishes(j) == \/ UNCHANGED performed
                \/ /\ performed' = performed \cup {j} /\ job[j].status # "absent"
                   /\ job'[j].status \in {"running", "succeeded", "failed"}
                   /\ job[j].kind \in Process => job'[j].status = "succeeded"
                   /\ job[j].kind = "remove" => Begun(j)

\* Versions keep their Jobs; one may be published by a Job that runs.
VersionMoves(j) ==
  /\ version # <<>> => version' # <<>>
  /\ \A v \in DOMAIN version' : \/ version'[v].by = NoJob
                                \/ v \in DOMAIN version /\ version'[v].by = version[v].by
                                \/ version'[v].by = j /\ job[j].status = "running"

Moves(j) == /\ Core(j) /\ NotTooLate(j) /\ TargetMoves /\ StateMoves(j)
            /\ HandlersMove(j) /\ Publishes(j) /\ VersionMoves(j)

-----------------------------------------------------------------------------
LEMMA KindKept ==
  ASSUME NEW j \in Job, Core(j), NEW i \in Job, job[i].status # "absent"
  PROVE  job'[i].kind = job[i].kind /\ job'[i].status # "absent"
BY DEF Core, Kept, Advances

LEMMA StartedStays ==
  ASSUME NEW j \in Job, Core(j), NotTooLate(j), NEW i \in Job,
         job[i].status \notin {"absent", "queued"}, job[i].kind \in Process \cup {"remove"}
  PROVE  /\ job'[i].status \notin {"absent", "queued"}
         /\ job[i].kind = "remove" /\ job[i].status # "cancelled" => job'[i].status # "cancelled"
         /\ job[i].status = "succeeded" => job'[i].status = "succeeded"
<1>1. CASE i = j BY <1>1 DEF Core, Allowed, NotTooLate, Live, Settled, Process
<1>2. CASE i # j BY <1>2 DEF Core, Advances
<1> QED BY <1>1, <1>2

LEMMA HandlersKept ==
  ASSUME Inv, NEW j \in Job, Moves(j)
  PROVE  Handlers'
<1> SUFFICES ASSUME NEW w \in Worker, worker'[w].job # NoJob
             PROVE  /\ job'[worker'[w].job].status \notin {"absent", "queued"}
                    /\ job'[worker'[w].job].kind = "remove" =>
                         job'[worker'[w].job].status # "cancelled"
                    /\ worker'[w].targetRev <= target'.rev
                    /\ worker'[w].targetRev = target'.rev =>
                         target'.state \in (IF job'[worker'[w].job].kind = "remove"
                                            THEN Leaving ELSE {"fetching"})
  BY DEF Handlers
<1>1. target.rev \in Nat /\ target'.rev \in Nat BY DEF Inv, Moves, Core, TypeOK, Target
<1>2. CASE Stays(w)
  <2>1. PICK i \in Job : i = worker[w].job
    BY <1>2 DEF Stays, Inv, TypeOK, WorkTypeOK, Local
  <2>2. /\ job[i].status \notin {"absent", "queued"}
        /\ job[i].kind = "remove" => job[i].status # "cancelled"
        /\ worker[w].targetRev <= target.rev
        /\ worker[w].targetRev = target.rev =>
             target.state \in (IF job[i].kind = "remove" THEN Leaving ELSE {"fetching"})
    BY <1>2, <2>1 DEF Inv, Handlers, Stays
  <2>3. job[i].kind \in Process \cup {"remove"} BY Facts DEF JobRow
  <2>4. /\ job'[i].status \notin {"absent", "queued"} /\ job'[i].kind = job[i].kind
        /\ job[i].kind = "remove" => job'[i].status # "cancelled"
    BY <2>2, <2>3, StartedStays, KindKept DEF Moves
  <2>5. worker[w].targetRev \in Nat BY DEF Inv, TypeOK, WorkTypeOK, Local
  <2>6. CASE target' = target BY <1>2, <2>1, <2>2, <2>4, <2>6 DEF Stays
  <2>7. CASE target'.rev > target.rev
    <3>1. worker[w].targetRev <= target'.rev /\ worker[w].targetRev # target'.rev
      BY <1>1, <2>2, <2>5, <2>7
    <3> QED BY <1>2, <2>1, <2>4, <3>1 DEF Stays
  <2> QED BY <2>6, <2>7 DEF Moves, TargetMoves
<1>3. CASE Starts(w, j)
  <2>1. job'[j].kind = job[j].kind BY <1>3, KindKept DEF Starts, Moves, Live
  <2> QED BY <1>1, <1>3, <2>1 DEF Starts, Still
<1> QED BY <1>2, <1>3 DEF Moves, HandlersMove

LEMMA PublishedKept ==
  ASSUME Inv, NEW j \in Job, Moves(j)
  PROVE  Published'
<1> SUFFICES ASSUME NEW i \in performed'
             PROVE  /\ job'[i].status \in {"running", "succeeded", "failed"}
                    /\ job'[i].kind \in Process => job'[i].status = "succeeded"
  BY DEF Published
<1>1. CASE i \in performed
  <2>1. /\ i \in Job /\ job[i].status \in {"running", "succeeded", "failed"}
        /\ job[i].kind \in Process => job[i].status = "succeeded"
    BY <1>1 DEF Inv, TypeOK, WorkTypeOK, Published
  <2>2. job[i].kind \in Process \cup {"remove"} BY <2>1, Facts DEF JobRow
  <2>3. /\ job'[i].kind = job[i].kind /\ job'[i].status \notin {"absent", "queued"}
        /\ job[i].status = "succeeded" => job'[i].status = "succeeded"
        /\ job[i].kind = "remove" => job'[i].status # "cancelled"
    BY <2>1, <2>2, KindKept, StartedStays DEF Moves
  <2>4. job'[i].status \in Status BY <2>1 DEF Moves, Core, TypeOK, WorkTypeOK, JobRow
  <2> QED BY <2>1, <2>2, <2>3, <2>4 DEF Status, Live, Settled
<1>2. CASE i = j /\ ~(UNCHANGED performed)
  <2>1. job'[j].kind = job[j].kind BY <1>2, KindKept DEF Moves, Publishes
  <2> QED BY <1>2, <2>1 DEF Moves, Publishes
<1> QED BY <1>1, <1>2 DEF Moves, Publishes

LEMMA OneRemovalKept ==
  ASSUME Inv, NEW j \in Job, Moves(j)
  PROVE  OneRemoval'
<1>1. \A i \in Job \ {j} : job'[i] = job[i] BY DEF Moves, Core, Advances
<1>2. /\ \A i \in Job : RemovalLive(job[i]) => target.state \in Leaving /\ ~target.enabled
      /\ \A i, k \in Job : RemovalLive(job[i]) /\ RemovalLive(job[k]) => i = k
  BY DEF Inv, OneRemoval
<1>3. target.enabled \in BOOLEAN /\ target'.enabled \in BOOLEAN
  BY DEF Inv, Moves, Core, TypeOK, Target
<1> HIDE DEF RemovalLive
<1>4. CASE Still(j) BY <1>1, <1>2, <1>3, <1>4 DEF Still, OneRemoval
<1>5. CASE /\ \A i \in Job : ~RemovalLive(job[i])
           /\ ~RemovalLive(job'[j]) \/ (target'.state \in Leaving /\ ~target'.enabled)
  BY <1>1, <1>5 DEF OneRemoval
<1>6. CASE RemovalLive(job[j]) /\ ~RemovalLive(job'[j])
  BY <1>1, <1>2, <1>6 DEF OneRemoval
<1>7. CASE InUse(j)
  BY <1>2, <1>5, <1>7 DEF InUse, Leaving, Active, Stable
<1>8. CASE Fails(j)
  BY <1>2, <1>5, <1>6, <1>8 DEF Fails, Leaving, Active
<1>9. CASE Requested(j)
  BY <1>2, <1>5, <1>9 DEF Requested, Leaving, Removal
<1> QED BY <1>4, <1>6, <1>7, <1>8, <1>9 DEF Moves, StateMoves, Restored, Erased

\* A handler starts a removal, or nothing new is begun.
LEMMA TouchedFrom ==
  ASSUME Inv, NEW j \in Job, Moves(j), Touched', ~Touched
  PROVE  RemovalLive(job[j]) /\ job'[j].status = "running" /\ Still(j)
<1>1. PICK i \in Job : /\ job'[i].kind = "remove"
                       /\ i \in performed' \/ \E w \in Worker : worker'[w].job = i
  BY DEF Touched, Begun
<1>2. \A k \in Job : ~Begun(k) BY DEF Touched
<1>3. CASE i \in performed
  <2>1. job[i].status # "absent" BY <1>3 DEF Inv, Published
  <2>2. job[i].kind = "remove" BY <1>1, <2>1, KindKept DEF Moves
  <2> QED BY <1>2, <1>3, <2>2 DEF Begun
<1>4. CASE i \in performed' /\ i \notin performed
  <2>1. i = j /\ job[j].status # "absent" /\ (job[j].kind = "remove" => Begun(j))
    BY <1>4 DEF Moves, Publishes
  <2>2. job[j].kind = "remove" BY <1>1, <2>1, KindKept DEF Moves
  <2> QED BY <1>2, <2>1, <2>2
<1>5. CASE \E w \in Worker : worker'[w].job = i
  <2>1. PICK w \in Worker : worker'[w].job = i BY <1>5
  <2>2. i # NoJob BY JobAssumption
  <2>3. CASE Stays(w)
    <3>1. worker[w].job = i BY <2>1, <2>3 DEF Stays
    <3>2. job[i].status # "absent" BY <2>2, <3>1 DEF Inv, Handlers
    <3>3. job[i].kind = "remove" BY <1>1, <3>2, KindKept DEF Moves
    <3> QED BY <1>2, <3>1, <3>3 DEF Begun
  <2>4. CASE Starts(w, j)
    <3>1. i = j /\ job[j].status # "absent" BY <2>1, <2>4 DEF Starts, Live
    <3>2. job[j].kind = "remove" BY <1>1, <3>1, KindKept DEF Moves
    <3> QED BY <2>4, <3>2 DEF Starts, RemovalLive
  <2> QED BY <2>1, <2>2, <2>3, <2>4 DEF Moves, HandlersMove
<1> QED BY <1>1, <1>3, <1>4, <1>5

LEMMA TouchedKept ==
  ASSUME Inv, NEW j \in Job, Moves(j)
  PROVE  TouchedIsOut'
<1> SUFFICES ASSUME Touched'
             PROVE  /\ ~target'.enabled /\ target'.state \in Removal \cup {"failed"}
                    /\ \A i \in Job : RemovalLive(job'[i]) /\ job'[i].status = "queued" =>
                         job'[i].prev = "failed" /\ ~job'[i].enabled
  BY DEF TouchedIsOut
<1>1. \A i \in Job \ {j} : job'[i] = job[i] BY DEF Moves, Core, Advances
<1>2. job'[j].status = "queued" => job'[j] = job[j] \/ job[j].status = "absent"
  BY DEF Moves, Core, Kept
<1>3. \A i, k \in Job : RemovalLive(job[i]) /\ RemovalLive(job[k]) => i = k
  BY DEF Inv, OneRemoval
<1>4. CASE Touched
  <2>1. /\ ~target.enabled /\ target.state \in Removal \cup {"failed"}
        /\ \A i \in Job : RemovalLive(job[i]) /\ job[i].status = "queued" =>
             job[i].prev = "failed" /\ ~job[i].enabled
    BY <1>4 DEF Inv, TouchedIsOut
  <2>2. ~InUse(j) BY <2>1 DEF InUse, Active, Stable, Removal
  <2>3. CASE Requested(j)
    <3>1. target.state = "failed" BY <2>1, <2>3 DEF Requested
    <3>2. job'[j].prev = "failed" /\ ~job'[j].enabled BY <2>1, <2>3, <3>1 DEF Requested
    <3> QED BY <1>1, <2>1, <2>3, <3>2 DEF Requested, Leaving, Removal
  <2>4. CASE Restored(j) BY <1>1, <2>1, <2>4 DEF Restored, RemovalLive, Live
  <2>5. CASE Still(j)
    <3>1. RemovalLive(job'[j]) /\ job'[j].status = "queued" => job'[j] = job[j]
      BY <1>2, <2>5 DEF Still, RemovalLive, Live
    <3> QED BY <1>1, <2>1, <2>5, <3>1 DEF Still
  <2>6. CASE Fails(j) BY <1>1, <2>1, <2>6 DEF Fails
  <2>7. CASE Erased(j) BY <1>1, <2>1, <2>7 DEF Erased, Gone, Removal
  <2> QED BY <2>2, <2>3, <2>4, <2>5, <2>6, <2>7 DEF Moves, StateMoves
<1>5. CASE ~Touched
  <2>1. RemovalLive(job[j]) /\ job'[j].status = "running" /\ Still(j) BY <1>5, TouchedFrom
  <2>2. target.state \in Leaving /\ ~target.enabled BY <2>1 DEF Inv, OneRemoval
  <2>3. \A i \in Job : RemovalLive(job'[i]) => i = j BY <1>1, <1>3, <2>1
  <2> QED BY <2>1, <2>2, <2>3 DEF Still, Leaving, Removal
<1> QED BY <1>4, <1>5

LEMMA TargetKept ==
  ASSUME Inv, NEW j \in Job, Moves(j)
  PROVE  Shape' /\ GoneIsErased' /\ InCharge' /\ RemovedStep
<1>1. /\ \A i \in Job \ {j} : job'[i] = job[i]
      /\ target'.type = target.type /\ (version # <<>> => version' # <<>>)
      /\ job[j].prev \in Stable
  BY Facts DEF Moves, Core, Advances, TargetMoves, VersionMoves, JobRow
<1>2. Shape'
  <2>1. target'.state \in {"revoking", "revoked"} => ~IsSource
    <3>1. CASE Still(j) BY <3>1 DEF Still, Inv, Shape
    <3>2. CASE InUse(j) BY <3>2 DEF InUse, Active, Stable
    <3>3. CASE Fails(j) BY <3>3 DEF Fails
    <3>4. CASE Requested(j) BY <3>4 DEF Requested, Leaving
    <3>5. CASE Restored(j) BY <1>1, <3>5 DEF Restored, Stable
    <3>6. CASE Erased(j) BY <3>6 DEF Erased, Gone
    <3> QED BY <3>1, <3>2, <3>3, <3>4, <3>5, <3>6 DEF Moves, StateMoves
  <2> QED BY <1>1, <2>1 DEF Inv, Shape, IsSource
<1>3. Removed => Removed'
  <2> SUFFICES ASSUME NEW i \in performed, job[i].kind = "remove" PROVE Removed'
    BY DEF Removed
  <2>1. i \in Job /\ job[i].status # "absent" BY DEF Inv, TypeOK, WorkTypeOK, Published
  <2>2. job'[i].kind = "remove" BY <2>1, KindKept DEF Moves
  <2>3. i \in performed' BY DEF Moves, Publishes
  <2> QED BY <2>2, <2>3 DEF Removed
<1>4. GoneIsErased'
  <2>1. CASE Still(j) BY <1>3, <2>1 DEF Still, Inv, GoneIsErased
  <2>2. CASE Erased(j)
    <3>1. Removed BY <2>2 DEF Erased, RemovalLive, Removed
    <3> QED BY <1>3, <2>2, <3>1 DEF Erased, GoneIsErased
  <2>3. CASE InUse(j) BY <2>3 DEF InUse, Active, Stable, Gone, GoneIsErased
  <2>4. CASE Fails(j) BY <2>4 DEF Fails, Gone, GoneIsErased
  <2>5. CASE Requested(j) BY <2>5 DEF Requested, Leaving, Gone, GoneIsErased
  <2>6. CASE Restored(j) BY <1>1, <2>6 DEF Restored, Stable, Gone, GoneIsErased
  <2> QED BY <2>1, <2>2, <2>3, <2>4, <2>5, <2>6 DEF Moves, StateMoves
<1>5. InCharge'
  <2>1. ASSUME target'.state = "fetching" PROVE \E i \in Job : Runs(job'[i])
    <3>1. CASE Still(j)
      <4>1. PICK i \in Job : Runs(job[i])
        BY <2>1, <3>1 DEF Still, Inv, InCharge, HasJob, Runs
      <4>2. Runs(job'[i]) BY <1>1, <2>1, <3>1, <4>1 DEF Still
      <4> QED BY <4>2
    <3>2. CASE InUse(j) BY <2>1, <3>2 DEF InUse
    <3>3. ~Fails(j) /\ ~Requested(j) /\ ~Restored(j) /\ ~Erased(j)
      BY <1>1, <2>1 DEF Fails, Requested, Restored, Erased, Leaving, Gone, Stable
    <3> QED BY <3>1, <3>2, <3>3 DEF Moves, StateMoves
  <2>2. ASSUME target'.state = "revoking" PROVE \E i \in Job : RemovalLive(job'[i])
    <3>1. CASE Still(j)
      <4>1. PICK i \in Job : RemovalLive(job[i])
        BY <2>2, <3>1 DEF Still, Inv, InCharge, HasJob, RemovalLive
      <4>2. RemovalLive(job'[i]) BY <1>1, <2>2, <3>1, <4>1 DEF Still
      <4> QED BY <4>2
    <3>2. CASE Requested(j) BY <3>2 DEF Requested
    <3>3. ~InUse(j) /\ ~Fails(j) /\ ~Restored(j) /\ ~Erased(j)
      BY <1>1, <2>2 DEF InUse, Fails, Restored, Erased, Gone, Stable, Active
    <3> QED BY <3>1, <3>2, <3>3 DEF Moves, StateMoves
  <2> QED BY <2>1, <2>2 DEF InCharge, HasJob, Runs, RemovalLive
<1>6. RemovedStep
  <2> SUFFICES ASSUME target.state \in Gone PROVE RemovedStep
    BY DEF RemovedStep, Gone
  <2>1. ~RemovalLive(job[j]) BY DEF Inv, OneRemoval, Leaving, Gone
  <2>2. Still(j)
    BY <2>1 DEF Moves, StateMoves, InUse, Fails, Requested, Restored, Erased,
                Gone, Removal, Active, Stable
  <2> QED BY <2>2 DEF Still, RemovedStep, Inv, GoneIsErased
<1> QED BY <1>2, <1>4, <1>5, <1>6

LEMMA SettledKept ==
  ASSUME Inv, NEW j \in Job, Moves(j)
  PROVE  SettledStep
<1> SUFFICES ASSUME NEW i \in Job, JobSettled(i)
             PROVE  /\ job'[i] = job[i]
                    /\ \A v \in DOMAIN version' : version'[v].by = i =>
                         v \in DOMAIN version /\ version[v].by = i
  BY DEF SettledStep
<1>1. job'[i] = job[i] BY DEF Moves, Core, Advances, Kept
<1>2. i # NoJob BY JobAssumption
<1>3. i = j => job[j].status # "running" BY DEF JobSettled, Settled
<1> QED BY <1>1, <1>2, <1>3 DEF Moves, VersionMoves

\* A step of that form keeps the invariant and is a step of UnifiedJob.
LEMMA MovesKeep ==
  ASSUME Inv, NEW j \in Job, Moves(j)
  PROVE  /\ Inv' /\ RemovedStep /\ SettledStep
         /\ [Unified!JNext]_<<Statuses, performed, Events>>
<1>1. WorkTyped /\ \A i \in Job : job[i].rev \in Nat BY Facts
<1>2. WorkInv' BY <1>1, WorkInvKept DEF Inv, Moves, Core
<1>3. TypeOK' BY DEF Moves, Core
<1>4. OthersRest(j) BY DEF Moves, Core, Advances, Delivers, OthersRest
<1>5. delivery[j].open \in BOOLEAN /\ delivery'[j].open \in BOOLEAN
  BY <1>3 DEF Inv, TypeOK, WorkTypeOK
<1>6. [Unified!JNext]_<<Statuses, performed, Events>>
  BY <1>4, <1>5, UnifiedStep DEF Moves, Core
<1> QED BY <1>2, <1>3, <1>6, HandlersKept, PublishedKept, OneRemovalKept, TouchedKept,
           TargetKept, SettledKept DEF Inv

-----------------------------------------------------------------------------
(* Handlers and hooks.                                                     *)

\* A handler that leaves.
LEMMA LeaveFacts ==
  ASSUME Inv, NEW w \in Worker, worker[w].job # NoJob, NEW settle \in BOOLEAN, Release(w, settle)
  PROVE  /\ worker' \in [Worker -> Local]
         /\ \A v \in Worker : worker'[v].job = NoJob \/ Stays(v)
         /\ delivery' \in [Job -> [open : BOOLEAN, attempt : Nat]]
         /\ \A i \in Job \ {worker[w].job} : delivery'[i].open = delivery[i].open
         /\ delivery'[worker[w].job].open => delivery[worker[w].job].open
         /\ ~settle => delivery'[worker[w].job].open = delivery[worker[w].job].open
<1>1. /\ worker' \in [Worker -> Local]
      /\ worker'[w] = Idle /\ \A v \in Worker \ {w} : worker'[v] = worker[v]
      /\ delivery' \in [Job -> [open : BOOLEAN, attempt : Nat]]
      /\ \A i \in Job \ {worker[w].job} : delivery'[i].open = delivery[i].open
      /\ delivery'[worker[w].job].open => delivery[worker[w].job].open
      /\ ~settle => delivery'[worker[w].job].open = delivery[worker[w].job].open
  BY Facts, ReleaseFacts
<1>2. \A v \in Worker : worker'[v].job = NoJob \/ Stays(v)
  BY <1>1 DEF Idle, Stays
<1> QED BY <1>1, <1>2

\* A Job that is closed.
LEMMA ClosingFacts ==
  ASSUME Inv, NEW j \in Job, job[j].status # "absent", ~JobSettled(j),
         NEW how \in {"succeeded", "failed"}, NEW row \in {Closed(j, how), StartedAndClosed(j, how)},
         job' = [job EXCEPT ![j] = row]
  PROVE  /\ job' \in [Job -> JobRow] /\ Advances(j) /\ Kept(j) /\ NotTooLate(j)
         /\ job[j].status \in Live /\ job'[j].status = how /\ job'[j].kind = job[j].kind
         /\ ~RemovalLive(job'[j])
<1>1. job \in [Job -> JobRow] /\ job[j] \in JobRow /\ job[j].rev \in Nat BY Facts
<1>2. row \in JobRow /\ row.status = how /\ row.kind = job[j].kind /\ row.rev > job[j].rev
  BY <1>1, ClosedFacts
<1>3. row.rev \in Nat BY <1>2 DEF JobRow
<1>4. job'[j] = row /\ \A i \in Job \ {j} : job'[i] = job[i] BY <1>1
<1>5. job' \in [Job -> JobRow] BY <1>1, <1>2
<1>6. job[j].status \in Live BY <1>1 DEF JobRow, Status, JobSettled
<1>7. Advances(j) /\ Kept(j) BY <1>1, <1>2, <1>3, <1>4 DEF Advances, Kept
<1>8. NotTooLate(j) /\ ~RemovalLive(job'[j])
  BY <1>2, <1>4 DEF NotTooLate, RemovalLive, Live
<1> QED BY <1>2, <1>4, <1>5, <1>6, <1>7, <1>8

\* A Job that is left alone.
LEMMA RestFacts ==
  ASSUME Inv, NEW j \in Job, job' = job
  PROVE  job' \in [Job -> JobRow] /\ Advances(j) /\ Kept(j) /\ NotTooLate(j)
<1>1. job \in [Job -> JobRow] /\ job[j].rev \in Nat BY Facts
<1> QED BY <1>1 DEF Advances, Kept, NotTooLate

\* Versions that are left alone.
LEMMA VersionFacts ==
  ASSUME NEW j \in Job, version' = version
  PROVE  VersionMoves(j)
BY DEF VersionMoves

\* Steps of one event that leave the handlers alone.
LEMMA EventStep ==
  ASSUME Inv, NEW j \in Job, delivery[j].open,
         job' \in [Job -> JobRow], Advances(j), Kept(j), NotTooLate(j),
         \/ job' = job /\ JobSettled(j)
         \/ job'[j].status \in {"succeeded", "failed"} /\ job[j].status \in Live,
         delivery' \in [Job -> [open : BOOLEAN, attempt : Nat]],
         \A i \in Job \ {j} : delivery'[i].open = delivery[i].open,
         UNCHANGED <<version, worker, performed, cancel, edits>>,
         target' \in Target, TargetMoves, StateMoves(j)
  PROVE  Moves(j)
<1>1. TypeOK' BY DEF Inv, TypeOK, WorkTypeOK
<1>2. Delivers(j) /\ Works(j) /\ Reads BY DEF Delivers, Works, Reads
<1>3. Allowed(j, job[j].status, job'[j].status, delivery[j].open, delivery'[j].open)
  <2>1. UNCHANGED performed /\ (delivery'[j].open => delivery[j].open) OBVIOUS
  <2>2. CASE job' = job /\ JobSettled(j) BY <2>1, <2>2 DEF Allowed, JobSettled
  <2>3. CASE job'[j].status \in {"succeeded", "failed"} /\ job[j].status \in Live
    BY <2>1, <2>3 DEF Allowed
  <2> QED BY <2>2, <2>3
<1>4. HandlersMove(j) /\ Publishes(j) BY DEF HandlersMove, Stays, Publishes
<1>5. VersionMoves(j) BY VersionFacts
<1> QED BY <1>1, <1>2, <1>3, <1>4, <1>5 DEF Moves, Core

LEMMA ClaimNothingStep ==
  ASSUME Inv, NEW j \in Job, ClaimNothing(j)
  PROVE  Moves(j)
<1>1. /\ WorkTyped /\ delivery[j].open /\ AcknowledgeAtOnce(j) /\ job[j].status # "absent"
      /\ UNCHANGED <<target, version, worker, performed, cancel, edits>> /\ target \in Target
  BY Facts DEF ClaimNothing, Receives
<1>2. /\ delivery' \in [Job -> [open : BOOLEAN, attempt : Nat]]
      /\ \A i \in Job \ {j} : delivery'[i].open = delivery[i].open
  BY <1>1, AtOnceFacts
<1>3. target' \in Target /\ TargetMoves BY <1>1 DEF TargetMoves
<1>4. CASE JobSettled(j) /\ job' = job
  <2>1. Still(j) BY <1>1, <1>4 DEF Still
  <2> QED BY <1>1, <1>2, <1>3, <1>4, <2>1, RestFacts, EventStep DEF StateMoves
<1>5. CASE /\ ~JobSettled(j) /\ Verdict(j) # "proceed"
           /\ job' = [job EXCEPT ![j] = Refused(j, Verdict(j))]
  <2>1. PICK how \in {"succeeded", "failed"} : how = Verdict(j) BY <1>5 DEF Verdict
  <2>2. Refused(j, how) \in {Closed(j, how), StartedAndClosed(j, how)} BY DEF Refused
  <2>3. /\ job' \in [Job -> JobRow] /\ Advances(j) /\ Kept(j) /\ NotTooLate(j)
        /\ job[j].status \in Live /\ job'[j].status = how /\ job'[j].kind = job[j].kind
        /\ ~RemovalLive(job'[j])
    BY <1>1, <1>5, <2>1, <2>2, ClosingFacts
  <2>4. ~(target.state = "fetching" /\ Runs(job[j]))
    BY <1>5 DEF Verdict, Awaits, Runs, Process, Active
  <2>5. ~(target.state = "revoking" /\ RemovalLive(job[j]))
    BY <1>5 DEF Verdict, Awaits, RemovalLive, Inv, Shape
  <2>6. Still(j) BY <1>1, <2>3, <2>4, <2>5 DEF Still
  <2> QED BY <1>1, <1>2, <1>3, <2>3, <2>6, EventStep DEF StateMoves
<1> QED BY <1>4, <1>5 DEF ClaimNothing

LEMMA ExhaustStep ==
  ASSUME Inv, NEW j \in Job, Exhaust(j)
  PROVE  Moves(j)
<1>1. /\ WorkTyped /\ delivery[j].open /\ job[j].status # "absent" /\ target \in Target
      /\ target.rev \in Nat /\ UNCHANGED <<version, worker, performed, cancel, edits>>
      /\ job[j].kind \in Process \cup {"remove"}
  BY Facts DEF Exhaust, Spent, JobRow
<1>2. /\ delivery' \in [Job -> [open : BOOLEAN, attempt : Nat]]
      /\ \A i \in Job \ {j} : delivery'[i].open = delivery[i].open
  BY <1>1, CloseFacts DEF Exhaust
<1>3. CASE JobSettled(j) /\ UNCHANGED <<target, job>>
  <2>1. Still(j) /\ TargetMoves /\ target' \in Target BY <1>1, <1>3 DEF Still, TargetMoves
  <2> QED BY <1>1, <1>2, <1>3, <2>1, RestFacts, EventStep DEF StateMoves
<1>4. CASE ~JobSettled(j) /\ job' = [job EXCEPT ![j] = Closed(j, "failed")] /\ target' = Exhausted(j)
  <2>1. /\ job' \in [Job -> JobRow] /\ Advances(j) /\ Kept(j) /\ NotTooLate(j)
        /\ job[j].status \in Live /\ job'[j].status = "failed" /\ job'[j].kind = job[j].kind
        /\ ~RemovalLive(job'[j])
    BY <1>1, <1>4, ClosingFacts
  <2>2. /\ Moved("failed") \in Target /\ Moved("failed").state = "failed"
        /\ Moved("failed").rev = target.rev + 1 /\ Moved("failed").type = target.type
        /\ Moved("failed").enabled = target.enabled
    BY <1>1, MovedFacts DEF Stable
  <2>3. target' = IF target.state \in Awaits(j) THEN Moved("failed") ELSE target
    BY <1>4 DEF Exhausted
  <2> HIDE DEF Moved
  <2>4. target' \in Target /\ TargetMoves BY <1>1, <2>2, <2>3 DEF TargetMoves
  <2>5. CASE target.state \in Awaits(j)
    <3>1. target.state \in Active \/ RemovalLive(job[j])
      BY <2>1, <2>5 DEF Awaits, RemovalLive
    <3>2. Fails(j) BY <2>1, <2>2, <2>3, <2>5, <3>1 DEF Fails
    <3> QED BY <1>1, <1>2, <2>1, <2>4, <3>2, EventStep DEF StateMoves
  <2>6. CASE target.state \notin Awaits(j)
    <3>1. ~(target.state = "fetching" /\ Runs(job[j]))
      BY <2>6 DEF Awaits, Runs, Process, Active
    <3>2. ~(target.state = "revoking" /\ RemovalLive(job[j]))
      BY <2>6 DEF Awaits, RemovalLive
    <3>3. Still(j) BY <1>1, <2>1, <2>3, <2>6, <3>1, <3>2 DEF Still
    <3> QED BY <1>1, <1>2, <2>1, <2>4, <3>3, EventStep DEF StateMoves
  <2> QED BY <2>5, <2>6
<1> QED BY <1>3, <1>4 DEF Exhaust

\* A handler that ends, with or without a result.
LEMMA LeaveStep ==
  ASSUME Inv, NEW w \in Worker, NEW j \in Job, worker[w].job = j, NEW settle \in BOOLEAN,
         Release(w, settle), UNCHANGED <<cancel, edits>>,
         job' \in [Job -> JobRow], Advances(j), Kept(j), NotTooLate(j),
         \/ job' = job /\ (settle => JobSettled(j)) /\ UNCHANGED performed
         \/ /\ job[j].status \in Live /\ job'[j].status \in {"succeeded", "failed"}
            /\ UNCHANGED performed
         \/ /\ job[j].status = "running" /\ job'[j].status = "succeeded"
            /\ performed' = performed \cup {j} /\ job[j].kind \in Process,
         version' \in Seq(Version), VersionMoves(j),
         target' \in Target, TargetMoves, StateMoves(j)
  PROVE  Moves(j)
<1>1. worker[w].job # NoJob BY JobAssumption
<1>2. /\ worker' \in [Worker -> Local]
      /\ \A v \in Worker : worker'[v].job = NoJob \/ Stays(v)
      /\ delivery' \in [Job -> [open : BOOLEAN, attempt : Nat]]
      /\ \A i \in Job \ {j} : delivery'[i].open = delivery[i].open
      /\ delivery'[j].open => delivery[j].open
      /\ ~settle => delivery'[j].open = delivery[j].open
  BY <1>1, LeaveFacts
<1>3. performed' \subseteq Job BY Facts DEF WorkTyped
<1>4. TypeOK' BY <1>2, <1>3 DEF Inv, TypeOK, WorkTypeOK
<1>5. Delivers(j) BY <1>2 DEF Delivers
<1>6. Works(j) BY <1>2 DEF Works, Stays
<1>7. Reads BY DEF Reads
<1>8. Allowed(j, job[j].status, job'[j].status, delivery[j].open, delivery'[j].open)
  <2>1. CASE job' = job /\ (settle => JobSettled(j)) /\ UNCHANGED performed
    BY <1>2, <2>1 DEF Allowed, JobSettled
  <2>2. CASE /\ job[j].status \in Live /\ job'[j].status \in {"succeeded", "failed"}
             /\ UNCHANGED performed
    BY <1>2, <2>2 DEF Allowed
  <2>3. CASE /\ job[j].status = "running" /\ job'[j].status = "succeeded"
             /\ performed' = performed \cup {j}
    BY <1>2, <2>3 DEF Allowed, Live
  <2> QED BY <2>1, <2>2, <2>3
<1>9. HandlersMove(j) BY <1>2 DEF HandlersMove
<1>10. Publishes(j) BY DEF Publishes, Process
<1> QED BY <1>4, <1>5, <1>6, <1>7, <1>8, <1>9, <1>10 DEF Moves, Core

LEMMA QuietEndStep ==
  ASSUME Inv, NEW w \in Worker, ReturnLate(w) \/ Raise(w)
  PROVE  \E j \in Job : Moves(j)
<1>1. /\ worker[w].job # NoJob
      /\ UNCHANGED <<target, version, job, performed, cancel, edits>>
      /\ \E settle \in BOOLEAN : Release(w, settle) /\ (settle => JobSettled(worker[w].job))
  BY DEF ReturnLate, Raise
<1>2. PICK j \in Job : j = worker[w].job BY <1>1, Facts
<1>3. PICK settle \in BOOLEAN : Release(w, settle) /\ (settle => JobSettled(j)) BY <1>1, <1>2
<1>4. /\ job' \in [Job -> JobRow] /\ Advances(j) /\ Kept(j) /\ NotTooLate(j) /\ VersionMoves(j)
  BY <1>1, RestFacts, VersionFacts
<1>5. Still(j) /\ TargetMoves /\ target' \in Target /\ version' \in Seq(Version)
  BY <1>1, Facts DEF Still, TargetMoves
<1>6. Moves(j) BY <1>1, <1>2, <1>3, <1>4, <1>5, LeaveStep DEF StateMoves
<1> QED BY <1>6

\* What a handler that still holds its Job and target sees of them.
LEMMA HoldsFacts ==
  ASSUME Inv, NEW w \in Worker, Holds(w)
  PROVE  \E j \in Job :
           /\ j = worker[w].job /\ job[j].status = "running" /\ job[j] \in JobRow
           /\ ~JobSettled(j)
           /\ target.state \in (IF job[j].kind = "remove" THEN Leaving ELSE {"fetching"})
<1>1. /\ worker[w].job # NoJob /\ job[worker[w].job].status = "running"
      /\ worker[w].targetRev = target.rev
  BY DEF Holds, HoldsJob
<1>2. PICK j \in Job : j = worker[w].job BY <1>1, Facts
<1>3. target.state \in (IF job[j].kind = "remove" THEN Leaving ELSE {"fetching"})
  BY <1>1, <1>2 DEF Inv, Handlers
<1>4. job[j] \in JobRow /\ ~JobSettled(j) BY <1>1, <1>2, Facts DEF JobSettled, Settled
<1> QED BY <1>1, <1>2, <1>3, <1>4

LEMMA FailStep ==
  ASSUME Inv, NEW w \in Worker, Fail(w)
  PROVE  \E j \in Job : Moves(j)
<1>1. Holds(w) BY DEF Fail
<1>2. PICK j \in Job :
        /\ j = worker[w].job /\ job[j].status = "running" /\ job[j] \in JobRow
        /\ ~JobSettled(j)
        /\ target.state \in (IF job[j].kind = "remove" THEN Leaving ELSE {"fetching"})
  BY <1>1, HoldsFacts
<1>3. /\ job' = [job EXCEPT ![j] = Closed(j, "failed")] /\ target' = Moved("failed")
      /\ Release(w, TRUE) /\ UNCHANGED <<version, performed, cancel, edits>>
      /\ target \in Target /\ target.rev \in Nat /\ version' \in Seq(Version)
  BY <1>2, Facts DEF Fail
<1>4. /\ job' \in [Job -> JobRow] /\ Advances(j) /\ Kept(j) /\ NotTooLate(j)
      /\ job'[j].status = "failed" /\ ~RemovalLive(job'[j]) /\ VersionMoves(j)
  BY <1>2, <1>3, ClosingFacts, VersionFacts
<1>5. /\ target' \in Target /\ target'.state = "failed" /\ target'.enabled = target.enabled
      /\ TargetMoves
  <2>1. /\ Moved("failed") \in Target /\ Moved("failed").state = "failed"
        /\ Moved("failed").rev = target.rev + 1 /\ Moved("failed").type = target.type
        /\ Moved("failed").enabled = target.enabled
    BY <1>3, MovedFacts DEF Stable
  <2> HIDE DEF Moved
  <2> QED BY <1>3, <2>1 DEF TargetMoves
<1>6. Fails(j)
  <2>1. target.state \in Active \/ RemovalLive(job[j])
    BY <1>2 DEF RemovalLive, Live, Active
  <2> QED BY <1>4, <1>5, <2>1 DEF Fails
<1>7. Moves(j) BY <1>2, <1>3, <1>4, <1>5, <1>6, LeaveStep DEF StateMoves, Live
<1> QED BY <1>7

LEMMA CompleteRemovalStep ==
  ASSUME Inv, NEW w \in Worker, CompleteRemoval(w)
  PROVE  \E j \in Job : Moves(j)
<1>1. PICK j \in Job :
        /\ j = worker[w].job /\ job[j].status = "running" /\ job[j] \in JobRow
        /\ ~JobSettled(j)
        /\ target.state \in (IF job[j].kind = "remove" THEN Leaving ELSE {"fetching"})
  BY HoldsFacts DEF CompleteRemoval
<1>2. /\ job[j].kind = "remove" /\ j \in performed
      /\ target' = Moved(IF IsSource THEN "deleted" ELSE "revoked")
      /\ version' = [v \in DOMAIN version |-> [version[v] EXCEPT !.chunks = FALSE]]
      /\ job' = [job EXCEPT ![j] = Closed(j, "succeeded")] /\ Release(w, TRUE)
      /\ UNCHANGED <<performed, cancel, edits>>
      /\ target \in Target /\ target.rev \in Nat /\ version \in Seq(Version)
  BY <1>1, Facts DEF CompleteRemoval, Succeed
<1>3. /\ job' \in [Job -> JobRow] /\ Advances(j) /\ Kept(j) /\ NotTooLate(j)
      /\ job'[j].status = "succeeded" /\ ~RemovalLive(job'[j])
  BY <1>1, <1>2, ClosingFacts
<1>4. /\ target' \in Target /\ target'.state \in Gone /\ target'.enabled = target.enabled
      /\ target'.state = "revoked" => ~IsSource
      /\ TargetMoves
  <2>1. \A to \in Gone : /\ Moved(to) \in Target /\ Moved(to).state = to
                         /\ Moved(to).rev = target.rev + 1 /\ Moved(to).type = target.type
                         /\ Moved(to).enabled = target.enabled
    BY <1>2, MovedFacts DEF Gone, Removal
  <2> HIDE DEF Moved
  <2>2. CASE IsSource BY <1>2, <2>1, <2>2 DEF TargetMoves, Gone
  <2>3. CASE ~IsSource BY <1>2, <2>1, <2>3 DEF TargetMoves, Gone
  <2> QED BY <2>2, <2>3
<1>5. /\ version' \in Seq(Version) /\ DOMAIN version' = DOMAIN version
      /\ \A v \in DOMAIN version : ~version'[v].chunks /\ version'[v].by = version[v].by
  <2>1. \A v \in DOMAIN version :
          /\ [version[v] EXCEPT !.chunks = FALSE] \in Version
          /\ [version[v] EXCEPT !.chunks = FALSE].by = version[v].by
          /\ [version[v] EXCEPT !.chunks = FALSE].chunks = FALSE
    <3> SUFFICES ASSUME NEW v \in DOMAIN version
                 PROVE  /\ [version[v] EXCEPT !.chunks = FALSE] \in Version
                        /\ [version[v] EXCEPT !.chunks = FALSE].by = version[v].by
                        /\ [version[v] EXCEPT !.chunks = FALSE].chunks = FALSE
      OBVIOUS
    <3>1. version[v] \in Version BY <1>2
    <3> QED BY <3>1 DEF Version
  <2>2. DOMAIN version = 1..Len(version) /\ Len(version) \in Nat BY <1>2
  <2>3. version' \in [1..Len(version) -> Version] BY <1>2, <2>1, <2>2
  <2>4. version' \in Seq(Version) BY <2>2, <2>3
  <2> QED BY <1>2, <2>1, <2>4
<1>6. VersionMoves(j) BY <1>2, <1>5 DEF VersionMoves
<1>7. Erased(j)
  <2>1. RemovalLive(job[j]) BY <1>1, <1>2 DEF RemovalLive, Live
  <2> QED BY <1>2, <1>3, <1>4, <1>5, <2>1 DEF Erased
<1>8. Moves(j) BY <1>1, <1>2, <1>3, <1>4, <1>5, <1>6, <1>7, LeaveStep DEF StateMoves, Live
<1> QED BY <1>8

LEMMA CompleteProcessingStep ==
  ASSUME Inv, NEW w \in Worker, CompleteProcessing(w)
  PROVE  \E j \in Job : Moves(j)
<1>1. PICK j \in Job :
        /\ j = worker[w].job /\ job[j].status = "running" /\ job[j] \in JobRow
        /\ ~JobSettled(j)
        /\ target.state \in (IF job[j].kind = "remove" THEN Leaving ELSE {"fetching"})
  BY HoldsFacts DEF CompleteProcessing
<1>2. /\ job[j].kind \in Process /\ target.state = "fetching"
      /\ job' = [job EXCEPT ![j] = Closed(j, "succeeded")] /\ Release(w, TRUE)
      /\ performed' = performed \cup {j} /\ UNCHANGED <<cancel, edits>>
      /\ target \in Target /\ target.rev \in Nat /\ version \in Seq(Version)
      /\ job[j].version \in Nat
  BY <1>1, Facts DEF CompleteProcessing, Succeed, JobRow
<1>3. PICK c \in Loaded, n \in Nat :
        /\ \/ n = job[j].version /\ version' = [version EXCEPT ![n] = Indexed(c, j)]
           \/ n = Len(version) + 1 /\ version' = Append(version, Indexed(c, j))
        /\ Publish(n)
  <2>1. Len(version) + 1 \in Nat BY <1>2
  <2> QED BY <1>1, <1>2, <2>1 DEF CompleteProcessing
<1>4. Indexed(c, j) \in Version /\ Indexed(c, j).by = j
  <2>1. c \in Content
    <3>1. CASE target.type = "file"
      <4>1. version # <<>> BY <3>1 DEF Inv, Shape
      <4>2. version[1] \in Version BY <1>2, <4>1
      <4> QED BY <1>3, <3>1, <4>2 DEF Loaded, Version
    <3>2. CASE target.type # "file" BY <1>3, <3>2 DEF Loaded
    <3> QED BY <3>1, <3>2
  <2> QED BY <2>1 DEF Indexed, Version
<1> HIDE DEF Indexed
<1>5. /\ job' \in [Job -> JobRow] /\ Advances(j) /\ Kept(j) /\ NotTooLate(j)
      /\ job'[j].status = "succeeded" /\ ~RemovalLive(job'[j])
  BY <1>1, <1>2, ClosingFacts
<1>6. /\ target' \in Target /\ target'.state = "ready" /\ target'.enabled = target.enabled
      /\ TargetMoves
  <2> DEFINE m == Moved("ready")
             g == [m EXCEPT !.current = n]
  <2>1. /\ m \in Target /\ m.state = "ready" /\ m.rev = target.rev + 1
        /\ m.type = target.type /\ m.enabled = target.enabled
    BY <1>2, MovedFacts DEF Stable
  <2>2. target' = [g EXCEPT !.indexed = TRUE] BY <1>3 DEF Publish
  <2> HIDE DEF m
  <2>3. /\ g \in Target /\ g.state = m.state /\ g.rev = m.rev
        /\ g.type = m.type /\ g.enabled = m.enabled
    BY <2>1 DEF Target
  <2> HIDE DEF g
  <2>4. /\ target' \in Target /\ target'.state = g.state /\ target'.rev = g.rev
        /\ target'.type = g.type /\ target'.enabled = g.enabled
    BY <2>2, <2>3 DEF Target
  <2> QED BY <1>2, <2>1, <2>3, <2>4 DEF TargetMoves
<1>7. version' \in Seq(Version) /\ VersionMoves(j)
  <2>1. CASE version' = [version EXCEPT ![n] = Indexed(c, j)]
    <3>1. version' \in Seq(Version) /\ DOMAIN version' = DOMAIN version
      <4>1. DOMAIN version = 1..Len(version) /\ Len(version) \in Nat BY <1>2
      <4>2. version \in [1..Len(version) -> Version] BY <1>2, <4>1
      <4>3. version' \in [1..Len(version) -> Version] BY <1>4, <2>1, <4>2
      <4>4. version' \in Seq(Version) BY <4>1, <4>3
      <4> QED BY <4>1, <4>3, <4>4
    <3>2. \A v \in DOMAIN version : version'[v] = Indexed(c, j) \/ version'[v] = version[v]
      BY <1>2, <2>1
    <3>3. version # <<>> => version' # <<>> BY <1>2, <3>1
    <3> QED BY <1>1, <1>4, <3>1, <3>2, <3>3 DEF VersionMoves
  <2>2. CASE version' = Append(version, Indexed(c, j))
    <3>1. version' \in Seq(Version) /\ version' # <<>> BY <1>2, <1>4, <2>2
    <3>2. \A v \in DOMAIN version' : \/ version'[v] = Indexed(c, j)
                                     \/ v \in DOMAIN version /\ version'[v] = version[v]
      BY <1>2, <2>2
    <3> QED BY <1>1, <1>4, <3>1, <3>2 DEF VersionMoves
  <2> QED BY <1>3, <2>1, <2>2
<1>8. InUse(j) BY <1>2, <1>5, <1>6 DEF InUse, Active, Stable
<1>9. Moves(j) BY <1>1, <1>2, <1>5, <1>6, <1>7, <1>8, LeaveStep DEF StateMoves
<1> QED BY <1>9

LEMMA PerformStep ==
  ASSUME Inv, NEW w \in Worker, Perform(w)
  PROVE  \E j \in Job : Moves(j)
<1>1. /\ worker[w].job # NoJob /\ job[worker[w].job].kind = "remove"
      /\ performed' = performed \cup {worker[w].job}
      /\ UNCHANGED <<target, version, job, delivery, worker, cancel, edits>>
  BY DEF Perform
<1>2. PICK j \in Job : j = worker[w].job BY <1>1, Facts
<1>3. job[j].kind = "remove" /\ job[j].status \in {"running", "succeeded", "failed"}
  <2>1. /\ job[j].status \notin {"absent", "queued"} /\ job[j].kind = "remove"
        /\ job[j].kind = "remove" => job[j].status # "cancelled"
    BY <1>1, <1>2 DEF Inv, Handlers
  <2>2. job[j].status \in Status BY Facts DEF JobRow
  <2> QED BY <2>1, <2>2 DEF Status, Live, Settled
<1>4. /\ job' \in [Job -> JobRow] /\ Advances(j) /\ Kept(j) /\ NotTooLate(j) /\ VersionMoves(j)
  BY <1>1, RestFacts, VersionFacts
<1>5. Still(j) /\ TargetMoves BY <1>1 DEF Still, TargetMoves
<1>6. TypeOK' BY <1>1, <1>2 DEF Inv, TypeOK, WorkTypeOK
<1>7. /\ Delivers(j) /\ Works(j) /\ Reads /\ HandlersMove(j)
  BY <1>1 DEF Delivers, Works, Reads, HandlersMove, Stays
<1>8. Allowed(j, job[j].status, job'[j].status, delivery[j].open, delivery'[j].open)
  BY <1>1, <1>2, <1>3 DEF Allowed
<1>9. Publishes(j)
  <2>1. Begun(j) BY <1>2, <1>3 DEF Begun
  <2> QED BY <1>1, <1>2, <1>3, <2>1 DEF Publishes, Process
<1>10. Moves(j) BY <1>4, <1>5, <1>6, <1>7, <1>8, <1>9 DEF Moves, Core, StateMoves
<1> QED BY <1>10

LEMMA ClaimStep ==
  ASSUME Inv, NEW w \in Worker, NEW j \in Job, Claim(w, j)
  PROVE  Moves(j)
<1>1. /\ WorkTyped /\ delivery[j].open /\ job[j].status # "absent" /\ job[j] \in JobRow
      /\ job[j].rev \in Nat /\ target \in Target /\ target.rev \in Nat /\ ~JobSettled(j)
      /\ job' = [job EXCEPT ![j].status = "running", ![j].rev = @ + 1]
      /\ target' = Moved(IF job[j].kind = "remove" THEN target.state ELSE "fetching")
      /\ Take(w, j, job[j].rev + 1, target.rev + 1)
      /\ UNCHANGED <<version, performed, cancel, edits>>
  BY Facts DEF Claim, Receives
<1>2. target.state \in Awaits(j) BY DEF Claim, Verdict
<1>3. job[j].status \in Live BY <1>1 DEF JobRow, Status, JobSettled
<1>4. /\ job' \in [Job -> JobRow] /\ job'[j].status = "running" /\ job'[j].rev = job[j].rev + 1
      /\ job'[j].kind = job[j].kind
      /\ \A i \in Job \ {j} : job'[i] = job[i]
  <2>1. "running" \in Status BY DEF Status, Live
  <2> QED BY <1>1, <2>1, RowFacts
<1>5. /\ worker' \in [Worker -> Local]
      /\ worker'[w].job = j /\ worker'[w].targetRev = target.rev + 1
      /\ \A v \in Worker \ {w} : worker'[v] = worker[v]
      /\ delivery' \in [Job -> [open : BOOLEAN, attempt : Nat]]
      /\ \A i \in Job : delivery'[i].open = delivery[i].open
  <2>1. job[j].rev + 1 \in Nat /\ target.rev + 1 \in Nat BY <1>1
  <2> QED BY <1>1, <2>1, TakeFacts
<1>6. job[j].kind \in Process \cup {"remove"} BY <1>1 DEF JobRow
<1>7. /\ target' \in Target /\ target'.rev = target.rev + 1 /\ target'.type = target.type
      /\ target'.enabled = target.enabled
      /\ target'.state = IF job[j].kind = "remove" THEN target.state ELSE "fetching"
  <2>1. \A to \in Active \cup Stable \cup Removal :
          /\ Moved(to) \in Target /\ Moved(to).state = to
          /\ Moved(to).rev = target.rev + 1 /\ Moved(to).type = target.type
          /\ Moved(to).enabled = target.enabled
    BY <1>1, MovedFacts
  <2>2. target.state \in Active \cup Stable \cup Removal BY <1>1 DEF Target
  <2> HIDE DEF Moved
  <2>3. CASE job[j].kind = "remove" BY <1>1, <2>1, <2>2, <2>3
  <2>4. CASE job[j].kind # "remove" BY <1>1, <2>1, <2>4 DEF Active
  <2> QED BY <2>3, <2>4
<1>8. TypeOK' BY <1>1, <1>4, <1>5, <1>7 DEF Inv, TypeOK, WorkTypeOK
<1>9. Advances(j) /\ Kept(j) /\ NotTooLate(j)
  BY <1>1, <1>4 DEF Advances, Kept, NotTooLate
<1>10. Delivers(j) /\ Reads BY <1>1, <1>5 DEF Delivers, Reads
<1>11. Works(j) BY <1>4, <1>5 DEF Works
<1>12. Allowed(j, job[j].status, job'[j].status, delivery[j].open, delivery'[j].open)
  BY <1>1, <1>3, <1>4, <1>5 DEF Allowed, Live
<1>13. TargetMoves /\ Publishes(j) /\ VersionMoves(j)
  BY <1>1, <1>7, VersionFacts DEF TargetMoves, Publishes
<1>14. CASE job[j].kind = "remove"
  <2>1. RemovalLive(job[j]) /\ target.state \in Leaving
    BY <1>2, <1>3, <1>14 DEF RemovalLive, Awaits, Leaving
  <2>2. Still(j)
    BY <1>1, <1>4, <1>7, <1>14, <2>1 DEF Still, Leaving, RemovalLive, Live
  <2>3. Starts(w, j) BY <1>3, <1>4, <1>5, <1>7, <1>14, <2>1, <2>2 DEF Starts
  <2>4. HandlersMove(j) BY <1>5, <2>3 DEF HandlersMove, Stays
  <2> QED BY <1>8, <1>9, <1>10, <1>11, <1>12, <1>13, <2>2, <2>4 DEF Moves, Core, StateMoves
<1>15. CASE job[j].kind \in Process
  <2>1. job[j].kind # "remove" BY <1>15 DEF Process
  <2>2. target.state \in Active BY <1>2, <2>1 DEF Awaits
  <2>3. Runs(job'[j]) /\ ~RemovalLive(job'[j]) BY <1>4, <1>15, <2>1 DEF Runs, RemovalLive
  <2>4. InUse(j) BY <1>7, <2>1, <2>2, <2>3 DEF InUse, Active
  <2>5. Starts(w, j) BY <1>3, <1>4, <1>5, <1>7, <2>1 DEF Starts
  <2>6. HandlersMove(j) BY <1>5, <2>5 DEF HandlersMove, Stays
  <2> QED BY <1>8, <1>9, <1>10, <1>11, <1>12, <1>13, <2>4, <2>6 DEF Moves, Core, StateMoves
<1> QED BY <1>6, <1>14, <1>15

-----------------------------------------------------------------------------
(* Requests and cancellation.                                              *)

\* A new Job.
LEMMA RequestStep ==
  ASSUME Inv, NEW j \in Job, NEW kind \in Process \cup {"remove"}, NEW prev \in Stable,
         CreateJob(j, kind, prev), target' \in Target, TargetMoves,
         /\ job'[j].kind = kind /\ job'[j].status = "queued"
         /\ job'[j].prev = prev /\ job'[j].enabled = target.enabled
         => StateMoves(j)
  PROVE  Moves(j)
<1> DEFINE r == [status |-> "queued", kind |-> kind, rev |-> 1, base |-> target.rev + 1,
                 version |-> target.current, prev |-> prev, enabled |-> target.enabled]
<1>1. /\ WorkTyped /\ job \in [Job -> JobRow] /\ target \in Target /\ target.rev \in Nat
      /\ AddJob(j, r) /\ UNCHANGED <<version, edits>>
  BY Facts DEF CreateJob
<1>2. r \in JobRow
  <2>1. target.rev + 1 \in Nat BY <1>1
  <2>2. target.current \in Nat /\ target.enabled \in BOOLEAN BY <1>1 DEF Target
  <2> QED BY <2>1, <2>2 DEF JobRow, Status, Live
<1>3. r.status = "queued" /\ r.kind = kind /\ r.rev = 1 /\ r.prev = prev
      /\ r.enabled = target.enabled
  OBVIOUS
<1> HIDE DEF r
<1>4. /\ job[j].status = "absent" /\ job' = [job EXCEPT ![j] = r]
      /\ UNCHANGED <<worker, performed, cancel>>
      /\ delivery' \in [Job -> [open : BOOLEAN, attempt : Nat]]
      /\ delivery'[j].open
      /\ \A i \in Job \ {j} : delivery'[i].open = delivery[i].open
  BY <1>1, AddFacts
<1>5. job' \in [Job -> JobRow] /\ job'[j] = r /\ \A i \in Job \ {j} : job'[i] = job[i]
  BY <1>1, <1>2, <1>4
<1>6. TypeOK' BY <1>1, <1>4, <1>5 DEF Inv, TypeOK, WorkTypeOK
<1>7. Advances(j) /\ Kept(j) /\ NotTooLate(j)
  BY <1>3, <1>4, <1>5 DEF Advances, Kept, NotTooLate, JobSettled, Settled
<1>8. /\ Delivers(j) /\ Works(j) /\ Reads /\ HandlersMove(j) /\ Publishes(j) /\ VersionMoves(j)
  BY <1>1, <1>3, <1>4, <1>5, VersionFacts
  DEF Delivers, Works, Reads, HandlersMove, Stays, Publishes
<1>9. Allowed(j, job[j].status, job'[j].status, delivery[j].open, delivery'[j].open)
  BY <1>3, <1>4, <1>5 DEF Allowed
<1>10. StateMoves(j) BY <1>3, <1>5
<1> QED BY <1>6, <1>7, <1>8, <1>9, <1>10 DEF Moves, Core

LEMMA RequestProcessingStep ==
  ASSUME Inv, NEW j \in Job, NEW kind \in Process, RequestProcessing(j, kind)
  PROVE  Moves(j)
<1>1. /\ target \in Target /\ target.rev \in Nat /\ target.enabled /\ target.state \in Stable
      /\ CreateJob(j, kind, target.state) /\ target' = Moved("queued")
  BY Facts DEF RequestProcessing
<1>2. /\ target' \in Target /\ target'.state = "queued" /\ target'.enabled = target.enabled
      /\ TargetMoves
  <2>1. /\ Moved("queued") \in Target /\ Moved("queued").state = "queued"
        /\ Moved("queued").rev = target.rev + 1 /\ Moved("queued").type = target.type
        /\ Moved("queued").enabled = target.enabled
    BY <1>1, MovedFacts DEF Active
  <2>2. target' = Moved("queued") /\ target.rev \in Nat BY <1>1
  <2> HIDE DEF Moved
  <2> QED BY <2>1, <2>2 DEF TargetMoves
<1>3. ASSUME job'[j].kind = kind PROVE StateMoves(j)
  <2>1. ~RemovalLive(job'[j]) BY <1>3 DEF RemovalLive, Process
  <2>2. InUse(j) BY <1>1, <1>2, <2>1 DEF InUse, Active
  <2> QED BY <2>2 DEF StateMoves
<1>4. kind \in Process \cup {"remove"} OBVIOUS
<1> QED BY <1>1, <1>2, <1>3, <1>4, RequestStep

LEMMA RequestRemovalStep ==
  ASSUME Inv, NEW j \in Job, RequestRemoval(j)
  PROVE  Moves(j)
<1>1. /\ target \in Target /\ target.rev \in Nat /\ target.state \notin Removal
      /\ CreateJob(j, "remove", StableState) /\ job[j].status = "absent"
      /\ target' = [Moved(IF IsSource THEN "deleting" ELSE "revoking") EXCEPT !.enabled = FALSE]
  BY Facts DEF RequestRemoval, CreateJob, AddJob
<1>2. StableState \in Stable /\ (target.state = "failed" => StableState = "failed")
  BY <1>1 DEF StableState, Target, Stable, Active
<1>3. /\ target' \in Target /\ target'.state \in Leaving /\ ~target'.enabled
      /\ target'.state = "revoking" => ~IsSource
      /\ TargetMoves
  <2> DEFINE to == IF IsSource THEN "deleting" ELSE "revoking"
             m  == Moved(to)
  <2>1. to \in Leaving /\ (to = "revoking" => ~IsSource) BY DEF Leaving
  <2>2. to \in Removal BY DEF Removal
  <2> HIDE DEF to
  <2>3. /\ m \in Target /\ m.state = to /\ m.rev = target.rev + 1 /\ m.type = target.type
    BY <1>1, <2>2, MovedFacts
  <2>4. target' = [m EXCEPT !.enabled = FALSE] BY <1>1 DEF to
  <2> HIDE DEF m
  <2>5. /\ target' \in Target /\ target'.state = m.state /\ target'.rev = m.rev
        /\ target'.type = m.type /\ ~target'.enabled
    BY <2>3, <2>4 DEF Target
  <2> QED BY <1>1, <2>1, <2>3, <2>5 DEF TargetMoves
<1>4. ASSUME job'[j].kind = "remove", job'[j].status = "queued", job'[j].prev = StableState,
             job'[j].enabled = target.enabled
      PROVE  StateMoves(j)
  <2>1. RemovalLive(job'[j]) BY <1>4 DEF RemovalLive, Live
  <2>2. Requested(j) BY <1>1, <1>2, <1>3, <1>4, <2>1 DEF Requested
  <2> QED BY <2>2 DEF StateMoves
<1> HIDE DEF StableState
<1> QED BY <1>1, <1>2, <1>3, <1>4, RequestStep

LEMMA ReadStep ==
  ASSUME Inv, NEW j \in Job, ReadForCancel(j), UNCHANGED <<target, version, edits>>
  PROVE  Moves(j)
<1>1. cancel' \in Read /\ Reads /\ UNCHANGED <<job, delivery, worker, performed>>
  BY Facts, ReadFacts
<1>2. /\ job' \in [Job -> JobRow] /\ Advances(j) /\ Kept(j) /\ NotTooLate(j) /\ VersionMoves(j)
  BY <1>1, RestFacts, VersionFacts
<1>3. Still(j) /\ TargetMoves BY <1>1 DEF Still, TargetMoves
<1>4. TypeOK' BY <1>1 DEF Inv, TypeOK, WorkTypeOK
<1>5. /\ Delivers(j) /\ Works(j) /\ HandlersMove(j) /\ Publishes(j)
  BY <1>1 DEF Delivers, Works, HandlersMove, Stays, Publishes
<1>6. Allowed(j, job[j].status, job'[j].status, delivery[j].open, delivery'[j].open)
  BY <1>1 DEF Allowed
<1> QED BY <1>1, <1>2, <1>3, <1>4, <1>5, <1>6 DEF Moves, Core, StateMoves

LEMMA CancelStep ==
  ASSUME Inv, Cancel
  PROVE  \E j \in Job : Moves(j)
<1>1. /\ WorkTyped /\ target \in Target /\ target.rev \in Nat
      /\ cancel.job # NoJob /\ cancel' = NoRead /\ NoRead \in Read
      /\ UNCHANGED <<version, delivery, worker, performed, edits>>
  BY Facts DEF Cancel, NoRead, Read
<1>2. PICK j \in Job : j = cancel.job BY <1>1 DEF WorkTyped, Read
<1>3. /\ job[j] \in JobRow /\ job[j].rev \in Nat /\ job[j].status # "absent"
      /\ job[j].kind \in Process \cup {"remove"} /\ job[j].prev \in Stable
      /\ job[j].enabled \in BOOLEAN
  BY <1>1, <1>2, Facts DEF Inv, WorkInv, JobRow
<1>4. /\ Delivers(j) /\ Works(j) /\ Reads /\ HandlersMove(j) /\ Publishes(j) /\ VersionMoves(j)
  BY <1>1, VersionFacts DEF Delivers, Works, Reads, HandlersMove, Stays, Publishes
<1>5. CASE UNCHANGED <<job, target>>
  <2>1. /\ job' \in [Job -> JobRow] /\ Advances(j) /\ Kept(j) /\ NotTooLate(j)
    BY <1>5, RestFacts
  <2>2. Still(j) /\ TargetMoves BY <1>1, <1>5 DEF Still, TargetMoves
  <2>3. TypeOK' BY <1>1, <1>5 DEF Inv, TypeOK, WorkTypeOK
  <2>4. Allowed(j, job[j].status, job'[j].status, delivery[j].open, delivery'[j].open)
    BY <1>1, <1>5 DEF Allowed
  <2>5. Moves(j) BY <1>4, <2>1, <2>2, <2>3, <2>4 DEF Moves, Core, StateMoves
  <2> QED BY <2>5
<1>6. CASE /\ Swaps(j) /\ Cancellable(j) /\ job' = Withdrawn(j)
           /\ target' = [Moved(job[j].prev) EXCEPT
                           !.enabled = IF job[j].kind = "remove" THEN job[j].enabled ELSE @]
  <2>1. job[j].status \in Live /\ job[j].status = cancel.status
    BY <1>1, <1>2, <1>6, SwapIsLive DEF Inv
  <2>2. /\ job' \in [Job -> JobRow] /\ job'[j].status = "cancelled"
        /\ job'[j].kind = job[j].kind /\ job'[j].rev = job[j].rev + 1
        /\ \A i \in Job \ {j} : job'[i] = job[i]
    <3>1. "cancelled" \in Status BY DEF Status, Settled
    <3>2. job' = [job EXCEPT ![j].status = "cancelled", ![j].rev = @ + 1]
      BY <1>6 DEF Withdrawn
    <3> QED BY <3>1, <3>2, RowFacts
  <2>3. /\ target.state \in Awaits(j)
        /\ job[j].kind = "remove" => job[j].status = "queued"
    BY <1>6, <2>1 DEF Cancellable
  <2>4. /\ target' \in Target /\ target'.state = job[j].prev /\ TargetMoves
        /\ target'.enabled = IF job[j].kind = "remove" THEN job[j].enabled ELSE target.enabled
    <3> DEFINE p == job[j].prev
               m == Moved(p)
               e == IF job[j].kind = "remove" THEN job[j].enabled ELSE m.enabled
    <3>1. p \in Stable BY <1>3
    <3> HIDE DEF p
    <3>2. /\ m \in Target /\ m.state = p /\ m.rev = target.rev + 1 /\ m.type = target.type
          /\ m.enabled = target.enabled
      BY <1>1, <3>1, MovedFacts
    <3>3. target' = [m EXCEPT !.enabled = e] BY <1>6 DEF p
    <3> HIDE DEF m
    <3>4. e \in BOOLEAN BY <1>3, <3>2 DEF Target
    <3>5. e = IF job[j].kind = "remove" THEN job[j].enabled ELSE target.enabled BY <3>2
    <3> HIDE DEF e
    <3>6. /\ target' \in Target /\ target'.state = m.state /\ target'.rev = m.rev
          /\ target'.type = m.type /\ target'.enabled = e
      BY <3>2, <3>3, <3>4 DEF Target
    <3> QED BY <1>1, <3>2, <3>5, <3>6 DEF TargetMoves, p
  <2>5. TypeOK' BY <1>1, <2>2, <2>4 DEF Inv, TypeOK, WorkTypeOK
  <2>6. Advances(j) /\ Kept(j)
    BY <1>3, <2>1, <2>2 DEF Advances, Kept, JobSettled, Live, Settled
  <2>7. NotTooLate(j) BY <1>3, <2>3 DEF NotTooLate
  <2>8. j \notin performed BY <1>3, <2>1, <2>3 DEF Inv, Published, Live
  <2>9. Allowed(j, job[j].status, job'[j].status, delivery[j].open, delivery'[j].open)
    BY <1>1, <2>1, <2>2, <2>8 DEF Allowed
  <2>10. ~RemovalLive(job'[j]) BY <2>2 DEF RemovalLive, Live
  <2>11. StateMoves(j)
    <3>1. CASE job[j].kind = "remove"
      <4>1. RemovalLive(job[j]) BY <2>1, <3>1 DEF RemovalLive
      <4>2. Restored(j) BY <2>3, <2>4, <2>10, <3>1, <4>1 DEF Restored
      <4> QED BY <4>2 DEF StateMoves
    <3>2. CASE job[j].kind # "remove"
      <4>1. target.state \in Active BY <2>3, <3>2 DEF Awaits
      <4>2. InUse(j) BY <1>3, <2>4, <2>10, <3>2, <4>1 DEF InUse, Stable
      <4> QED BY <4>2 DEF StateMoves
    <3> QED BY <3>1, <3>2
  <2>12. Moves(j)
    BY <1>4, <2>4, <2>5, <2>6, <2>7, <2>9, <2>11 DEF Moves, Core
  <2> QED BY <2>12
<1> QED BY <1>2, <1>5, <1>6 DEF Cancel

-----------------------------------------------------------------------------
(* Edits: the Jobs are left alone.                                         *)
LEMMA OutsideStep ==
  ASSUME Inv, \/ Revise
              \/ \E c \in Content : AllocateVersion(c)
              \/ UNCHANGED vars
  PROVE  Inv' /\ RemovedStep /\ SettledStep /\ UNCHANGED <<Statuses, performed, Events>>
<1>1. UNCHANGED <<job, delivery, worker, performed, cancel>>
  BY DEF Revise, AllocateVersion, Edit, jobVars, vars
<1>2. target \in Target /\ target.rev \in Nat /\ version \in Seq(Version) BY Facts
<1>3. edits' \in 0..MaxEdits
  BY BoundAssumption DEF Inv, TypeOK, Revise, AllocateVersion, Edit, vars
<1>4. WorkInv' /\ Published' BY <1>1 DEF Inv, WorkInv, Published
<1>5. Removed => ~target.enabled
  <2>1. Removed => Touched
    BY DEF Removed, Touched, Begun, Inv, TypeOK, WorkTypeOK
  <2> QED BY <2>1 DEF Inv, TouchedIsOut
<1>6. CASE /\ version' = version /\ target' \in Target /\ target'.type = target.type
           /\ target'.state = target.state /\ target'.enabled = target.enabled
           /\ target' = target \/ target'.rev > target.rev
  <2>1. TypeOK' BY <1>1, <1>2, <1>3, <1>6 DEF Inv, TypeOK, WorkTypeOK
  <2>2. OneRemoval' /\ TouchedIsOut'
    BY <1>1, <1>6 DEF Inv, OneRemoval, TouchedIsOut, Touched, Begun
  <2>3. Handlers'
    <3> SUFFICES ASSUME NEW w \in Worker, worker[w].job # NoJob
                 PROVE  /\ job[worker[w].job].status \notin {"absent", "queued"}
                        /\ job[worker[w].job].kind = "remove" => job[worker[w].job].status # "cancelled"
                        /\ worker[w].targetRev <= target'.rev
                        /\ worker[w].targetRev = target'.rev =>
                             target'.state \in (IF job[worker[w].job].kind = "remove"
                                                THEN Leaving ELSE {"fetching"})
      BY <1>1 DEF Handlers
    <3>1. worker[w].targetRev \in Nat /\ target'.rev \in Nat
      BY <1>6 DEF Inv, TypeOK, WorkTypeOK, Local, Target
    <3>2. worker[w].targetRev <= target.rev BY DEF Inv, Handlers
    <3> QED BY <1>2, <1>6, <3>1, <3>2 DEF Inv, Handlers
  <2>4. Shape' BY <1>6 DEF Inv, Shape, IsSource
  <2>5. GoneIsErased' /\ InCharge'
    BY <1>1, <1>6 DEF Inv, GoneIsErased, Removed, InCharge, HasJob
  <2>6. RemovedStep BY <1>6 DEF RemovedStep, Inv, GoneIsErased, Gone
  <2>7. SettledStep BY <1>1, <1>6 DEF SettledStep
  <2> QED BY <1>1, <1>4, <2>1, <2>2, <2>3, <2>4, <2>5, <2>6, <2>7 DEF Inv, Statuses, Events
<1>7. ASSUME NEW c \in Content, version' = Append(version, Pending(c)), target.enabled,
             target' \in Target, target'.type = target.type, target'.state = "stale",
             target'.rev > target.rev
      PROVE  Inv' /\ RemovedStep /\ SettledStep /\ UNCHANGED <<Statuses, performed, Events>>
  <2>1. /\ version' \in Seq(Version) /\ version' # <<>>
        /\ \A v \in DOMAIN version' : version'[v].by = NoJob \/ (v \in DOMAIN version /\ version'[v] = version[v])
    <3>1. Pending(c) \in Version /\ Pending(c).by = NoJob BY DEF Pending, Version
    <3> HIDE DEF Pending
    <3>2. /\ version' \in Seq(Version) /\ version' # <<>>
          /\ \A v \in DOMAIN version' :
               version'[v] = Pending(c) \/ (v \in DOMAIN version /\ version'[v] = version[v])
      BY <1>2, <1>7, <3>1
    <3> QED BY <3>1, <3>2
  <2>2. TypeOK' BY <1>1, <1>3, <1>7, <2>1 DEF Inv, TypeOK, WorkTypeOK
  <2>3. ~Touched /\ \A i \in Job : ~RemovalLive(job[i])
    BY <1>7 DEF Inv, TouchedIsOut, OneRemoval
  <2>4. OneRemoval' BY <1>1, <2>3 DEF OneRemoval, RemovalLive
  <2>5. TouchedIsOut' BY <1>1, <2>3 DEF TouchedIsOut, Touched, Begun
  <2>6. Handlers'
    <3> SUFFICES ASSUME NEW w \in Worker, worker[w].job # NoJob
                 PROVE  /\ job[worker[w].job].status \notin {"absent", "queued"}
                        /\ job[worker[w].job].kind = "remove" => job[worker[w].job].status # "cancelled"
                        /\ worker[w].targetRev <= target'.rev /\ worker[w].targetRev # target'.rev
      BY <1>1 DEF Handlers
    <3>1. worker[w].targetRev \in Nat /\ target'.rev \in Nat
      BY <1>7 DEF Inv, TypeOK, WorkTypeOK, Local, Target
    <3>2. worker[w].targetRev <= target.rev BY DEF Inv, Handlers
    <3> QED BY <1>2, <1>7, <3>1, <3>2 DEF Inv, Handlers
  <2>7. Shape' BY <1>7, <2>1 DEF Shape
  <2>8. GoneIsErased' /\ InCharge' BY <1>7 DEF GoneIsErased, Gone, InCharge
  <2>9. RemovedStep
    <3>1. target.state \notin Gone BY <1>5, <1>7 DEF Inv, GoneIsErased
    <3> QED BY <3>1 DEF RemovedStep, Gone
  <2>10. SettledStep BY <1>1, <2>1, JobAssumption DEF SettledStep
  <2> QED BY <1>1, <1>4, <2>2, <2>4, <2>5, <2>6, <2>7, <2>8, <2>9, <2>10
          DEF Inv, Statuses, Events
<1>8. CASE Revise
  <2>1. target' = [target EXCEPT !.rev = target.rev + 1] /\ version' = version
    BY <1>8 DEF Revise
  <2>2. /\ target' \in Target /\ target'.type = target.type
        /\ target'.state = target.state /\ target'.enabled = target.enabled
        /\ target'.rev > target.rev
    BY <1>2, <2>1 DEF Target
  <2> QED BY <1>6, <2>1, <2>2
<1>9. ASSUME NEW c \in Content, AllocateVersion(c)
      PROVE  Inv' /\ RemovedStep /\ SettledStep /\ UNCHANGED <<Statuses, performed, Events>>
  <2> DEFINE m == Moved("stale")
             n == Len(version) + 1
  <2>1. /\ target.enabled /\ version' = Append(version, Pending(c))
        /\ target' = [m EXCEPT !.current = n]
    BY <1>9 DEF AllocateVersion
  <2>2. /\ m \in Target /\ m.state = "stale" /\ m.rev = target.rev + 1 /\ m.type = target.type
    BY <1>2, MovedFacts DEF Stable
  <2>3. n \in Nat BY <1>2
  <2> HIDE DEF m, n
  <2>4. /\ target' \in Target /\ target'.type = m.type /\ target'.state = m.state
        /\ target'.rev = m.rev
    BY <2>1, <2>2, <2>3 DEF Target
  <2>5. target'.rev > target.rev BY <1>2, <2>2, <2>4
  <2> QED BY <1>7, <2>1, <2>2, <2>4, <2>5
<1>10. CASE UNCHANGED vars
  <2>1. target' = target /\ version' = version BY <1>10 DEF vars
  <2> QED BY <1>2, <1>6, <2>1
<1> QED BY <1>8, <1>9, <1>10

\* Every step keeps the invariant and is a step of UnifiedJob or none.
LEMMA Step ==
  ASSUME Inv, [Next]_vars
  PROVE  /\ Inv' /\ RemovedStep /\ SettledStep
         /\ [Unified!JNext]_<<Statuses, performed, Events>>
<1>1. CASE Revise \/ (\E c \in Content : AllocateVersion(c)) \/ UNCHANGED vars
  BY <1>1, OutsideStep
<1>2. CASE Cancel BY <1>2, CancelStep, MovesKeep
<1>3. ASSUME NEW j \in Job,
             \/ \E kind \in Process : RequestProcessing(j, kind)
             \/ RequestRemoval(j)
             \/ ReadForCancel(j) /\ UNCHANGED <<target, version, edits>>
             \/ Receive(j) \/ Exhaust(j)
      PROVE  Moves(j)
  <2>1. CASE \E kind \in Process : RequestProcessing(j, kind) BY <2>1, RequestProcessingStep
  <2>2. CASE RequestRemoval(j) BY <2>2, RequestRemovalStep
  <2>3. CASE ReadForCancel(j) /\ UNCHANGED <<target, version, edits>> BY <2>3, ReadStep
  <2>4. CASE ClaimNothing(j) BY <2>4, ClaimNothingStep
  <2>5. CASE \E w \in Worker : Claim(w, j) BY <2>5, ClaimStep
  <2>6. CASE Exhaust(j) BY <2>6, ExhaustStep
  <2> QED BY <1>3, <2>1, <2>2, <2>3, <2>4, <2>5, <2>6 DEF Receive
<1>4. ASSUME NEW w \in Worker, Perform(w) \/ Ends(w)
      PROVE  \E j \in Job : Moves(j)
  <2>1. CASE Perform(w) BY <2>1, PerformStep
  <2>2. CASE CompleteProcessing(w) BY <2>2, CompleteProcessingStep
  <2>3. CASE CompleteRemoval(w) BY <2>3, CompleteRemovalStep
  <2>4. CASE ReturnLate(w) \/ Raise(w) BY <2>4, QuietEndStep
  <2>5. CASE Fail(w) BY <2>5, FailStep
  <2> QED BY <1>4, <2>1, <2>2, <2>3, <2>4, <2>5 DEF Ends
<1> QED BY <1>1, <1>2, <1>3, <1>4, MovesKeep DEF Next

LEMMA InitInv == Init => Inv
<1> SUFFICES ASSUME Init PROVE Inv OBVIOUS
<1>1. NoRow \in JobRow /\ NoRow.status = "absent" BY DEF NoRow, JobRow, Status, Process, Stable
<1>2. PICK t \in TargetType, c \in Content :
        target = Created(t) /\ version = IF t = "file" THEN <<Pending(c)>> ELSE <<>>
  BY DEF Init
<1>3. /\ target \in Target /\ target.type = t /\ target.state \in {"stale", "not_started", "active"}
  <2>1. /\ Created(t).type = t /\ Created(t).state \in {"stale", "not_started", "active"}
        /\ Created(t) \in Target
    BY DEF Created, Target, Stable
  <2> QED BY <1>2, <2>1
<1>4. version \in Seq(Version) /\ (t = "file" => version # <<>>)
  <2>1. Pending(c) \in Version BY DEF Pending, Version
  <2> QED BY <1>2, <2>1
<1>5. WorkTypeOK(JobRow) BY <1>1 DEF Init, WorkInit, WorkTypeOK, Idle, Local, NoRead, Read
<1>6. TypeOK BY <1>3, <1>4, <1>5, BoundAssumption DEF TypeOK, Init
<1>7. /\ \A j \in Job : job[j].status = "absent" /\ ~delivery[j].open
      /\ \A w \in Worker : worker[w].job = NoJob
      /\ cancel.job = NoJob /\ performed = {}
  BY <1>1 DEF Init, WorkInit, Idle, NoRead
<1>8. WorkInv /\ Handlers /\ Published BY <1>7 DEF WorkInv, Handlers, Published
<1>9. OneRemoval BY <1>7 DEF OneRemoval, RemovalLive, Live
<1>10. TouchedIsOut BY <1>7, JobAssumption DEF TouchedIsOut, Touched, Begun
<1>11. Shape /\ GoneIsErased /\ InCharge
  BY <1>3, <1>4 DEF Shape, GoneIsErased, Gone, InCharge
<1> QED BY <1>6, <1>8, <1>9, <1>10, <1>11 DEF Inv

-----------------------------------------------------------------------------
(* THEOREMS                                                                *)

\* Every reachable state satisfies the inductive invariant, whatever handlers are
\* lost, delayed or started again.
THEOREM Inductive == Spec => []Inv
<1>1. Init => Inv BY InitInv
<1>2. Inv /\ [Next]_vars => Inv' BY Step
<1> QED BY <1>1, <1>2, PTL DEF Spec

\* The variables keep their types.
THEOREM TypeCorrect == Spec => []TypeOK
<1>1. Inv => TypeOK BY DEF Inv
<1> QED BY <1>1, Inductive, PTL

\* What was erased or revoked outside the database never comes back into use, and a
\* removal is complete only if it was performed.
THEOREM RemovalStaysPerformed == Spec => []RemovalIsKept
<1>1. Inv => RemovalIsKept
  <2> SUFFICES ASSUME Inv PROVE RemovalIsKept OBVIOUS
  <2>1. Removed => Touched
    BY DEF Removed, Touched, Begun, Inv, TypeOK, WorkTypeOK
  <2> QED BY <2>1 DEF Inv, TouchedIsOut, GoneIsErased, Gone, RemovalIsKept
<1> QED BY <1>1, Inductive, PTL

\* A source that is fetched, a Connection that is revoked, has a Job in charge of it.
THEOREM AlwaysInCharge == Spec => []InCharge
<1>1. Inv => InCharge BY DEF Inv
<1> QED BY <1>1, Inductive, PTL

\* A removed target stays removed and without an index.
THEOREM RemovedStaysRemoved == Spec => RemovedIsFinal
<1>1. Inv /\ [Next]_vars => RemovedStep BY Step
<1> QED BY <1>1, Inductive, PTL DEF Spec, RemovedIsFinal

\* A settled Job keeps its row, and publishes nothing more.
THEOREM SettledStays == Spec => SettledIsFinal
<1>1. Inv /\ [Next]_vars => SettledStep BY Step
<1> QED BY <1>1, Inductive, PTL DEF Spec, SettledIsFinal

\* The Jobs of a source or Connection keep what GET and DELETE /jobs/{id} promise.
THEOREM KnowledgeJobsImplement == Spec => Implements
<1>1. Init => Unified!JInit
  <2>1. NoRow.status = "absent" BY DEF NoRow
  <2>2. ASSUME Init PROVE Statuses = [j \in Job |-> "absent"] /\ performed = {} /\ Events = {}
    BY <2>1, <2>2 DEF Init, WorkInit, Statuses, Events
  <2> QED BY <2>2 DEF Unified!JInit, Statuses, Events
<1>2. Inv /\ [Next]_vars => [Unified!JNext]_<<Statuses, performed, Events>> BY Step
<1>3. Inv /\ [Next]_vars => [Unified!JNext]_(Unified!jVars)
  BY <1>2 DEF Unified!jVars, Statuses, Events
<1> QED BY <1>1, <1>3, Inductive, PTL DEF Spec, Implements, Unified!JSpec
=============================================================================
