----------------------------- MODULE JobWorkProofs -----------------------------
(***************************************************************************)
(* Lemmas about Jobs of any domain: what every step of a handler, a        *)
(* request or a cancellation does to the Job row and its event, and why    *)
(* that is a step of UnifiedJob.  The proofs of the domains cite them.     *)
(***************************************************************************)
EXTENDS JobWork, TLAPS

\* The types the steps of every domain rely on; R is the domain's Job row.
WorkTyped == /\ delivery \in [Job -> [open : BOOLEAN, attempt : Nat]]
             /\ worker \in [Worker -> Local]
             /\ performed \subseteq Job
             /\ cancel \in Read

\* An event and a handler have a Job; a cancellation that has read a Job sees the
\* row's status until the row's revision has moved on.
WorkInv ==
  /\ \A j \in Job : delivery[j].open => job[j].status # "absent"
  /\ \A w \in Worker : worker[w].job # NoJob => job[worker[w].job].status # "absent"
  /\ cancel.job # NoJob =>
       /\ cancel.status \in Live /\ cancel.rev <= job[cancel.job].rev
       /\ job[cancel.job].status # "absent"
       /\ cancel.rev = job[cancel.job].rev => cancel.status = job[cancel.job].status

-----------------------------------------------------------------------------
\* The Job row: one row moves, and no status changes without its revision.
Advances(j) ==
  /\ \A i \in Job \ {j} : job'[i] = job[i]
  /\ job'[j].rev \in Nat
  /\ job[j].status # "absent" => /\ job'[j].status # "absent"
                                 /\ job'[j].rev >= job[j].rev
                                 /\ job'[j].rev = job[j].rev => job'[j].status = job[j].status

\* Its event: opened only with the Job.
Delivers(j) ==
  /\ \A i \in Job \ {j} : delivery'[i].open = delivery[i].open
  /\ delivery'[j].open =>
       delivery[j].open \/ (job[j].status = "absent" /\ job'[j].status # "absent")

\* The handlers: one may leave, or take up a Job that exists.
Works(j) == \A w \in Worker : \/ worker'[w].job \in {worker[w].job, NoJob}
                              \/ worker'[w].job = j /\ job'[j].status # "absent"

\* The cancellation: it reads, or is over.
Reads == \/ cancel' \in {cancel, NoRead}
         \/ /\ cancel'.job \in Job /\ cancel'.status = job[cancel'.job].status
            /\ cancel'.rev = job[cancel'.job].rev /\ cancel'.status \in Live
            /\ UNCHANGED job

LEMMA WorkInvKept ==
  ASSUME WorkTyped, WorkInv, NEW j \in Job, \A i \in Job : job[i].rev \in Nat,
         Advances(j), Delivers(j), Works(j), Reads
  PROVE  WorkInv'
<1>1. \A i \in Job : job[i].status # "absent" => job'[i].status # "absent"
  BY DEF Advances
<1>2. \A i \in Job : delivery'[i].open => job'[i].status # "absent"
  <2> SUFFICES ASSUME NEW i \in Job, delivery'[i].open PROVE job'[i].status # "absent"
    OBVIOUS
  <2>1. CASE i = j
    BY <1>1, <2>1 DEF Delivers, WorkInv
  <2>2. CASE i # j
    <3>1. delivery[i].open BY <2>2 DEF Delivers
    <3> QED BY <1>1, <3>1 DEF WorkInv
  <2> QED BY <2>1, <2>2
<1>3. \A w \in Worker : worker'[w].job # NoJob => job'[worker'[w].job].status # "absent"
  <2> SUFFICES ASSUME NEW w \in Worker, worker'[w].job # NoJob
               PROVE  job'[worker'[w].job].status # "absent"
    OBVIOUS
  <2>1. CASE worker'[w].job = worker[w].job
    <3>1. worker[w].job \in Job BY <2>1 DEF WorkTyped, Local
    <3> QED BY <1>1, <2>1, <3>1 DEF WorkInv
  <2>2. CASE worker'[w].job = j /\ job'[j].status # "absent" BY <2>2
  <2> QED BY <2>1, <2>2 DEF Works
<1>4. (cancel.job # NoJob =>
         /\ cancel.status \in Live /\ cancel.rev <= job[cancel.job].rev
         /\ job[cancel.job].status # "absent"
         /\ cancel.rev = job[cancel.job].rev => cancel.status = job[cancel.job].status)'
  <2>1. CASE cancel' = NoRead BY <2>1 DEF NoRead
  <2>2. CASE cancel' = cancel /\ cancel.job # NoJob
    <3>1. cancel.job \in Job /\ cancel.rev \in Nat BY <2>2 DEF WorkTyped, Read
    <3>2. CASE cancel.job = j
      <4>1. /\ job'[j].rev \in Nat /\ job[j].rev \in Nat
            /\ job'[j].status # "absent" /\ job'[j].rev >= job[j].rev
            /\ job'[j].rev = job[j].rev => job'[j].status = job[j].status
        BY <2>2, <3>2 DEF Advances, WorkInv
      <4>2. /\ cancel.status \in Live /\ cancel.rev <= job[j].rev
            /\ cancel.rev = job[j].rev => cancel.status = job[j].status
        BY <2>2, <3>2 DEF WorkInv
      <4>3. cancel.rev = job'[j].rev => job[j].rev = job'[j].rev /\ cancel.rev = job[j].rev
        BY <3>1, <4>1, <4>2
      <4>4. cancel.rev <= job'[j].rev BY <3>1, <4>1, <4>2
      <4> QED BY <2>2, <3>2, <4>1, <4>2, <4>3, <4>4
    <3>3. CASE cancel.job # j
      <4>1. job'[cancel.job] = job[cancel.job] BY <3>1, <3>3 DEF Advances
      <4> QED BY <2>2, <4>1 DEF WorkInv
    <3> QED BY <3>2, <3>3
  <2>3. CASE cancel' = cancel /\ cancel.job = NoJob BY <2>3
  <2>4. CASE /\ cancel'.job \in Job /\ cancel'.status = job[cancel'.job].status
             /\ cancel'.rev = job[cancel'.job].rev /\ cancel'.status \in Live
             /\ UNCHANGED job
    BY <2>4 DEF Live
  <2> QED BY <2>1, <2>2, <2>3, <2>4 DEF Reads
<1> QED BY <1>2, <1>3, <1>4 DEF WorkInv

\* A cancellation whose swap succeeds finds the Job as it was read: live.
LEMMA SwapIsLive ==
  ASSUME WorkTyped, WorkInv, cancel.job # NoJob, Swaps(cancel.job)
  PROVE  cancel.job \in Job /\ job[cancel.job].status = cancel.status /\ cancel.status \in Live
BY DEF WorkTyped, Read, WorkInv, Swaps

-----------------------------------------------------------------------------
\* One Job's move, as UnifiedJob sees it: from and to are its status before and
\* after, was and is whether its event is open.
Allowed(j, from, to, was, is) ==
  \/ from = "absent" /\ to = "queued" /\ is /\ UNCHANGED performed
  \/ from = "queued" /\ to = "running" /\ is = was /\ UNCHANGED performed
  \/ /\ from \in {"running", "succeeded", "failed"} /\ to = from /\ is = was
     /\ performed' = performed \cup {j}
  \/ /\ from \in Live /\ to = "succeeded" /\ (is => was)
     /\ \/ UNCHANGED performed
        \/ from = "running" /\ performed' = performed \cup {j}
  \/ from \in Live /\ to = "failed" /\ (is => was) /\ UNCHANGED performed
  \/ from \in Live /\ to = "cancelled" /\ is = was /\ j \notin performed /\ UNCHANGED performed
  \/ from \in Settled /\ to = from /\ (is => was) /\ UNCHANGED performed
  \/ to = from /\ is = was /\ UNCHANGED performed

OthersRest(j) == \A i \in Job \ {j} : job'[i].status = job[i].status
                                      /\ delivery'[i].open = delivery[i].open

Statuses == [j \in Job |-> job[j].status]
Events   == {j \in Job : delivery[j].open}

LEMMA UnifiedStep ==
  ASSUME NEW j \in Job, OthersRest(j), delivery[j].open \in BOOLEAN, delivery'[j].open \in BOOLEAN,
         Allowed(j, job[j].status, job'[j].status, delivery[j].open, delivery'[j].open)
  PROVE  [Unified!JNext]_<<Statuses, performed, Events>>
<1> DEFINE from == job[j].status
           to == job'[j].status
           was == delivery[j].open
           is == delivery'[j].open
<1>1. Statuses' = [Statuses EXCEPT ![j] = to] BY DEF OthersRest, Statuses
<1>2. Events' = IF is THEN Events \cup {j} ELSE Events \ {j} BY DEF OthersRest, Events
<1>3. was <=> j \in Events BY DEF Events
<1>4. Statuses[j] = from BY DEF Statuses
<1>5. (is = was) => Events' = Events BY <1>2, <1>3
<1>6. (is => was) => Events' \in {Events, Events \ {j}} BY <1>2, <1>3
<1>7. (to = from) => Statuses' = Statuses BY <1>1, <1>4 DEF Statuses
<1>8. Unified!Running = {i \in Job : Statuses[i] = "running"} BY DEF Unified!Running, Statuses
<1> HIDE DEF from, to, was, is
<1>a. CASE from = "absent" /\ to = "queued" /\ is /\ UNCHANGED performed
  <2>1. Unified!Request(j) BY <1>1, <1>2, <1>4, <1>a DEF Unified!Request, Statuses, Events
  <2> QED BY <2>1 DEF Unified!JNext
<1>b. CASE from = "queued" /\ to = "running" /\ is = was /\ UNCHANGED performed
  <2>1. Unified!Start(j) BY <1>1, <1>4, <1>5, <1>b DEF Unified!Start, Statuses, Events
  <2> QED BY <2>1 DEF Unified!JNext
<1>c. CASE /\ from \in {"running", "succeeded", "failed"} /\ to = from /\ is = was
           /\ performed' = performed \cup {j}
  <2>1. Unified!Act(j) BY <1>4, <1>5, <1>7, <1>c DEF Unified!Act, Statuses, Events
  <2> QED BY <2>1 DEF Unified!JNext
<1>d. CASE /\ from \in Live /\ to = "succeeded" /\ (is => was)
           /\ \/ UNCHANGED performed
              \/ from = "running" /\ performed' = performed \cup {j}
  <2>1. performed' \in {performed} \cup {performed \cup {i} : i \in {j} \cap Unified!Running}
    BY <1>4, <1>8, <1>d
  <2>2. Unified!Unsettled(j) BY <1>4, <1>d DEF Unified!Unsettled, Live, Statuses
  <2>3. Unified!Finish(j)
    BY <1>1, <1>6, <1>d, <2>1, <2>2 DEF Unified!Finish, Statuses, Events
  <2> QED BY <2>3 DEF Unified!JNext
<1>e. CASE from \in Live /\ to = "failed" /\ (is => was) /\ UNCHANGED performed
  <2>1. Unified!Unsettled(j) BY <1>4, <1>e DEF Unified!Unsettled, Live, Statuses
  <2>2. Unified!Finish(j)
    BY <1>1, <1>6, <1>e, <2>1 DEF Unified!Finish, Statuses, Events
  <2> QED BY <2>2 DEF Unified!JNext
<1>f. CASE from \in Live /\ to = "cancelled" /\ is = was /\ j \notin performed /\ UNCHANGED performed
  <2>1. Unified!Unsettled(j) BY <1>4, <1>f DEF Unified!Unsettled, Live, Statuses
  <2>2. Unified!Withdraw(j)
    BY <1>1, <1>5, <1>f, <2>1 DEF Unified!Withdraw, Statuses, Events
  <2> QED BY <2>2 DEF Unified!JNext
<1>g. CASE from \in Settled /\ to = from /\ (is => was) /\ UNCHANGED performed
  <2>1. CASE Events' = Events BY <1>7, <1>g, <2>1
  <2>2. CASE Events' = Events \ {j}
    <3>1. Unified!Acknowledge(j)
      BY <1>4, <1>7, <1>g, <2>2 DEF Unified!Acknowledge, Statuses, Events, Settled
    <3> QED BY <3>1 DEF Unified!JNext
  <2> QED BY <1>6, <1>g, <2>1, <2>2
<1>h. CASE to = from /\ is = was /\ UNCHANGED performed
  BY <1>5, <1>7, <1>h
<1>9. Allowed(j, from, to, was, is) BY DEF from, to, was, is
<1> QED BY <1>9, <1>a, <1>b, <1>c, <1>d, <1>e, <1>f, <1>g, <1>h DEF Allowed

-----------------------------------------------------------------------------
\* A handler that ends: it is idle, and its event is open as before or closed.
LEMMA ReleaseFacts ==
  ASSUME WorkTyped, NEW w \in Worker, worker[w].job # NoJob, NEW settle \in BOOLEAN,
         Release(w, settle)
  PROVE  /\ worker[w].job \in Job
         /\ worker' \in [Worker -> Local]
         /\ worker'[w] = Idle /\ \A v \in Worker \ {w} : worker'[v] = worker[v]
         /\ delivery' \in [Job -> [open : BOOLEAN, attempt : Nat]]
         /\ \A i \in Job \ {worker[w].job} : delivery'[i].open = delivery[i].open
         /\ delivery'[worker[w].job].open => delivery[worker[w].job].open
         /\ ~settle => delivery'[worker[w].job].open = delivery[worker[w].job].open
<1> DEFINE j == worker[w].job
           mine == delivery[j].attempt = worker[w].attempt
<1>1. j \in Job BY DEF WorkTyped, Local
<1>2. worker' = [worker EXCEPT ![w] = Idle] BY DEF Release
<1>3. Idle \in Local BY DEF Idle, Local
<1>4. PICK lost \in BOOLEAN :
        delivery' = [delivery EXCEPT ![j].open = delivery[j].open /\ (lost \/ ~mine \/ ~settle)]
  BY DEF Release
<1>5. delivery[j].open \in BOOLEAN BY <1>1 DEF WorkTyped
<1> HIDE DEF j, mine
<1>6. /\ delivery' \in [Job -> [open : BOOLEAN, attempt : Nat]]
      /\ delivery'[j].open = (delivery[j].open /\ (lost \/ ~mine \/ ~settle))
      /\ \A i \in Job \ {j} : delivery'[i] = delivery[i]
  BY <1>1, <1>4, <1>5 DEF WorkTyped
<1>7. worker' \in [Worker -> Local] /\ worker'[w] = Idle
      /\ \A v \in Worker \ {w} : worker'[v] = worker[v]
  BY <1>2, <1>3 DEF WorkTyped
<1>8. /\ delivery'[j].open => delivery[j].open
      /\ ~settle => delivery'[j].open = delivery[j].open
  BY <1>5, <1>6
<1> QED BY <1>1, <1>6, <1>7, <1>8 DEF j

\* A handler that takes up a Job whose event is open.
LEMMA TakeFacts ==
  ASSUME WorkTyped, NEW w \in Worker, NEW j \in Job, delivery[j].open,
         NEW jobRev \in Nat, NEW targetRev \in Nat, Take(w, j, jobRev, targetRev)
  PROVE  /\ worker' \in [Worker -> Local]
         /\ worker'[w].job = j /\ worker'[w].jobRev = jobRev /\ worker'[w].targetRev = targetRev
         /\ \A v \in Worker \ {w} : worker'[v] = worker[v]
         /\ delivery' \in [Job -> [open : BOOLEAN, attempt : Nat]]
         /\ \A i \in Job : delivery'[i].open = delivery[i].open
<1>1. delivery[j].attempt + 1 \in Nat BY DEF WorkTyped
<1>2. delivery' = [delivery EXCEPT ![j] = [open |-> TRUE, attempt |-> delivery[j].attempt + 1]]
  BY DEF Take, Count
<1>3. /\ delivery' \in [Job -> [open : BOOLEAN, attempt : Nat]]
      /\ \A i \in Job : delivery'[i].open = delivery[i].open
  BY <1>1, <1>2 DEF WorkTyped
<1>4. [job |-> j, attempt |-> delivery[j].attempt + 1, jobRev |-> jobRev, targetRev |-> targetRev]
        \in Local
  BY <1>1 DEF Local
<1> QED BY <1>3, <1>4 DEF Take, WorkTyped

\* A handler that returns at once: the event is open as before or closed.
LEMMA AtOnceFacts ==
  ASSUME WorkTyped, NEW j \in Job, delivery[j].open, AcknowledgeAtOnce(j)
  PROVE  /\ delivery' \in [Job -> [open : BOOLEAN, attempt : Nat]]
         /\ \A i \in Job \ {j} : delivery'[i].open = delivery[i].open
<1>1. PICK lost \in BOOLEAN :
        delivery' = [delivery EXCEPT ![j] = [open |-> lost, attempt |-> delivery[j].attempt + 1]]
  BY DEF AcknowledgeAtOnce, Count
<1>2. delivery[j].attempt + 1 \in Nat BY DEF WorkTyped
<1> QED BY <1>1, <1>2 DEF WorkTyped

\* The exhaustion hook closes the event for good.
LEMMA CloseFacts ==
  ASSUME WorkTyped, NEW j \in Job, delivery' = [delivery EXCEPT ![j].open = FALSE]
  PROVE  /\ delivery' \in [Job -> [open : BOOLEAN, attempt : Nat]]
         /\ ~delivery'[j].open
         /\ \A i \in Job \ {j} : delivery'[i].open = delivery[i].open
BY DEF WorkTyped

\* A request opens the event of its Job.
LEMMA AddFacts ==
  ASSUME WorkTyped, NEW j \in Job, NEW r, AddJob(j, r)
  PROVE  /\ job[j].status = "absent" /\ job' = [job EXCEPT ![j] = r]
         /\ UNCHANGED <<worker, performed, cancel>>
         /\ delivery' \in [Job -> [open : BOOLEAN, attempt : Nat]]
         /\ delivery'[j].open
         /\ \A i \in Job \ {j} : delivery'[i].open = delivery[i].open
BY DEF AddJob, WorkTyped

\* A cancellation that reads a Job.
LEMMA ReadFacts ==
  ASSUME WorkTyped, NEW j \in Job, job[j].rev \in Nat, ReadForCancel(j)
  PROVE  cancel' \in Read /\ Reads /\ UNCHANGED <<job, delivery, worker, performed>>
<1>1. cancel' = [job |-> j, status |-> job[j].status, rev |-> job[j].rev] /\ job[j].status \in Live
  BY DEF ReadForCancel, Cancels
<1>2. cancel' \in Read BY <1>1 DEF Read
<1> QED BY <1>1, <1>2 DEF ReadForCancel, Reads
=============================================================================
