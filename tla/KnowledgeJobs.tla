----------------------------- MODULE KnowledgeJobs -----------------------------
(***************************************************************************)
(* The Jobs of one Knowledge source, or of one Connection: the requests    *)
(* that create them (application/knowledge.py), the worker that executes   *)
(* them in two transactions around an external effect (application and     *)
(* infrastructure/knowledge_worker.py), the generic Job cancellation and   *)
(* its compensation (infrastructure/platform.py).                          *)
(***************************************************************************)
EXTENDS JobWork, Sequences

CONSTANTS TargetType,   \* subset of {"file", "remote", "connection"}
          Content,      \* digests of source material; a remote one may change
          MaxVersion,   \* bound: versions of the source
          MaxEdits      \* bound: edits of the source, other than by Jobs

ASSUME TypeAssumption  == TargetType \subseteq {"file", "remote", "connection"}
ASSUME BoundAssumption == MaxVersion \in Nat /\ MaxEdits \in Nat

VARIABLES target,    \* the KnowledgeSource or Connection row
          version,   \* the source's version rows, in version_no order
          edits      \* edits so far

vars == <<target, version, job, delivery, worker, performed, cancel, edits>>

Active  == {"queued", "fetching"}              \* KnowledgeIngestionStatus.is_active
Stable  == {"not_started", "ready", "stale", "failed", "active"}
Removal == {"deleting", "deleted", "revoking", "revoked"}
Process == {"ingest", "sync"}

\* current: current_version_id; indexed: last_success_at is set.
Target == [type : TargetType, state : Active \cup Stable \cup Removal,
           enabled : BOOLEAN, rev : Nat, current : Nat, indexed : BOOLEAN]
Version == [content : Content, ready : BOOLEAN, chunks : BOOLEAN, by : Job \cup {NoJob}]
\* base, version, prev, enabled: the spec's fencing, pinned and recovery values.
JobRow == [status : Status, kind : Process \cup {"remove"}, rev : Nat,
           base : Nat, version : Nat, prev : Stable, enabled : BOOLEAN]

TypeOK == /\ target \in Target /\ version \in Seq(Version)
          /\ WorkTypeOK(JobRow)
          /\ edits \in 0..MaxEdits

-----------------------------------------------------------------------------
NoRow  == [status |-> "absent", kind |-> "ingest", rev |-> 0, base |-> 0,
           version |-> 0, prev |-> "active", enabled |-> FALSE]
Pending(c) == [content |-> c, ready |-> FALSE, chunks |-> FALSE, by |-> NoJob]

\* create_knowledge_source: a file source is created with the version of its upload.
Created(type) ==
  [type |-> type, enabled |-> TRUE, indexed |-> FALSE,
   state   |-> CASE type = "file" -> "stale" [] type = "remote" -> "not_started"
                 [] OTHER -> "active",
   rev     |-> IF type = "file" THEN 2 ELSE 1,
   current |-> IF type = "file" THEN 1 ELSE 0]

Init ==
  /\ \E t \in TargetType, c \in Content :
       /\ target = Created(t)
       /\ version = IF t = "file" THEN <<Pending(c)>> ELSE <<>>
  /\ WorkInit(NoRow)
  /\ edits = 0

IsSource == target.type # "connection"
Moved(to) == [target EXCEPT !.state = to, !.rev = @ + 1]

-----------------------------------------------------------------------------
(* Requests.                                                               *)
Edit == /\ IsSource /\ edits < MaxEdits
        /\ edits' = edits + 1
        /\ UNCHANGED jobVars

\* update_knowledge_source: name or policy, in any ingestion state.
Revise == Edit /\ target' = [target EXCEPT !.rev = @ + 1] /\ UNCHANGED version

\* create_knowledge_source_version: whatever work is queued or running.
AllocateVersion(c) ==
  /\ Edit
  /\ target.enabled /\ Len(version) < MaxVersion
  /\ version' = Append(version, Pending(c))
  /\ target' = [Moved("stale") EXCEPT !.current = Len(version) + 1]

CreateJob(j, kind, prev) ==
  /\ AddJob(j, [status |-> "queued", kind |-> kind, rev |-> 1, base |-> target.rev + 1,
                version |-> target.current, prev |-> prev, enabled |-> target.enabled])
  /\ UNCHANGED <<version, edits>>

\* create_ingestion_job and create_sync_job; force is the caller's to give.
RequestProcessing(j, kind) ==
  /\ IsSource /\ target.enabled /\ target.state \in Stable
  /\ kind = "sync" => target.type # "file"
  /\ CreateJob(j, kind, target.state)
  /\ target' = Moved("queued")

\* A cancelled removal never restores an active ingestion.
StableState ==
  IF target.state \notin Active THEN target.state
  ELSE IF target.current # 0 /\ target.indexed THEN "stale" ELSE "not_started"

\* delete_knowledge_source, delete_connection
RequestRemoval(j) ==
  /\ target.state \notin Removal
  /\ CreateJob(j, "remove", StableState)
  /\ target' = [Moved(IF IsSource THEN "deleting" ELSE "revoking") EXCEPT !.enabled = FALSE]

-----------------------------------------------------------------------------
(* Cancellation.                                                           *)

\* synchronize_cancellation: a removal that has started cannot be undone.
Awaits(j) == IF job[j].kind = "remove" THEN {"deleting", "revoking"} ELSE Active
CancellableAnyTime(j) == target.state \in Awaits(j)
Cancellable(j) == /\ target.state \in Awaits(j)
                  /\ job[j].kind = "remove" => cancel.status = "queued"

\* The state the Job had taken its target from comes back.
Cancel ==
  LET j == cancel.job
  IN  /\ j # NoJob
      /\ IF Swaps(j) /\ Cancellable(j)
         THEN /\ job' = Withdrawn(j)
              /\ target' = [Moved(job[j].prev) EXCEPT
                              !.enabled = IF job[j].kind = "remove" THEN job[j].enabled ELSE @]
         ELSE UNCHANGED <<job, target>>
      /\ cancel' = NoRead
      /\ UNCHANGED <<version, delivery, worker, performed, edits>>

-----------------------------------------------------------------------------
(* The worker.  claim: one transaction that locks Job and target.          *)

\* What the claim makes of a live Job; superseded and replayed Jobs succeed.
Verdict(j) ==
  IF \/ IsSource /\ job[j].status = "queued" /\ target.rev # job[j].base
     \/ job[j].kind = "remove" /\ target.state \in {"deleted", "revoked"}
  THEN "succeeded"
  ELSE IF target.state \in Awaits(j) THEN "proceed" ELSE "failed"

\* A claim that only succeeds a queued Job does not start it first.
Refused(j, how) == IF how = "failed" THEN StartedAndClosed(j, how) ELSE Closed(j, how)

\* claim returns None: the handler returns and its event is acknowledged.
ClaimNothing(j) ==
  /\ Receives(j)
  /\ \/ JobSettled(j) /\ UNCHANGED job
     \/ /\ ~JobSettled(j) /\ Verdict(j) # "proceed"
        /\ job' = [job EXCEPT ![j] = Refused(j, Verdict(j))]
  /\ AcknowledgeAtOnce(j)
  /\ UNCHANGED <<target, version, worker, performed, cancel, edits>>

\* A running Job is reclaimed: both revisions advance and fence its last claim.
Claim(w, j) ==
  /\ Receives(j) /\ worker[w] = Idle
  /\ ~JobSettled(j) /\ Verdict(j) = "proceed"
  /\ job' = [job EXCEPT ![j].status = "running", ![j].rev = @ + 1]
  /\ target' = Moved(IF job[j].kind = "remove" THEN target.state ELSE "fetching")
  /\ Take(w, j, job[j].rev + 1, target.rev + 1)
  /\ UNCHANGED <<version, performed, cancel, edits>>

\* Credentials are revoked, objects erased, between the two transactions.
Perform(w) ==
  LET j == worker[w].job
  IN  /\ j # NoJob /\ job[j].kind = "remove"
      /\ j \notin performed
      /\ performed' = performed \cup {j}
      /\ UNCHANGED <<target, version, job, delivery, worker, cancel, edits>>

\* _claimed_job, _claimed_source: the second transaction of the claim's holder.
HoldsJobOnly(w) == HoldsJob(w)
Holds(w) == HoldsJob(w) /\ worker[w].targetRev = target.rev

Succeed(w) ==
  /\ job' = [job EXCEPT ![worker[w].job] = Closed(worker[w].job, "succeeded")]
  /\ Release(w, TRUE)
  /\ UNCHANGED <<cancel, edits>>

\* load and _target_version: a file source is read from its first upload; an
\* ingest completes the pending version of its spec, and only if the digest agrees.
Loaded == IF target.type = "file" THEN {version[1].content} ELSE Content
Reuses(j) == /\ job[j].kind = "ingest" /\ job[j].version # 0
             /\ ~version[job[j].version].ready

Indexed(c, j) == [content |-> c, ready |-> TRUE, chunks |-> TRUE, by |-> j]
Publish(v) == target' = [Moved("ready") EXCEPT !.current = v, !.indexed = TRUE]

CompleteProcessing(w) ==
  LET j == worker[w].job
  IN  /\ Holds(w) /\ job[j].kind \in Process /\ target.state = "fetching"
      /\ \E c \in Loaded :
           \/ /\ Reuses(j) /\ version[job[j].version].content = c
              /\ version' = [version EXCEPT ![job[j].version] = Indexed(c, j)]
              /\ Publish(job[j].version)
           \/ /\ ~Reuses(j) /\ Len(version) < MaxVersion
              /\ version' = Append(version, Indexed(c, j))
              /\ Publish(Len(version) + 1)
      /\ performed' = performed \cup {j}
      /\ Succeed(w)

\* complete_source_deletion, complete_connection_revocation
CompleteRemoval(w) ==
  /\ Holds(w) /\ job[worker[w].job].kind = "remove"
  /\ worker[w].job \in performed /\ target.state \in {"deleting", "revoking"}
  /\ target' = Moved(IF IsSource THEN "deleted" ELSE "revoked")
  /\ version' = [v \in DOMAIN version |-> [version[v] EXCEPT !.chunks = FALSE]]
  /\ UNCHANGED performed
  /\ Succeed(w)

\* The Job is terminal already: completion and failure both return quietly.
ReturnLate(w) ==
  /\ worker[w].job # NoJob /\ JobSettled(worker[w].job)
  /\ Release(w, TRUE)
  /\ UNCHANGED <<target, version, job, performed, cancel, edits>>

\* store.fail: a terminal failure, or any failure of the last attempt.
Fail(w) ==
  /\ Holds(w)
  /\ job' = [job EXCEPT ![worker[w].job] = Closed(worker[w].job, "failed")]
  /\ target' = Moved("failed")
  /\ Release(w, TRUE)
  /\ UNCHANGED <<version, performed, cancel, edits>>

\* The handler raises, is cancelled with its lease, or its process dies.
Raise(w) ==
  /\ worker[w].job # NoJob
  /\ Release(w, FALSE)
  /\ UNCHANGED <<target, version, job, performed, cancel, edits>>

\* fail_exhausted: from the Job's columns alone, whoever still works on it.
ExhaustedQueued(j) == IF target.state \in {"queued", "deleting"} THEN Moved("failed") ELSE target
Exhausted(j) == IF target.state \in Awaits(j) THEN Moved("failed") ELSE target
Exhaust(j) ==
  /\ Spent(j)
  /\ IF JobSettled(j) THEN UNCHANGED <<target, job>>
     ELSE job' = [job EXCEPT ![j] = Closed(j, "failed")] /\ target' = Exhausted(j)
  /\ delivery' = [delivery EXCEPT ![j].open = FALSE]
  /\ UNCHANGED <<version, worker, performed, cancel, edits>>

-----------------------------------------------------------------------------
Ends(w) == \/ CompleteProcessing(w) \/ CompleteRemoval(w)
           \/ ReturnLate(w) \/ Fail(w) \/ Raise(w)
Receive(j) == ClaimNothing(j) \/ \E w \in Worker : Claim(w, j)

Next ==
  \/ Revise \/ \E c \in Content : AllocateVersion(c)
  \/ \E j \in Job : \/ \E kind \in Process : RequestProcessing(j, kind)
                    \/ RequestRemoval(j)
                    \/ ReadForCancel(j) /\ UNCHANGED <<target, version, edits>>
                    \/ Receive(j) \/ Exhaust(j)
  \/ Cancel
  \/ \E w \in Worker : Perform(w) \/ Ends(w)

Spec == Init /\ [][Next]_vars

-----------------------------------------------------------------------------
(* PROPERTIES                                                              *)

\* What was erased or revoked outside the database is never offered again: no
\* cancellation, failure or later request brings the target back into use; and a
\* removal is recorded as complete only if it was performed.
Removed == \E j \in performed : job[j].kind = "remove"
RemovalIsKept ==
  /\ Removed => ~target.enabled /\ target.state \in Removal \cup {"failed"}
  /\ target.state \in {"deleted", "revoked"} => Removed

\* A removed target stays so and holds no index, although ingests that started
\* before its removal may finish after it.
RemovedStep == target.state \in {"deleted", "revoked"} =>
  /\ target'.state = target.state
  /\ \A v \in DOMAIN version' : ~version'[v].chunks
RemovedIsFinal == [][RemovedStep]_vars

\* A source being fetched, a Connection being revoked, has a Job in charge of it.
HasJob(kinds, statuses) == \E j \in Job : job[j].kind \in kinds /\ job[j].status \in statuses
InCharge == /\ target.state = "fetching" => HasJob(Process, {"running"})
            /\ target.state = "revoking" => HasJob({"remove"}, Live)

\* A Job is settled once, and publishes at most one version, whatever
\* redeliveries, late handlers and cancellations run against each other.
SettledStep == \A j \in Job : JobSettled(j) =>
  /\ job'[j] = job[j]
  /\ \A v \in DOMAIN version' : version'[v].by = j => v \in DOMAIN version /\ version[v].by = j
SettledIsFinal == [][SettledStep]_vars

\* ADR-0002: "an outdated Job must not overwrite a newer version".
OutdatedStep == version' # version => target'.current >= target.current
OutdatedNeverOverwrites == [][OutdatedStep]_vars
=============================================================================
