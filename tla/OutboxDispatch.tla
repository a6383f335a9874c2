---------------------------- MODULE OutboxDispatch ----------------------------
(***************************************************************************)
(* The unified outbox (agent.outbox_events) and the dispatch workers of    *)
(* one domain: OutboxDispatchService.run_once over the SQL functions       *)
(* claim / renew / complete / retry / purge, with the claim function as    *)
(* migration 0027 leaves it.                                               *)
(*                                                                         *)
(* Time is abstracted to three facts that only time changes: a pending     *)
(* row's next_attempt_at has come (due), a processing row's                *)
(* lease_expires_at has passed (lapsed), and a terminal row's replay       *)
(* window is over (any terminal row may be purged).  A lease token is a    *)
(* value no row and no worker uses.  A handler is a domain transaction     *)
(* that commits at most once (the contract of OutboxEventHandler and       *)
(* OutboxExhaustionHandler), run by whoever believes to hold the claim.    *)
(***************************************************************************)
EXTENDS Naturals, FiniteSets

CONSTANTS Event,        \* outbox rows, numbered in (occurred_at, id) order
          Work,         \* those whose event_type is in the consumer allowlist
          Poison,       \* those whose handler and whose exhaustion hook always raise
          Worker,       \* dispatch loops, each running run_once for ever
          Token, NoToken,
          MaxAttempts,  \* settings.maximum_attempts
          Batch,        \* settings.batch_size
          MaxFaults     \* bound: crashes, stalls and storage errors of a behaviour

ASSUME EventAssumption  == Event \subseteq Nat /\ Work \subseteq Event /\ Poison \subseteq Work
ASSUME TokenAssumption  == NoToken \notin Token
ASSUME BoundAssumption  == /\ MaxAttempts \in Nat \ {0}
                           /\ Batch \in Nat \ {0}
                           /\ MaxFaults \in Nat

VARIABLES row,      \* row[e]: the columns of the outbox row of e
          effect,   \* effect[e]: the domain resources e owns: open, done or compensated
          worker,   \* worker[w]: the locals of w's run_once
          faults    \* faults so far, bounded by MaxFaults

vars == <<row, effect, worker, faults>>

Status      == {"absent", "pending", "processing", "published", "failed", "purged"}
EffectState == {"none", "done", "compensated"}
Phase       == {"idle", "handling", "completing", "exhausting", "retrying"}

Row == [status : Status, attempt : 0..MaxAttempts, token : Token \cup {NoToken},
        due : BOOLEAN, lapsed : BOOLEAN, capped : BOOLEAN]

\* todo: claims of the batch not yet finished; attempts: their attempt_count.
Local == [phase : Phase, token : Token \cup {NoToken}, todo : SUBSET Event,
          attempts : [Event -> 0..MaxAttempts]]

TypeOK == /\ row \in [Event -> Row]
          /\ effect \in [Event -> EffectState]
          /\ worker \in [Worker -> Local]
          /\ faults \in 0..MaxFaults

-----------------------------------------------------------------------------
NoRow == [status |-> "absent", attempt |-> 0, token |-> NoToken,
          due |-> FALSE, lapsed |-> FALSE, capped |-> FALSE]
Idle  == [phase |-> "idle", token |-> NoToken, todo |-> {},
          attempts |-> [e \in Event |-> 0]]

Init == /\ row    = [e \in Event |-> NoRow]
        /\ effect = [e \in Event |-> "none"]
        /\ worker = [w \in Worker |-> Idle]
        /\ faults = 0

Fault == faults < MaxFaults /\ faults' = faults + 1

\* The claim run_once is working on: claims are returned in occurrence order.
IsCurrent(w, e) == /\ e \in worker[w].todo
                   /\ \A f \in worker[w].todo : e <= f

\* event.status = 'processing' AND event.lease_token_hash = candidate.
Owns(w, e) == /\ row[e].status = "processing"
              /\ row[e].token = worker[w].token

InUse == {row[e].token : e \in Event} \cup {worker[w].token : w \in Worker}

-----------------------------------------------------------------------------
\* initial_outbox_lifecycle: work waits for its consumer, a notification is
\* published by the transaction that inserts it.
Inserted(r, e) == IF e \in Work THEN [r EXCEPT !.status = "pending", !.due = TRUE]
                                ELSE [r EXCEPT !.status = "published"]

Enqueue(e) ==
  /\ row[e].status = "absent"
  /\ row' = [row EXCEPT ![e] = Inserted(row[e], e)]
  /\ UNCHANGED <<effect, worker, faults>>

ClaimableBefore0027(e) ==
  /\ row[e].attempt < MaxAttempts
  /\ \/ row[e].status = "pending" /\ row[e].due
     \/ row[e].status = "processing" /\ row[e].lapsed
Claimable(e) ==
  \/ row[e].status = "pending" /\ row[e].due /\ row[e].attempt < MaxAttempts
  \/ row[e].status = "processing" /\ row[e].lapsed

ReclaimedAtCap(r) == r.status = "processing" /\ r.attempt >= MaxAttempts

LeasedBy(r, t) ==
  [r EXCEPT !.status = "processing", !.token = t, !.due = FALSE, !.lapsed = FALSE]
ClaimedRow(r, t) ==
  IF ReclaimedAtCap(r)
  THEN [LeasedBy(r, t) EXCEPT !.capped = TRUE]
  ELSE [LeasedBy(r, t) EXCEPT !.capped = FALSE, !.attempt = r.attempt + 1]

\* ORDER BY processing first ... LIMIT batch: S is a full batch and takes a
\* pending row only when every lapsed lease is in it.
IsBatch(S) ==
  LET all == {e \in Event : Claimable(e)}
  IN  /\ S # {} /\ S \subseteq all
      /\ Cardinality(S) <= Batch
      /\ S = all \/ Cardinality(S) = Batch
      /\ (\E e \in S : row[e].status = "pending")
           => \A e \in all : row[e].status = "processing" => e \in S

\* lease_factory(): 32 random bytes, here a value nobody uses.
StaleToken == CHOOSE t \in Token : TRUE
FreshToken == CHOOSE t \in Token : t \notin InUse

Claim(w) ==
  /\ worker[w].phase = "idle"
  /\ \E t \in Token : t \notin InUse
  /\ \E S \in SUBSET Event :
       /\ IsBatch(S)
       /\ row' = [e \in Event |-> IF e \in S THEN ClaimedRow(row[e], FreshToken) ELSE row[e]]
       /\ worker' = [worker EXCEPT ![w] =
            [phase |-> "handling", token |-> FreshToken, todo |-> S,
             attempts |-> [e \in Event |-> IF e \in S THEN row'[e].attempt ELSE 0]]]
  /\ UNCHANGED <<effect, faults>>

\* run_once goes on to the next claim of the batch, or returns.
WithoutClaim(l, e) ==
  IF l.todo = {e} THEN Idle
  ELSE [l EXCEPT !.phase = "handling", !.todo = l.todo \ {e}, !.attempts[e] = 0]
NextClaim(w, e) == worker' = [worker EXCEPT ![w] = WithoutClaim(worker[w], e)]

\* An exception leaves run_once: the rest of the batch is dropped, still leased.
AbortBatch(w) == worker' = [worker EXCEPT ![w] = Idle]

Enter(w, phase) == worker' = [worker EXCEPT ![w].phase = phase]

-----------------------------------------------------------------------------
(* handler.handle(claim): its transaction takes effect only while the      *)
(* domain resource is still open; it returns once that is settled, and it  *)
(* may fail before or after the commit.  Nothing in it checks the lease.   *)
HandlerCommits(w, e) ==
  /\ worker[w].phase = "handling" /\ IsCurrent(w, e)
  /\ e \notin Poison /\ effect[e] = "none"
  /\ effect' = [effect EXCEPT ![e] = "done"]
  /\ UNCHANGED <<row, worker, faults>>

HandlerReturns(w, e) ==
  /\ worker[w].phase = "handling" /\ IsCurrent(w, e)
  /\ effect[e] # "none"
  /\ Enter(w, "completing")
  /\ UNCHANGED <<row, effect, faults>>

\* _retry: at the cap the exhaustion hook comes before the retry CAS.
HandlerFailsUncompensated(w, e) ==
  /\ worker[w].phase = "handling" /\ IsCurrent(w, e)
  /\ Enter(w, "retrying")
  /\ UNCHANGED <<row, effect, faults>>
HandlerFails(w, e) ==
  /\ worker[w].phase = "handling" /\ IsCurrent(w, e)
  /\ Enter(w, IF worker[w].attempts[e] >= MaxAttempts THEN "exhausting" ELSE "retrying")
  /\ UNCHANGED <<row, effect, faults>>

(* handler.on_exhausted(claim): closes the domain resource if it is open.  *)
HookCommits(w, e) ==
  /\ worker[w].phase = "exhausting" /\ IsCurrent(w, e)
  /\ e \notin Poison /\ effect[e] = "none"
  /\ effect' = [effect EXCEPT ![e] = "compensated"]
  /\ UNCHANGED <<row, worker, faults>>

HookReturns(w, e) ==
  /\ worker[w].phase = "exhausting" /\ IsCurrent(w, e)
  /\ effect[e] # "none"
  /\ Enter(w, "retrying")
  /\ UNCHANGED <<row, effect, faults>>

\* An exception of the hook is raised inside run_once's except clause.
HookRaises(w, e) ==
  /\ worker[w].phase = "exhausting" /\ IsCurrent(w, e)
  /\ IF e \in Poison THEN UNCHANGED faults ELSE Fault
  /\ AbortBatch(w)
  /\ UNCHANGED <<row, effect>>

(* The heartbeat of the claim being worked on (the others get none).       *)
Renew(w, e) ==
  /\ worker[w].phase \in {"handling", "exhausting"} /\ IsCurrent(w, e)
  /\ Owns(w, e) /\ row[e].lapsed
  /\ row' = [row EXCEPT ![e].lapsed = FALSE]
  /\ UNCHANGED <<effect, worker, faults>>

\* Renewal finds another token, or storage fails: OutboxLeaseLost cancels the
\* handler.  Out of handle it skips the claim; out of the hook it leaves run_once.
LeaseLost(w, e) ==
  /\ IsCurrent(w, e)
  /\ IF Owns(w, e) THEN Fault ELSE UNCHANGED faults
  /\ \/ worker[w].phase = "handling" /\ NextClaim(w, e)
     \/ worker[w].phase = "exhausting" /\ AbortBatch(w)
  /\ UNCHANGED <<row, effect>>

-----------------------------------------------------------------------------
(* complete_outbox_event and retry_outbox_event: CAS on event and token.   *)
Settled(r, to) == [r EXCEPT !.status = to, !.token = NoToken, !.lapsed = FALSE]

CompleteUnchecked(w, e) ==
  /\ worker[w].phase = "completing" /\ IsCurrent(w, e)
  /\ row' = [row EXCEPT ![e] = IF @.status = "processing" THEN Settled(@, "published") ELSE @]
  /\ NextClaim(w, e)
  /\ UNCHANGED <<effect, faults>>
Complete(w, e) ==
  /\ worker[w].phase = "completing" /\ IsCurrent(w, e)
  /\ row' = [row EXCEPT ![e] = IF Owns(w, e) THEN Settled(@, "published") ELSE @]
  /\ NextClaim(w, e)
  /\ UNCHANGED <<effect, faults>>

AfterFailure(r) == IF r.attempt >= MaxAttempts THEN Settled(r, "failed")
                                               ELSE Settled(r, "pending")

Retry(w, e) ==
  /\ worker[w].phase = "retrying" /\ IsCurrent(w, e)
  /\ row' = [row EXCEPT ![e] = IF Owns(w, e) THEN AfterFailure(@) ELSE @]
  /\ NextClaim(w, e)
  /\ UNCHANGED <<effect, faults>>

-----------------------------------------------------------------------------
(* Crash, shutdown (CancelledError) or a storage error of the CAS itself:  *)
(* the batch is lost to the process, its rows stay leased.                 *)
Crash(w) ==
  /\ worker[w].phase # "idle"
  /\ Fault
  /\ AbortBatch(w)
  /\ UNCHANGED <<row, effect>>

\* A lease nobody renews runs out: its holder is gone or busy with another claim.
LeaseExpires(e) ==
  /\ row[e].status = "processing" /\ ~row[e].lapsed
  /\ \A w \in Worker : Owns(w, e) => ~IsCurrent(w, e)
  /\ row' = [row EXCEPT ![e].lapsed = TRUE]
  /\ UNCHANGED <<effect, worker, faults>>

\* The holder itself is stalled past its lease.
Stall(w, e) ==
  /\ Owns(w, e) /\ IsCurrent(w, e) /\ ~row[e].lapsed
  /\ Fault
  /\ row' = [row EXCEPT ![e].lapsed = TRUE]
  /\ UNCHANGED <<effect, worker>>

BecomeDue(e) ==
  /\ row[e].status = "pending" /\ ~row[e].due
  /\ row' = [row EXCEPT ![e].due = TRUE]
  /\ UNCHANGED <<effect, worker, faults>>

\* purge_expired_outbox_events
PurgeAny(e) ==
  /\ row[e].status \in {"pending", "published", "failed"}
  /\ row' = [row EXCEPT ![e].status = "purged"]
  /\ UNCHANGED <<effect, worker, faults>>
Purge(e) ==
  /\ row[e].status \in {"published", "failed"}
  /\ row' = [row EXCEPT ![e].status = "purged"]
  /\ UNCHANGED <<effect, worker, faults>>

Finish(w, e) == HandlerReturns(w, e) \/ HandlerFails(w, e)

Next == \/ \E e \in Event : Enqueue(e) \/ LeaseExpires(e) \/ BecomeDue(e) \/ Purge(e)
        \/ \E w \in Worker : Claim(w) \/ Crash(w)
        \/ \E w \in Worker, e \in Event :
             \/ HandlerCommits(w, e) \/ HandlerReturns(w, e) \/ HandlerFails(w, e)
             \/ HookCommits(w, e) \/ HookReturns(w, e) \/ HookRaises(w, e)
             \/ Renew(w, e) \/ LeaseLost(w, e) \/ Stall(w, e)
             \/ Complete(w, e) \/ Retry(w, e)

Spec == Init /\ [][Next]_vars

(***************************************************************************)
(* The dispatch loop of composition.py runs for ever, a handler ends, time *)
(* passes.  Nothing obliges a producer to enqueue, a fault to happen or    *)
(* retention to run.                                                       *)
(***************************************************************************)
Fairness ==
  /\ \A w \in Worker : WF_vars(Claim(w))
  /\ \A w \in Worker, e \in Event :
       /\ WF_vars(Finish(w, e))
       /\ WF_vars(HookCommits(w, e)) /\ WF_vars(HookReturns(w, e))
       /\ WF_vars(e \in Poison /\ HookRaises(w, e))
       /\ WF_vars(Complete(w, e)) /\ WF_vars(Retry(w, e))
  /\ \A e \in Event : WF_vars(LeaseExpires(e)) /\ WF_vars(BecomeDue(e))

FairSpec == Spec /\ Fairness

-----------------------------------------------------------------------------
(* PROPERTIES                                                              *)

Terminal(e) == row[e].status \in {"published", "failed", "purged"}

\* A work row leaves the queue only when the domain resources it owns are
\* closed, by the work itself or by compensation: an outbox row that failed
\* never leaves an open Job or Run behind (OutboxExhaustionHandler).
ClosedBeforeTerminal == \A e \in Work : Terminal(e) => effect[e] # "none"

\* The attempt number a worker decides with is the row's own while it owns
\* the row: run_once decides on compensation from the claim, the SQL decides on
\* 'failed' from the row, and the two must never part.
ClaimIsCurrent == \A w \in Worker : \A e \in worker[w].todo :
                    Owns(w, e) => worker[w].attempts[e] = row[e].attempt

\* Two dispatchers never both own a row: of all workers still executing the
\* handler of an event, at most one can settle it.
OneOwner == \A w, v \in Worker : \A e \in worker[w].todo \cap worker[v].todo :
              Owns(w, e) /\ Owns(v, e) => w = v

\* A row in processing changes hands only after its lease has lapsed, and only
\* its owner, at that claim, settles it.
LeaseStep == \A e \in Event :
  row[e].status = "processing" /\ row'[e].token # row[e].token =>
    \/ row'[e].status = "processing" /\ row[e].lapsed
    \/ \E w \in Worker : Owns(w, e) /\ IsCurrent(w, e) /\ ~IsCurrent(w, e)'
LeaseRespected == [][LeaseStep]_vars

\* A terminal row is never dispatched again, and retention removes only
\* terminal rows: pending and processing work is never swept.
TerminalStep == \A e \in Event :
  /\ Terminal(e) => row'[e].status \in {row[e].status, "purged"}
  /\ row'[e].status = "purged" => Terminal(e)
TerminalIsFinal == [][TerminalStep]_vars

\* Every work row put into the outbox is settled, whatever crashes, stalls and
\* failing handlers (finitely many faults), if exhaustion hooks do not raise.
WorkSettles == \A e \in Work : row[e].status = "pending" ~> Terminal(e)

\* API_V2_HANDOFF: at the attempt cap every domain closes its resources in a
\* stable failed state.  Stated for healthy rows only: those whose own handler
\* and exhaustion hook do what they promise.
ExhaustedCloses ==
  \A e \in Work \ Poison : row[e].attempt = MaxAttempts ~> effect[e] # "none"

\* The abstract delivery this dispatcher implements.
ItemOf(s) == IF s \in {"pending", "processing"} THEN "open"
             ELSE IF s = "published" THEN "delivered"
             ELSE IF s = "failed" THEN "abandoned"
             ELSE IF s = "purged" THEN "gone" ELSE "absent"
Delivery == INSTANCE WorkDelivery WITH item <- [e \in Event |-> ItemOf(row[e].status)]
Implements == Delivery!DSpec
=============================================================================
