----------------------------- MODULE IdentityMail -----------------------------
(***************************************************************************)
(* The outbox of identity e-mails (infrastructure/identity_email_outbox):  *)
(* the messages of one recipient, the workers that lease, send and         *)
(* acknowledge them, and the erasure that account deletion asks for.       *)
(*                                                                         *)
(* A message is enqueued by the transaction of the sign-in step that needs *)
(* it; the hourly budget may refuse it, so enqueueing is a free choice.    *)
(* SMTP is called between two transactions: it may accept a message and    *)
(* the worker still see an error, and no acknowledgement compares times.   *)
(* A lease is named by its message and attempt number.                     *)
(***************************************************************************)
EXTENDS FiniteSets, Integers

CONSTANTS Mail,         \* the messages, numbered by id
          Unreadable,   \* messages whose payload does not decrypt
          Worker, Nobody,
          MaxAttempts,  \* max_attempts of the worker
          Batch,        \* its batch_size
          MaxFaults     \* bound: stalls, crashes and lost acknowledgements

ASSUME MailAssumption    == Mail \subseteq Nat /\ Unreadable \subseteq Mail
ASSUME WorkerAssumption  == Nobody \notin Worker
ASSUME AttemptAssumption == {MaxAttempts, Batch} \subseteq Nat \ {0} /\ MaxFaults \in Nat

VARIABLES row,       \* row[m]: the identity_email_outbox row of m
          worker,    \* worker[w]: run_once of worker w
          ended,     \* the leases whose time is over
          accepted,  \* the claims under which SMTP accepted the message
          faults

mailVars == <<row, worker, ended, accepted, faults>>

Lease == Mail \X Nat
Row == [status : {"absent", "pending", "leased", "sent", "dead", "gone"},
        attempts : Nat, owner : Worker \cup {Nobody}, due : BOOLEAN]
\* claim[m] is the attempt number of m in the batch, 0 outside it.
Run == [step : {"idle", "serving", "accepted", "failed"}, claim : [Mail -> Nat]]

NoClaim == [m \in Mail |-> 0]
MailTypeOK ==
  /\ row \in [Mail -> Row] /\ worker \in [Worker -> Run]
  /\ ended \subseteq Lease /\ accepted \subseteq Lease /\ faults \in 0..MaxFaults
  /\ \A m \in Mail : row[m].status = "leased" <=> row[m].owner # Nobody
  /\ \A w \in Worker : worker[w].step = "idle" <=> worker[w].claim = NoClaim

NoRun == [step |-> "idle", claim |-> NoClaim]
MailInit ==
  /\ row = [m \in Mail |->
              [status |-> "absent", attempts |-> 0, owner |-> Nobody, due |-> FALSE]]
  /\ worker = [w \in Worker |-> NoRun]
  /\ ended = {} /\ accepted = {} /\ faults = 0

Fault == faults < MaxFaults /\ faults' = faults + 1

-----------------------------------------------------------------------------
LeaseOf(m) == <<m, row[m].attempts>>
Live(m)    == row[m].status = "leased" /\ LeaseOf(m) \notin ended

\* A batch is worked through in the order of the ids.
Todo(w) == {m \in Mail : worker[w].claim[m] # 0}
IsCurrent(w, m) == m \in Todo(w) /\ \A n \in Todo(w) : m <= n
ClaimOf(w, m) == <<m, worker[w].claim[m]>>

\* status = 'leased' AND lease_owner = worker AND attempts = claimed.attempts
HoldsAnyLease(w, m) == row[m].status = "leased"
Holds(w, m) == row[m].status = "leased" /\ row[m].owner = w
               /\ row[m].attempts = worker[w].claim[m]

StepTo(w, step) == worker' = [worker EXCEPT ![w].step = step]
Without(r, m) == IF \A n \in Mail \ {m} : r.claim[n] = 0 THEN NoRun
                 ELSE [step |-> "serving", claim |-> [r.claim EXCEPT ![m] = 0]]
NextClaim(w, m) == worker' = [worker EXCEPT ![w] = Without(worker[w], m)]

Unleased(r, status) == [r EXCEPT !.status = status, !.owner = Nobody, !.due = FALSE]

-----------------------------------------------------------------------------
Enqueue(m) ==
  /\ row[m].status = "absent"
  /\ row' = [row EXCEPT ![m].status = "pending", ![m].due = TRUE]
  /\ UNCHANGED <<worker, ended, accepted, faults>>

\* FOR UPDATE SKIP LOCKED: any due messages, at most a batch.
DuePending(m) == row[m].status = "pending" /\ row[m].due
Claimable(m) == \/ DuePending(m)
                \/ row[m].status = "leased" /\ LeaseOf(m) \in ended

Leased(r, w) == [status |-> "leased", attempts |-> r.attempts + 1, owner |-> w, due |-> FALSE]

ClaimBatch(w) ==
  /\ worker[w].step = "idle"
  /\ \E S \in SUBSET {m \in Mail : Claimable(m)} :
       /\ S # {} /\ Cardinality(S) <= Batch
       /\ row' = [m \in Mail |-> IF m \in S THEN Leased(row[m], w) ELSE row[m]]
       /\ worker' = [worker EXCEPT ![w] =
            [step |-> "serving",
             claim |-> [m \in Mail |-> IF m \in S THEN row[m].attempts + 1 ELSE 0]]]
  /\ UNCHANGED <<ended, accepted, faults>>

-----------------------------------------------------------------------------
(* run_once on the message at hand, which has no transaction open while it *)
(* decrypts and sends.                                                     *)
Serving(w, m, step) == worker[w].step = step /\ IsCurrent(w, m)

Send(w, m) ==
  /\ Serving(w, m, "serving") /\ m \notin Unreadable
  /\ accepted' = accepted \cup {ClaimOf(w, m)}
  /\ StepTo(w, "accepted")
  /\ UNCHANGED <<row, ended, faults>>

\* SMTP reports an error, perhaps after it has accepted; or decryption fails.
Fail(w, m) ==
  /\ Serving(w, m, "serving")
  /\ \/ UNCHANGED accepted
     \/ m \notin Unreadable /\ accepted' = accepted \cup {ClaimOf(w, m)}
  /\ StepTo(w, "failed")
  /\ UNCHANGED <<row, ended, faults>>

MarkSentAnyway(w, m) ==
  row' = [row EXCEPT ![m] = IF row[m].status # "gone" THEN Unleased(@, "sent") ELSE @]
MarkSent(w, m) == row' = [row EXCEPT ![m] = IF Holds(w, m) THEN Unleased(@, "sent") ELSE @]

AcknowledgeSuccess(w, m) ==
  /\ Serving(w, m, "accepted")
  /\ MarkSent(w, m) /\ NextClaim(w, m)
  /\ UNCHANGED <<ended, accepted, faults>>

\* The acknowledgement raises, committed or not: taken for a transport failure.
AcknowledgementLost(w, m) ==
  /\ Serving(w, m, "accepted") /\ Fault
  /\ MarkSent(w, m) \/ UNCHANGED row
  /\ StepTo(w, "failed")
  /\ UNCHANGED <<ended, accepted>>

Terminal(w, m) == m \in Unreadable \/ worker[w].claim[m] >= MaxAttempts
AcknowledgeFailure(w, m) ==
  /\ Serving(w, m, "failed")
  /\ row' = [row EXCEPT ![m] =
       IF ~Holds(w, m) THEN @ ELSE Unleased(@, IF Terminal(w, m) THEN "dead" ELSE "pending")]
  /\ NextClaim(w, m)
  /\ UNCHANGED <<ended, accepted, faults>>

\* The process dies or is cancelled, or acknowledge_failure raises: the rest
\* of the batch is dropped, and its rows stay leased.
Die(w) ==
  /\ worker[w].step # "idle" /\ Fault
  /\ worker' = [worker EXCEPT ![w] = NoRun]
  /\ UNCHANGED <<row, ended, accepted>>

-----------------------------------------------------------------------------
\* The lease of a message nobody works on runs out; or, a fault, that of a
\* message still in somebody's batch.
LeaseEnds(m) ==
  /\ Live(m)
  /\ IF \E w \in Worker : Holds(w, m) THEN Fault ELSE UNCHANGED faults
  /\ ended' = ended \cup {LeaseOf(m)}
  /\ UNCHANGED <<row, worker, accepted>>

BecomeDue(m) ==
  /\ row[m].status = "pending" /\ ~row[m].due
  /\ row' = [row EXCEPT ![m].due = TRUE]
  /\ UNCHANGED <<worker, ended, accepted, faults>>

\* purge_retained
Purge(m) ==
  /\ row[m].status \in {"sent", "dead"}
  /\ row' = [row EXCEPT ![m].status = "gone"]
  /\ UNCHANGED <<worker, ended, accepted, faults>>

\* erase_recipient: the whole mail of the recipient, unless a lease is live.
ErasableAnyway == TRUE
Erasable == \A m \in Mail : ~Live(m)
Erase ==
  /\ Erasable
  /\ row' = [m \in Mail |-> IF row[m].status = "absent" THEN row[m] ELSE Unleased(row[m], "gone")]
  /\ row' # row
  /\ UNCHANGED <<worker, ended, accepted, faults>>

MailNext ==
  \/ \E m \in Mail : Enqueue(m) \/ LeaseEnds(m) \/ BecomeDue(m) \/ Purge(m)
  \/ \E w \in Worker : ClaimBatch(w) \/ Die(w)
  \/ \E w \in Worker, m \in Mail :
       \/ Send(w, m) \/ Fail(w, m) \/ AcknowledgeSuccess(w, m)
       \/ AcknowledgementLost(w, m) \/ AcknowledgeFailure(w, m)
  \/ Erase

MailSpec == MailInit /\ [][MailNext]_mailVars

\* _run_identity_email_loop polls until shutdown, SMTP calls have a timeout,
\* time passes.  SMTP may refuse every message.
MailFairness ==
  /\ \A w \in Worker : WF_mailVars(ClaimBatch(w))
  /\ \A w \in Worker, m \in Mail :
       /\ WF_mailVars(Send(w, m) \/ Fail(w, m))
       /\ WF_mailVars(AcknowledgeSuccess(w, m)) /\ WF_mailVars(AcknowledgeFailure(w, m))
  /\ \A m \in Mail : WF_mailVars(LeaseEnds(m)) /\ WF_mailVars(BecomeDue(m))

FairMailSpec == MailSpec /\ MailFairness

-----------------------------------------------------------------------------
(* PROPERTIES                                                              *)

\* A worker within its lease has the row it is sending: neither another worker
\* nor erasure nor retention takes a message away under a running SMTP call.
\* What it has acknowledged is over.
LeaseHolds == \A w \in Worker : \A m \in Todo(w) :
  ClaimOf(w, m) \notin ended /\ ~Serving(w, m, "failed") => Holds(w, m)

\* A row says 'sent' only if SMTP accepted the message under the very claim that
\* is recorded in it, whatever late workers acknowledge.
SentWasAccepted == \A m \in Mail : row[m].status = "sent" => LeaseOf(m) \in accepted

\* The outbox keeps what MailDelivery promises: no message is mailed that no worker
\* was given, none settles twice or comes back, and a recipient's mail goes whole.
Delivery == INSTANCE MailDelivery WITH
  mail   <- [m \in Mail |-> IF row[m].status \in {"pending", "leased"} THEN "open"
                            ELSE row[m].status],
  handed <- {m \in Mail : row[m].attempts > 0},
  held   <- {m \in Mail : Live(m)},
  taken  <- {c[1] : c \in accepted}
DeliversMail == Delivery!DSpec

\* Every message is sent, given up or erased, although SMTP may refuse it for
\* ever and workers stall and die (finitely often).
MailSettles == \A m \in Mail :
  row[m].status = "pending" ~> row[m].status \in {"sent", "dead", "gone"}
=============================================================================
