--------------------------- MODULE IdempotentCommand ---------------------------
(***************************************************************************)
(* The receipts of API V2 (identity.api_v2_idempotency_records) and the    *)
(* callers of AtomicPostgresIdempotencyExecutor: execute, which claims,    *)
(* runs the command and stores the receipt in one transaction, and         *)
(* execute_prepared, which holds a session advisory lock, looks for a      *)
(* receipt, prepares external work outside any transaction, and then does  *)
(* the same.  Beside them the retention job, and crashes at every step.    *)
(*                                                                         *)
(* A scope is (user, workspace, method, path, key); its path decides which *)
(* of the two executors serves it.  A body stands for the request          *)
(* fingerprint.  The domain command is one outcome: "ok" (its units of     *)
(* work stay) or "problem" (a DomainError: they rolled back to their       *)
(* savepoint and the problem is the response).  A transaction's writes are *)
(* in its caller's locals until it commits, so a rollback forgets them.    *)
(* A refused request (key reused, or in progress) changes nothing and is   *)
(* not an action of its own.                                               *)
(***************************************************************************)
EXTENDS Naturals, Sequences

CONSTANTS Caller,    \* HTTP requests in progress, each serving one after another
          Scopes,    \* idempotency scopes
          Prepared,  \* those whose endpoint uses execute_prepared
          Bodies,    \* request fingerprints
          Key,       \* the 64-bit advisory-lock keys
          LockKey,   \* _scope_lock_key: scopes may collide
          Nobody, NoReceipt,
          Retention, \* of a completed receipt
          MaxNow     \* bound: the clock stops there

ASSUME ScopeAssumption == Prepared \subseteq Scopes /\ LockKey \in [Scopes -> Key]
ASSUME TimeAssumption  == Retention \in Nat \ {0} /\ MaxNow \in Nat
ASSUME NoneAssumption  == /\ Nobody \notin Caller
                          /\ NoReceipt \notin [body : Bodies, outcome : {"ok", "problem"}, done : Nat]

VARIABLES rows,    \* rows[s]: the committed receipt row of scope s
          held,    \* held[k]: the caller whose session holds advisory lock k
          local,   \* local[c]: the locals and the open transaction of c's request
          now,     \* the clock of hosts and database
          settled, \* settled[s]: the commands committed in scope s, in order
          answer   \* the last response that reached a client

vars == <<rows, held, local, now, settled, answer>>

Outcome  == {"ok", "problem"}
Response == [body : Bodies, outcome : Outcome, done : Nat]

\* entered: the envelope is open and its now is read.  claimed, operated,
\* completed: a pending row, the command, its receipt are in the transaction.
\* stray: the session is gone, and its lock, but prepare is still running.
Phase == {"idle", "locked", "preparing", "stray", "prepared",
          "entered", "claimed", "operated", "completed"}
InTransaction == {"claimed", "operated", "completed"}

NoRow      == [status |-> "none"]
PendingRow == [status : {"pending"}, body : Bodies, expires : Nat]
ReceiptRow == [status : {"completed"}, body : Bodies, resp : Response, expires : Nat]
Idle       == [phase |-> "idle"]
Request    == [phase : Phase \ {"idle"}, scope : Scopes, body : Bodies,
               at : Nat, outcome : Outcome, done : Nat]
Answer     == [scope : Scopes, body : Bodies, resp : Response]

TypeOK == /\ rows \in [Scopes -> {NoRow} \cup PendingRow \cup ReceiptRow]
          /\ held \in [Key -> Caller \cup {Nobody}]
          /\ local \in [Caller -> {Idle} \cup Request]
          /\ now \in 0..MaxNow
          /\ settled \in [Scopes -> Seq(Response)]
          /\ answer \in Answer \cup {NoReceipt}

-----------------------------------------------------------------------------
\* Rows left pending by earlier releases may be there from the start.
Init == /\ rows \in [Scopes -> {NoRow} \cup [status : {"pending"}, body : Bodies,
                                             expires : {Retention}]]
        /\ held = [k \in Key |-> Nobody]
        /\ local = [c \in Caller |-> Idle]
        /\ now = 0
        /\ settled = [s \in Scopes |-> << >>]
        /\ answer = NoReceipt

In(c, phase) == local[c].phase = phase
LockOf(c)    == LockKey[local[c].scope]

\* pg_try_advisory_lock, pg_try_advisory_xact_lock: re-entrant in a session.
MayLock(c, s) == held[LockKey[s]] \in {Nobody, c}

\* The end of a request gives back whatever its session holds.
Released(c) == [k \in Key |-> IF held[k] = c THEN Nobody ELSE held[k]]
EndRequest(c) == /\ local' = [local EXCEPT ![c] = Idle]
                 /\ held' = Released(c)

\* Mutant of Expired: one unit early.
ExpiredEarly(row, at) == row.status = "completed" /\ row.expires <= at + 1

Expired(row, at) == row.status = "completed" /\ row.expires <= at

\* Mutant of Claimable: an overdue pending row is taken over.
ClaimableOverdue(row, at) == row # NoRow => row.expires <= at
\* Mutant of Replays: the fingerprint is not compared.
ReplaysAnyBody(row, body, at) == row.status = "completed" /\ ~Expired(row, at)

\* _decision_from_existing, as read at time at by a request with this body.
Claimable(row, at)     == row = NoRow \/ Expired(row, at)
Replays(row, body, at) == /\ row.status = "completed" /\ ~Expired(row, at)
                          /\ row.body = body

AnswerWith(c, resp) == [scope |-> local[c].scope, body |-> local[c].body, resp |-> resp]

-----------------------------------------------------------------------------
NewRequest(s, b, phase, at) == [phase |-> phase, scope |-> s, body |-> b, at |-> at,
                                outcome |-> "ok", done |-> 0]

\* execute: the envelope is entered and its clock read before the lock.
Execute(c, s, b) ==
  /\ In(c, "idle") /\ s \notin Prepared
  /\ local' = [local EXCEPT ![c] = NewRequest(s, b, "entered", now)]
  /\ UNCHANGED <<rows, held, now, settled, answer>>

\* execute_prepared: coordination_lock.
Coordinate(c, s, b) ==
  /\ In(c, "idle") /\ s \in Prepared
  /\ MayLock(c, s)
  /\ held' = [held EXCEPT ![LockKey[s]] = c]
  /\ local' = [local EXCEPT ![c] = NewRequest(s, b, "locked", 0)]
  /\ UNCHANGED <<rows, now, settled, answer>>

\* _preflight_on_connection commits the removal of an expired receipt and
\* leaves nothing pending.
PreflightFree(c) ==
  /\ In(c, "locked")
  /\ Claimable(rows[local[c].scope], now)
  /\ rows' = [rows EXCEPT ![local[c].scope] = NoRow]
  /\ local' = [local EXCEPT ![c].phase = "preparing"]
  /\ UNCHANGED <<held, now, settled, answer>>

PreflightReplay(c) ==
  /\ In(c, "locked")
  /\ Replays(rows[local[c].scope], local[c].body, now)
  /\ answer' = AnswerWith(c, rows[local[c].scope].resp)
  /\ EndRequest(c)
  /\ UNCHANGED <<rows, now, settled>>

\* prepare: a problem may be found before or after the external call.
Prepare(c, outcome) ==
  /\ In(c, "preparing")
  /\ local' = [local EXCEPT ![c].phase = "prepared", ![c].outcome = outcome]
  /\ UNCHANGED <<rows, held, now, settled, answer>>

\* The connection is lost while prepare runs: PostgreSQL frees the lock, the
\* process does not notice before it opens the envelope.
LoseSession(c) ==
  /\ In(c, "preparing")
  /\ held' = Released(c)
  /\ local' = [local EXCEPT ![c].phase = "stray"]
  /\ UNCHANGED <<rows, now, settled, answer>>

StrayPrepare(c) ==
  /\ In(c, "stray")
  /\ EndRequest(c)
  /\ UNCHANGED <<rows, now, settled, answer>>

Enter(c) ==
  /\ In(c, "prepared")
  /\ local' = [local EXCEPT ![c].phase = "entered", ![c].at = now]
  /\ UNCHANGED <<rows, held, now, settled, answer>>

-----------------------------------------------------------------------------
\* _claim_in_session: the lock, then the row, removed if expired, then a
\* pending row of this transaction.
Claim(c) ==
  /\ In(c, "entered")
  /\ MayLock(c, local[c].scope)
  /\ Claimable(rows[local[c].scope], local[c].at)
  /\ held' = [held EXCEPT ![LockOf(c)] = c]
  /\ local' = [local EXCEPT ![c].phase = "claimed"]
  /\ UNCHANGED <<rows, now, settled, answer>>

ClaimReplay(c) ==
  /\ In(c, "entered")
  /\ MayLock(c, local[c].scope)
  /\ Replays(rows[local[c].scope], local[c].body, local[c].at)
  /\ answer' = AnswerWith(c, rows[local[c].scope].resp)
  /\ EndRequest(c)
  /\ UNCHANGED <<rows, now, settled>>

\* captured_operation, captured_commit: a failed preparation is its response.
Operate(c, outcome) ==
  /\ In(c, "claimed")
  /\ local[c].outcome = "problem" => outcome = "problem"
  /\ local' = [local EXCEPT ![c].phase = "operated", ![c].outcome = outcome]
  /\ UNCHANGED <<rows, held, now, settled, answer>>

\* _complete_in_session: completed_at is read, the receipt is in the transaction.
Complete(c) ==
  /\ In(c, "operated")
  /\ local' = [local EXCEPT ![c].phase = "completed", ![c].done = now]
  /\ UNCHANGED <<rows, held, now, settled, answer>>

ResponseOf(c) == [body |-> local[c].body, outcome |-> local[c].outcome, done |-> local[c].done]

\* Mutant of ReceiptOf: retention counted from the claim.
ReceiptFromClaim(c) == [status |-> "completed", body |-> local[c].body, resp |-> ResponseOf(c),
                        expires |-> local[c].at + Retention]

ReceiptOf(c) == [status |-> "completed", body |-> local[c].body, resp |-> ResponseOf(c),
                 expires |-> local[c].done + Retention]

\* The envelope ends: command and receipt commit together, the locks are
\* given back; the client may never see the answer.
Commit(c) ==
  /\ In(c, "completed")
  /\ rows' = [rows EXCEPT ![local[c].scope] = ReceiptOf(c)]
  /\ settled' = [settled EXCEPT ![local[c].scope] = Append(@, ResponseOf(c))]
  /\ answer' \in {answer, AnswerWith(c, ResponseOf(c))}
  /\ EndRequest(c)
  /\ UNCHANGED now

\* A conflict, an unexpected exception, a cancellation, a crash or a lost
\* connection: the transaction rolls back, nothing of it remains.
Abort(c) ==
  /\ ~In(c, "idle")
  /\ EndRequest(c)
  /\ UNCHANGED <<rows, now, settled, answer>>

-----------------------------------------------------------------------------
\* A claim has locked the row it found, until its transaction ends.
RowLocked(s) == \E c \in Caller : local[c].phase \in InTransaction /\ local[c].scope = s

\* Mutant of Purgeable: receipts are purged whatever their age.
PurgeableAny(s) == rows[s].status = "completed" /\ ~RowLocked(s)

Purgeable(s) == Expired(rows[s], now) /\ ~RowLocked(s)

\* maintain_api_v2_idempotency_receipts: a batch of expired receipts, never a
\* pending row; rows another transaction has locked are skipped.
Purge(S) ==
  /\ S # {} /\ \A s \in S : Purgeable(s)
  /\ rows' = [s \in Scopes |-> IF s \in S THEN NoRow ELSE rows[s]]
  /\ UNCHANGED <<held, local, now, settled, answer>>

Tick == /\ now < MaxNow /\ now' = now + 1
        /\ UNCHANGED <<rows, held, local, settled, answer>>

Serve(c) ==
  \/ \E s \in Scopes, b \in Bodies : Execute(c, s, b) \/ Coordinate(c, s, b)
  \/ PreflightFree(c) \/ PreflightReplay(c)
  \/ \E outcome \in Outcome : Prepare(c, outcome)
  \/ LoseSession(c) \/ StrayPrepare(c)
  \/ Enter(c) \/ Claim(c) \/ ClaimReplay(c)
  \/ \E outcome \in Outcome : Operate(c, outcome)
  \/ Complete(c) \/ Commit(c) \/ Abort(c)

Next == \/ \E c \in Caller : Serve(c)
        \/ \E S \in SUBSET Scopes : Purge(S)
        \/ Tick

Spec == Init /\ [][Next]_vars

-----------------------------------------------------------------------------
\* Two commands of one scope are at least Retention apart, however the
\* requests, the retention job, crashes and stale clocks interleave
\* (execute, execute_prepared).
OncePerWindow ==
  \A s \in Scopes : \A i, j \in DOMAIN settled[s] :
    i < j => settled[s][i].done + Retention <= settled[s][j].done

\* For Retention after it was completed, the last command of a scope has its
\* receipt: a client that lost the answer can fetch it, and a command never
\* committed without it (_complete_in_session, the retention job).
ReceiptIsKept ==
  \A s \in Scopes : \A i \in DOMAIN settled[s] :
    now < settled[s][i].done + Retention =>
      /\ rows[s].status = "completed"
      /\ rows[s].resp = settled[s][i]

\* Every answer is the response of a command committed in that scope for that
\* request: no answer before its commit, none to another body under the same
\* key (_decision_from_existing).
AnswerIsSettled ==
  answer # NoReceipt =>
    /\ answer.resp.body = answer.body
    /\ \E i \in DOMAIN settled[answer.scope] : settled[answer.scope][i] = answer.resp

\* A row found pending is never taken over, completed or purged: it stays for
\* an operator to decide (the module docstring of v2_idempotency.py).
PendingIsKept == [][\A s \in Scopes : rows[s].status = "pending" => rows'[s] = rows[s]]_vars

\* Only one caller at a time works in a scope, whichever executor serves it
\* (coordination_lock, _try_scope_lock).
OneInScope ==
  \A c, d \in Caller :
    /\ c # d
    /\ local[c].phase \in {"locked", "preparing", "prepared"} \cup InTransaction
    /\ local[d].phase \in {"locked", "preparing", "prepared"} \cup InTransaction
    => local[c].scope # local[d].scope

\* The receipts implement "a command settles once".
receipt == [s \in Scopes |-> IF rows[s].status = "completed" THEN rows[s].resp ELSE NoReceipt]

Promise == INSTANCE CommandReceipts

Implements == Promise!RSpec
=============================================================================
