------------------------ MODULE IdempotentCommandProofs ------------------------
(***************************************************************************)
(* Theorems about IdempotentCommand for every set of callers, scopes and   *)
(* bodies, every way lock keys collide and every retention.                *)
(***************************************************************************)
EXTENDS IdempotentCommand, SequenceTheorems, TLAPS

\* All commands settled in s have outlived their retention at time t.
Spent(s, t) == \A i \in DOMAIN settled[s] : settled[s][i].done + Retention <= t

\* What the row of a scope says of the commands settled there.
RowInv(s) ==
  /\ \A i \in DOMAIN settled[s] : settled[s][i].done <= now
  /\ \A i, j \in DOMAIN settled[s] : i < j => settled[s][i].done + Retention <= settled[s][j].done
  /\ rows[s].status = "none" => Spent(s, now)
  /\ rows[s].status = "pending" => settled[s] = << >>
  /\ rows[s].status = "completed" =>
       /\ settled[s] # << >>
       /\ rows[s].resp = settled[s][Len(settled[s])]
       /\ rows[s].body = rows[s].resp.body
       /\ rows[s].expires = rows[s].resp.done + Retention

\* Where a request holds the lock of its scope.
Working == {"locked", "preparing", "prepared"} \cup InTransaction

Locked(c) == local[c].phase \in Working => held[LockOf(c)] = c

\* A transaction that has claimed its scope found it free, and it stays so.
Claimed(c) ==
  /\ local[c].phase = "entered" => local[c].at <= now
  /\ local[c].phase \in InTransaction => Claimable(rows[local[c].scope], now)
  /\ local[c].phase = "completed" =>
       local[c].done <= now /\ Spent(local[c].scope, local[c].done)

IInv == /\ TypeOK
        /\ \A s \in Scopes : RowInv(s)
        /\ \A c \in Caller : Locked(c) /\ Claimed(c)
        /\ AnswerIsSettled

USE ScopeAssumption, TimeAssumption, NoneAssumption DEF NoRow, Idle

-----------------------------------------------------------------------------
\* Rows by their status.
LEMMA RowCases ==
  ASSUME TypeOK, NEW s \in Scopes
  PROVE  /\ rows[s].status \in {"none", "pending", "completed"}
         /\ rows[s].status = "none" <=> rows[s] = NoRow
         /\ rows[s].status = "completed" <=> rows[s] \in ReceiptRow
BY DEF TypeOK, PendingRow, ReceiptRow

\* The locals of a request that is under way.
LEMMA Underway ==
  ASSUME TypeOK, NEW c \in Caller, ~In(c, "idle")
  PROVE  local[c] \in Request /\ local[c].scope \in Scopes /\ local[c].body \in Bodies
BY DEF TypeOK, In, Request

\* A caller in any other phase is not idle.
LEMMA NotIdle ==
  ASSUME NEW c \in Caller, NEW p, p # "idle", In(c, p)
  PROVE  ~In(c, "idle")
BY DEF In

\* A command of a scope is a response.
LEMMA SettledType ==
  ASSUME TypeOK, NEW s \in Scopes, NEW i \in DOMAIN settled[s]
  PROVE  settled[s][i] \in Response /\ settled[s][i].done \in Nat
<1>1. settled[s] \in Seq(Response) /\ i \in 1..Len(settled[s])
  BY DEF TypeOK
<1>2. settled[s][i] \in Response
  BY <1>1, ElementOfSeq
<1>3. QED
  BY <1>2 DEF Response

\* What is over before something that is over is over.
LEMMA LaterYet ==
  ASSUME NEW x \in Nat, NEW y \in Nat, NEW t \in Nat, x + Retention <= y, y + Retention <= t
  PROVE  x + Retention <= t
OBVIOUS

\* A claimable scope has no command within its retention, and is not pending.
LEMMA FreeIsSpent ==
  ASSUME TypeOK, NEW s \in Scopes, RowInv(s), NEW t \in Nat, t <= now, Claimable(rows[s], t)
  PROVE  /\ Spent(s, now) /\ rows[s].status # "pending"
         /\ Claimable(rows[s], now)
<1>1. now \in Nat /\ settled[s] \in Seq(Response) /\ Len(settled[s]) \in Nat
  BY DEF TypeOK
<1>2. CASE rows[s] = NoRow
  BY <1>2 DEF RowInv, Claimable
<1>3. CASE Expired(rows[s], t)
  <2>1. rows[s] \in ReceiptRow /\ rows[s].expires <= now
    BY <1>1, <1>3, RowCases DEF Expired, ReceiptRow
  <2>2. Expired(rows[s], now)
    BY <1>3, <2>1 DEF Expired
  <2>3. Spent(s, now)
    <3>. DEFINE n == Len(settled[s])
    <3>1. n \in DOMAIN settled[s] /\ settled[s][n].done + Retention <= now
      <4>1. settled[s] # << >> /\ settled[s][n].done + Retention <= now
        BY <1>3, <2>1 DEF RowInv, Expired
      <4>2. n \in DOMAIN settled[s]
        BY <1>1, <4>1, EmptySeq
      <4>3. QED
        BY <4>1, <4>2
    <3>2. ASSUME NEW i \in DOMAIN settled[s], i # n
          PROVE  settled[s][i].done + Retention <= settled[s][n].done
      BY <1>1, <3>1, <3>2 DEF RowInv
    <3>3. \A i \in DOMAIN settled[s] : settled[s][i].done \in Nat
      BY <1>1, SettledType
    <3>4. ASSUME NEW i \in DOMAIN settled[s] PROVE settled[s][i].done + Retention <= now
      <4>1. CASE i = n
        BY <3>1, <4>1
      <4>2. CASE i # n
        <5>1. settled[s][i].done + Retention <= settled[s][n].done
          BY <3>2, <4>2
        <5>2. settled[s][i].done \in Nat /\ settled[s][n].done \in Nat
          BY <3>1, <3>3
        <5>3. QED
          BY <1>1, <3>1, <5>1, <5>2, LaterYet
      <4>3. QED
        BY <4>1, <4>2
    <3>5. QED
      BY <3>4 DEF Spent
  <2>4. QED
    BY <1>3, <2>2, <2>3 DEF Claimable, Expired
<1>4. QED
  BY <1>2, <1>3 DEF Claimable

-----------------------------------------------------------------------------
\* The types hold at the start, with or without rows left pending.
LEMMA TypeInit == Init => TypeOK
<1>1. ASSUME Init PROVE rows \in [Scopes -> {NoRow} \cup PendingRow \cup ReceiptRow]
  BY <1>1 DEF Init, PendingRow
<1>2. QED
  BY <1>1 DEF Init, TypeOK

\* Giving locks back keeps their type.
LEMMA ReleasedType ==
  ASSUME TypeOK, NEW c \in Caller
  PROVE  Released(c) \in [Key -> Caller \cup {Nobody}]
BY DEF TypeOK, Released

\* So does the end of a request, which leaves the caller idle.
LEMMA EndType ==
  ASSUME TypeOK, NEW c \in Caller, EndRequest(c)
  PROVE  held' \in [Key -> Caller \cup {Nobody}] /\ local' \in [Caller -> {Idle} \cup Request]
BY ReleasedType DEF TypeOK, EndRequest

\* A response sent back is an answer.
LEMMA AnswerType ==
  ASSUME NEW c \in Caller, local[c] \in Request, NEW r \in Response
  PROVE  AnswerWith(c, r) \in Answer
BY DEF AnswerWith, Answer, Request

\* The receipt a commit writes is one, and its response a response.
LEMMA CommitType ==
  ASSUME TypeOK, NEW c \in Caller, local[c] \in Request
  PROVE  /\ ResponseOf(c) \in Response /\ ReceiptOf(c) \in ReceiptRow
         /\ AnswerWith(c, ResponseOf(c)) \in Answer
<1>1. ResponseOf(c) \in Response
  BY DEF ResponseOf, Response, Request
<1>2. local[c].done + Retention \in Nat /\ local[c].body \in Bodies
  BY DEF Request
<1>3. QED
  BY <1>1, <1>2, AnswerType DEF ReceiptOf, ReceiptRow

\* Every step keeps the types: one step per action.
LEMMA TypeStep == TypeOK /\ [Next]_vars => TypeOK'
<1>. SUFFICES ASSUME TypeOK, [Next]_vars PROVE TypeOK'
  OBVIOUS
<1>. DEFINE Locals == local' \in [Caller -> {Idle} \cup Request]
<1>1. ASSUME NEW c \in Caller, NEW s \in Scopes, NEW b \in Bodies, Execute(c, s, b)
      PROVE  TypeOK'
  <2>1. NewRequest(s, b, "entered", now) \in Request
    BY DEF NewRequest, Request, Phase, Outcome, TypeOK
  <2>2. QED
    BY <1>1, <2>1 DEF Execute, TypeOK
<1>2. ASSUME NEW c \in Caller, NEW s \in Scopes, NEW b \in Bodies, Coordinate(c, s, b)
      PROVE  TypeOK'
  <2>1. NewRequest(s, b, "locked", 0) \in Request
    BY DEF NewRequest, Request, Phase, Outcome
  <2>2. QED
    BY <1>2, <2>1 DEF Coordinate, TypeOK
<1>3. ASSUME NEW c \in Caller, PreflightFree(c) PROVE TypeOK'
  <2>1. local[c] \in Request
    BY <1>3, NotIdle, Underway DEF PreflightFree
  <2>2. [local[c] EXCEPT !.phase = "preparing"] \in Request
    BY <2>1 DEF Request, Phase
  <2>3. QED
    BY <1>3, <2>1, <2>2 DEF PreflightFree, TypeOK
<1>4. ASSUME NEW c \in Caller, PreflightReplay(c) \/ ClaimReplay(c) PROVE TypeOK'
  <2>1. local[c] \in Request /\ local[c].scope \in Scopes
    BY <1>4, NotIdle, Underway DEF PreflightReplay, ClaimReplay
  <2>2. rows[local[c].scope].resp \in Response
    BY <1>4, <2>1, RowCases DEF PreflightReplay, ClaimReplay, Replays, ReceiptRow
  <2>3. answer' \in Answer /\ EndRequest(c) /\ UNCHANGED <<rows, now, settled>>
    BY <1>4, <2>1, <2>2, AnswerType DEF PreflightReplay, ClaimReplay
  <2>4. QED
    BY <2>3, EndType DEF TypeOK
<1>5. ASSUME NEW c \in Caller, NEW o \in Outcome, Prepare(c, o) PROVE TypeOK'
  <2>1. local[c] \in Request /\ local[c].scope \in Scopes /\ local[c].body \in Bodies
    BY <1>5, NotIdle, Underway DEF Prepare
  <2>2. [local[c] EXCEPT !.phase = "prepared", !.outcome = o] \in Request
    BY <2>1 DEF Request, Phase
  <2>3. local' = [local EXCEPT ![c] = [local[c] EXCEPT !.phase = "prepared", !.outcome = o]]
    BY <1>5 DEF Prepare, TypeOK
  <2>4. QED
    BY <1>5, <2>2, <2>3 DEF Prepare, TypeOK
<1>6. ASSUME NEW c \in Caller, LoseSession(c) PROVE TypeOK'
  <2>1. local[c] \in Request
    BY <1>6, NotIdle, Underway DEF LoseSession
  <2>2. [local[c] EXCEPT !.phase = "stray"] \in Request
    BY <2>1 DEF Request, Phase
  <2>3. QED
    BY <1>6, <2>2, ReleasedType DEF LoseSession, TypeOK
<1>7. ASSUME NEW c \in Caller, StrayPrepare(c) \/ Abort(c) PROVE TypeOK'
  <2>1. local[c] \in Request /\ local[c].scope \in Scopes /\ local[c].body \in Bodies
    BY <1>7, NotIdle, Underway DEF StrayPrepare, Abort
  <2>2. EndRequest(c) /\ UNCHANGED <<rows, now, settled, answer>>
    BY <1>7 DEF StrayPrepare, Abort
  <2>3. QED
    BY <2>2, EndType DEF TypeOK
<1>8. ASSUME NEW c \in Caller, Enter(c) PROVE TypeOK'
  <2>1. local[c] \in Request
    BY <1>8, NotIdle, Underway DEF Enter
  <2>2. [local[c] EXCEPT !.phase = "entered", !.at = now] \in Request
    <3>1. now \in Nat
      BY DEF TypeOK
    <3>2. QED
      BY <2>1, <3>1 DEF Request, Phase
  <2>3. local' = [local EXCEPT ![c] = [local[c] EXCEPT !.phase = "entered", !.at = now]]
    BY <1>8 DEF Enter, TypeOK
  <2>4. QED
    BY <1>8, <2>2, <2>3 DEF Enter, TypeOK
<1>9. ASSUME NEW c \in Caller, Claim(c) PROVE TypeOK'
  <2>1. local[c] \in Request /\ local[c].scope \in Scopes
    BY <1>9, NotIdle, Underway DEF Claim
  <2>2. [local[c] EXCEPT !.phase = "claimed"] \in Request
    BY <2>1 DEF Request, Phase
  <2>3. QED
    BY <1>9, <2>1, <2>2 DEF Claim, TypeOK
<1>10. ASSUME NEW c \in Caller, NEW o \in Outcome, Operate(c, o) PROVE TypeOK'
  <2>1. local[c] \in Request
    BY <1>10, NotIdle, Underway DEF Operate
  <2>2. [local[c] EXCEPT !.phase = "operated", !.outcome = o] \in Request
    BY <2>1 DEF Request, Phase
  <2>3. local' = [local EXCEPT ![c] = [local[c] EXCEPT !.phase = "operated", !.outcome = o]]
    BY <1>10 DEF Operate, TypeOK
  <2>4. QED
    BY <1>10, <2>2, <2>3 DEF Operate, TypeOK
<1>11. ASSUME NEW c \in Caller, Complete(c) PROVE TypeOK'
  <2>1. local[c] \in Request
    BY <1>11, NotIdle, Underway DEF Complete
  <2>2. [local[c] EXCEPT !.phase = "completed", !.done = now] \in Request
    <3>1. now \in Nat
      BY DEF TypeOK
    <3>2. QED
      BY <2>1, <3>1 DEF Request, Phase
  <2>3. local' = [local EXCEPT ![c] = [local[c] EXCEPT !.phase = "completed", !.done = now]]
    BY <1>11 DEF Complete, TypeOK
  <2>4. QED
    BY <1>11, <2>2, <2>3 DEF Complete, TypeOK
<1>12. ASSUME NEW c \in Caller, Commit(c) PROVE TypeOK'
  <2>1. local[c] \in Request /\ local[c].scope \in Scopes
    BY <1>12, NotIdle, Underway DEF Commit
  <2>2. PICK r \in Response : r = ResponseOf(c)
    BY <2>1, CommitType
  <2>3. Append(settled[local[c].scope], r) \in Seq(Response)
    BY <2>1, AppendProperties DEF TypeOK
  <2>4. settled' \in [Scopes -> Seq(Response)]
    BY <1>12, <2>1, <2>2, <2>3 DEF Commit, TypeOK
  <2>5. PICK row \in ReceiptRow : row = ReceiptOf(c)
    BY <2>1, CommitType
  <2>6. rows' \in [Scopes -> {NoRow} \cup PendingRow \cup ReceiptRow]
    BY <1>12, <2>1, <2>5 DEF Commit, TypeOK
  <2>7. answer' \in Answer \cup {NoReceipt}
    BY <1>12, <2>1, CommitType DEF Commit, TypeOK
  <2>8. EndRequest(c) /\ UNCHANGED now
    BY <1>12 DEF Commit
  <2>9. QED
    BY <2>4, <2>6, <2>7, <2>8, EndType DEF TypeOK
<1>13. ASSUME NEW S \in SUBSET Scopes, Purge(S) PROVE TypeOK'
  BY <1>13 DEF Purge, TypeOK
<1>14. CASE Tick
  BY <1>14 DEF Tick, TypeOK
<1>15. CASE UNCHANGED vars
  BY <1>15 DEF vars, TypeOK
<1>16. QED
  BY <1>1, <1>2, <1>3, <1>4, <1>5, <1>6, <1>7, <1>8, <1>9, <1>10, <1>11, <1>12, <1>13, <1>14,
     <1>15 DEF Next, Serve

-----------------------------------------------------------------------------
\* What a step of c leaves to the others: their locals, and the locks they hold.
Others(c) ==
  /\ \A d \in Caller \ {c} : local'[d] = local[d]
  /\ \/ held' = held
     \/ held' = Released(c)
     \/ \E s \in Scopes : MayLock(c, s) /\ held' = [held EXCEPT ![LockKey[s]] = c]

\* What a caller does to the locks takes none from another.
LEMMA OthersKeepLocks ==
  ASSUME TypeOK, NEW c \in Caller, Others(c), NEW d \in Caller \ {c}, Locked(d)
  PROVE  Locked(d)'
<1>. SUFFICES ASSUME local[d].phase \in Working PROVE held'[LockOf(d)] = d
  BY DEF Others, Locked, LockOf, Working, InTransaction
<1>1. local[d].scope \in Scopes
  BY Underway DEF Working, InTransaction, In
<1>2. LockOf(d) \in Key /\ held[LockOf(d)] = d
  BY <1>1 DEF LockOf, Locked
<1>3. QED
  BY <1>2 DEF Others, Released, MayLock, TypeOK

\* Two callers that work hold different locks, so they work in different scopes.
LEMMA WorkersApart ==
  ASSUME NEW c \in Caller, NEW d \in Caller, c # d, Locked(c), Locked(d),
         local[c].phase \in Working, local[d].phase \in Working
  PROVE  local[c].scope # local[d].scope
BY DEF Locked, LockOf

\* A claim outlives every step that leaves its row alone, and time.
LEMMA ClaimKept ==
  ASSUME TypeOK, TypeOK', NEW d \in Caller, Claimed(d), local'[d] = local[d], now <= now',
         local[d].phase \in InTransaction =>
           /\ rows'[local[d].scope] = rows[local[d].scope]
           /\ settled'[local[d].scope] = settled[local[d].scope]
  PROVE  Claimed(d)'
<1>1. now \in Nat /\ now' \in Nat
  BY DEF TypeOK
<1>2. CASE local[d].phase = "entered"
  <2>1. local[d].at \in Nat
    BY <1>2, Underway DEF In, Request
  <2>2. QED
    BY <1>1, <1>2, <2>1 DEF Claimed, InTransaction
<1>3. CASE local[d].phase \in InTransaction
  <2>1. local[d].scope \in Scopes /\ local[d].done \in Nat
    BY <1>3, Underway DEF In, Request, InTransaction
  <2>2. Claimable(rows[local[d].scope], now)
    BY <1>3 DEF Claimed
  <2>3. Claimable(rows[local[d].scope], now')
    <3>1. CASE rows[local[d].scope] = NoRow
      BY <3>1 DEF Claimable
    <3>2. CASE Expired(rows[local[d].scope], now)
      <4>1. rows[local[d].scope].expires \in Nat
        BY <2>1, <3>2, RowCases DEF Expired, ReceiptRow
      <4>2. QED
        BY <1>1, <3>2, <4>1 DEF Claimable, Expired
    <3>3. QED
      BY <2>2, <3>1, <3>2 DEF Claimable
  <2>4. Claimable(rows'[local'[d].scope], now')
    BY <1>3, <2>3
  <2>5. local[d].phase = "completed" =>
          local[d].done <= now' /\ \A i \in DOMAIN settled[local[d].scope] :
            settled[local[d].scope][i].done + Retention <= local[d].done
    BY <1>1, <2>1 DEF Claimed, Spent
  <2>6. QED
    BY <1>3, <2>4, <2>5 DEF Claimed, Spent, Claimable, Expired, InTransaction
<1>4. QED
  BY <1>2, <1>3 DEF Claimed, InTransaction

\* So does what a row says.
LEMMA RowKept ==
  ASSUME TypeOK, TypeOK', NEW s \in Scopes, RowInv(s), rows'[s] = rows[s],
         settled'[s] = settled[s], now <= now'
  PROVE  RowInv(s)'
<1>1. now \in Nat /\ now' \in Nat
  BY DEF TypeOK
<1>2. \A i \in DOMAIN settled[s] : settled[s][i].done \in Nat
  BY SettledType
<1>3. \A i \in DOMAIN settled[s] : settled[s][i].done <= now'
  BY <1>1, <1>2 DEF RowInv
<1>4. rows[s].status = "none" =>
        \A i \in DOMAIN settled[s] : settled[s][i].done + Retention <= now'
  BY <1>1, <1>2 DEF RowInv, Spent
<1>5. QED
  BY <1>3, <1>4 DEF RowInv, Spent

\* A claimable row may go: the retention of its commands is over.
LEMMA RowDropped ==
  ASSUME TypeOK, TypeOK', NEW s \in Scopes, RowInv(s), Claimable(rows[s], now),
         rows'[s] = NoRow, settled'[s] = settled[s], now' = now
  PROVE  RowInv(s)'
<1>1. now \in Nat
  BY DEF TypeOK
<1>2. Spent(s, now)
  BY <1>1, FreeIsSpent
<1>3. QED
  BY <1>2 DEF RowInv, Spent

\* Steps of a caller that leave rows, commands and time alone.
LEMMA QuietStep ==
  ASSUME IInv, TypeOK', NEW c \in Caller, Others(c), UNCHANGED <<rows, now, settled>>,
         Locked(c)', Claimed(c)', AnswerIsSettled'
  PROVE  IInv'
<1>1. now <= now'
  BY DEF IInv, TypeOK
<1>2. \A s \in Scopes : RowInv(s)'
  BY <1>1, RowKept DEF IInv
<1>3. ASSUME NEW d \in Caller \ {c} PROVE Locked(d)' /\ Claimed(d)'
  BY <1>1, <1>3, OthersKeepLocks, ClaimKept DEF IInv, Others
<1>4. QED
  BY <1>2, <1>3 DEF IInv

\* An answer stays settled while commands stay.
LEMMA AnswerKept ==
  ASSUME AnswerIsSettled, UNCHANGED <<settled, answer>>
  PROVE  AnswerIsSettled'
BY DEF AnswerIsSettled

\* The end of a request.
LEMMA EndStep ==
  ASSUME TypeOK, NEW c \in Caller, EndRequest(c)
  PROVE  Others(c) /\ Locked(c)' /\ Claimed(c)' /\ local'[c] = Idle
<1>1. local'[c] = Idle /\ \A d \in Caller \ {c} : local'[d] = local[d]
  BY DEF TypeOK, EndRequest
<1>2. QED
  BY <1>1 DEF EndRequest, Others, Locked, Claimed, Working, InTransaction

\* A receipt answers with the last command of its scope.
LEMMA ReplayAnswer ==
  ASSUME IInv, NEW c \in Caller, local[c].scope \in Scopes, NEW t \in Nat,
         Replays(rows[local[c].scope], local[c].body, t),
         answer' = AnswerWith(c, rows[local[c].scope].resp), UNCHANGED settled
  PROVE  AnswerIsSettled'
<1>. DEFINE s == local[c].scope
            q == settled[s]
<1>1. rows[s].status = "completed" /\ rows[s].body = local[c].body
  BY DEF Replays
<1>2. q # << >> /\ rows[s].resp = q[Len(q)] /\ rows[s].body = rows[s].resp.body
  BY <1>1 DEF IInv, RowInv
<1>3. q \in Seq(Response)
  BY DEF IInv, TypeOK
<1>4. Len(q) \in DOMAIN q
  BY <1>2, <1>3, EmptySeq
<1>5. QED
  BY <1>1, <1>2, <1>4 DEF AnswerIsSettled, AnswerWith

\* The commit adds a command after all others of its scope, with its receipt.
LEMMA CommitStep ==
  ASSUME IInv, TypeOK', NEW c \in Caller, Commit(c)
  PROVE  IInv'
<1>0. local[c] \in Request /\ local[c].scope \in Scopes /\ local[c].phase = "completed"
  BY NotIdle, Underway DEF Commit, IInv, In
<1>. PICK s \in Scopes : s = local[c].scope
  BY <1>0
<1>1. local[c] \in Request /\ s \in Scopes /\ local[c].phase = "completed"
  BY <1>0
<1>2. PICK r \in Response : r = ResponseOf(c)
  BY <1>1, CommitType DEF IInv
<1>3. PICK n \in Nat : n = Len(settled[s]) /\ settled[s] \in Seq(Response)
  BY <1>1, LenProperties DEF IInv, TypeOK
<1>4. /\ settled'[s] = Append(settled[s], r)
      /\ \A t \in Scopes \ {s} : settled'[t] = settled[t] /\ rows'[t] = rows[t]
      /\ rows'[s] = [status |-> "completed", body |-> local[c].body, resp |-> r,
                     expires |-> local[c].done + Retention]
  BY <1>1, <1>2 DEF Commit, ReceiptOf, IInv, TypeOK
<1>5. /\ DOMAIN settled[s] = 1..n /\ DOMAIN settled'[s] = 1..(n + 1)
      /\ \A i \in 1..n : settled'[s][i] = settled[s][i]
      /\ settled'[s][n + 1] = r /\ Len(settled'[s]) = n + 1 /\ settled'[s] # << >>
  BY <1>3, <1>4, AppendProperties, LenProperties
<1>6. r.body = local[c].body /\ r.done = local[c].done /\ r.done \in Nat /\ now \in Nat
  BY <1>1, <1>2 DEF ResponseOf, Request, IInv, TypeOK
<1>7. r.done <= now /\ \A i \in 1..n : settled[s][i].done + Retention <= r.done
  BY <1>1, <1>5, <1>6 DEF IInv, Claimed, Spent
<1>8. now' = now /\ EndRequest(c)
  BY DEF Commit
<1>9. RowInv(s)'
  <2>1. /\ \A i \in 1..n : settled[s][i].done <= now
        /\ \A i, j \in 1..n : i < j => settled[s][i].done + Retention <= settled[s][j].done
    BY <1>1, <1>5 DEF IInv, RowInv
  <2>2. ASSUME NEW i \in 1..(n + 1) PROVE settled'[s][i].done <= now
    <3>1. CASE i = n + 1
      BY <1>5, <1>7, <3>1
    <3>2. CASE i \in 1..n
      BY <1>5, <2>1, <3>2
    <3>3. i = n + 1 \/ i \in 1..n
      BY <1>3
    <3>4. QED
      BY <3>1, <3>2, <3>3
  <2>3. ASSUME NEW i \in 1..(n + 1), NEW j \in 1..(n + 1), i < j
        PROVE  settled'[s][i].done + Retention <= settled'[s][j].done
    <3>1. i \in 1..n /\ settled'[s][i] = settled[s][i]
      BY <1>3, <1>5, <2>3
    <3>2. CASE j = n + 1
      BY <1>5, <1>7, <3>1, <3>2
    <3>3. CASE j \in 1..n
      BY <1>5, <2>1, <2>3, <3>1, <3>3
    <3>4. j = n + 1 \/ j \in 1..n
      BY <1>3
    <3>5. QED
      BY <3>2, <3>3, <3>4
  <2>4. rows'[s].status = "completed" /\ rows'[s].resp = settled'[s][Len(settled'[s])]
        /\ rows'[s].body = rows'[s].resp.body
        /\ rows'[s].expires = rows'[s].resp.done + Retention
    BY <1>4, <1>5, <1>6
  <2>5. /\ \A i \in DOMAIN settled'[s] : settled'[s][i].done <= now'
        /\ \A i, j \in DOMAIN settled'[s] :
             i < j => settled'[s][i].done + Retention <= settled'[s][j].done
    BY <1>5, <1>8, <2>2, <2>3
  <2>6. QED
    BY <1>5, <2>4, <2>5 DEF RowInv
<1>10. ASSUME NEW t \in Scopes PROVE RowInv(t)'
  <2>1. CASE t = s
    BY <1>9, <2>1
  <2>2. CASE t # s
    <3>1. rows'[t] = rows[t] /\ settled'[t] = settled[t] /\ now <= now'
      BY <1>4, <1>6, <1>8, <2>2
    <3>2. QED
      BY <3>1, RowKept DEF IInv
  <2>3. QED
    BY <2>1, <2>2
<1>11. Others(c) /\ Locked(c)' /\ Claimed(c)'
  BY <1>8, EndStep DEF IInv
<1>12. ASSUME NEW d \in Caller \ {c} PROVE Locked(d)' /\ Claimed(d)'
  <2>1. Locked(d)'
    BY <1>11, OthersKeepLocks DEF IInv
  <2>2. ASSUME local[d].phase \in InTransaction
        PROVE  local[d].scope \in Scopes \ {s}
    <3>1. local[d].scope \in Scopes
      BY <2>2, Underway DEF In, InTransaction, IInv
    <3>2. local[d].scope # s
      BY <1>1, <2>2, WorkersApart DEF IInv, Working, InTransaction
    <3>3. QED
      BY <3>1, <3>2
  <2>3. local'[d] = local[d] /\ now <= now'
    BY <1>6, <1>8, <1>11 DEF Others
  <2>4. Claimed(d)'
    BY <1>4, <2>2, <2>3, ClaimKept DEF IInv
  <2>5. QED
    BY <2>1, <2>4
<1>13. AnswerIsSettled'
  <2>1. CASE answer' = answer
    <3>1. SUFFICES ASSUME answer # NoReceipt PROVE AnswerIsSettled'
      BY <2>1 DEF AnswerIsSettled
    <3>2. PICK i \in DOMAIN settled[answer.scope] : settled[answer.scope][i] = answer.resp
      BY <3>1 DEF IInv, AnswerIsSettled
    <3>3. answer.scope \in Scopes /\ answer.resp.body = answer.body
      BY <3>1 DEF IInv, TypeOK, Answer, AnswerIsSettled
    <3>4. CASE answer.scope = s
      <4>1. i \in 1..n /\ settled[s][i] = answer.resp
        BY <1>5, <3>2, <3>4
      <4>2. i \in DOMAIN settled'[s] /\ settled'[s][i] = answer.resp
        BY <1>3, <1>5, <4>1
      <4>3. i \in DOMAIN settled'[answer'.scope] /\ settled'[answer'.scope][i] = answer'.resp
        BY <2>1, <3>4, <4>2
      <4>4. QED
        BY <2>1, <3>3, <4>3 DEF AnswerIsSettled
    <3>5. CASE answer.scope # s
      BY <1>4, <2>1, <3>2, <3>3, <3>5 DEF AnswerIsSettled
    <3>6. QED
      BY <3>4, <3>5
  <2>2. CASE answer' = AnswerWith(c, ResponseOf(c))
    <3>1. n + 1 \in DOMAIN settled'[s]
      BY <1>3, <1>5
    <3>2. answer'.scope = s /\ answer'.resp = r /\ answer'.body = local[c].body
      BY <1>2, <2>2 DEF AnswerWith
    <3>3. QED
      BY <1>5, <1>6, <3>1, <3>2 DEF AnswerIsSettled
  <2>3. QED
    BY <2>1, <2>2 DEF Commit
<1>14. QED
  BY <1>10, <1>11, <1>12, <1>13 DEF IInv

-----------------------------------------------------------------------------
\* The invariant holds at the start.
LEMMA InvInit == Init => IInv
<1>. SUFFICES ASSUME Init PROVE IInv
  OBVIOUS
<1>1. \A s \in Scopes : RowInv(s)
  <2>. SUFFICES ASSUME NEW s \in Scopes PROVE RowInv(s)
    OBVIOUS
  <2>1. settled[s] = << >> /\ rows[s].status \in {"none", "pending"}
    BY DEF Init
  <2>2. DOMAIN settled[s] = {}
    BY <2>1
  <2>3. QED
    BY <2>1, <2>2 DEF RowInv, Spent
<1>2. \A c \in Caller : Locked(c) /\ Claimed(c)
  BY DEF Init, Locked, Claimed, Working, InTransaction
<1>3. QED
  BY <1>1, <1>2, TypeInit DEF IInv, AnswerIsSettled, Init

\* PreflightFree and Purge: claimable rows of scopes no transaction has claimed go.
LEMMA DropStep ==
  ASSUME IInv, TypeOK', NEW S \in SUBSET Scopes,
         \A s \in S : Claimable(rows[s], now) /\ ~RowLocked(s),
         \A s \in Scopes : rows'[s] = IF s \in S THEN NoRow ELSE rows[s],
         UNCHANGED <<now, settled, answer>>,
         NEW C \in SUBSET Caller, \A d \in Caller \ C : local'[d] = local[d],
         \A d \in Caller \ C : Locked(d)', \A c \in C : Locked(c)' /\ Claimed(c)'
  PROVE  IInv'
<1>0. now <= now'
  BY DEF IInv, TypeOK
<1>1. ASSUME NEW s \in Scopes PROVE RowInv(s)'
  BY <1>0, RowKept, RowDropped DEF IInv
<1>2. ASSUME NEW d \in Caller \ C PROVE Claimed(d)'
  <2>1. local[d].phase \in InTransaction => local[d].scope \in Scopes \ S
    BY Underway DEF IInv, RowLocked, In, InTransaction
  <2>2. QED
    BY <1>0, <2>1, ClaimKept DEF IInv
<1>3. QED
  BY <1>1, <1>2, AnswerKept DEF IInv

\* Every step keeps the invariant: one step per action.
LEMMA InvStep == IInv /\ [Next]_vars => IInv'
<1>. SUFFICES ASSUME IInv, [Next]_vars PROVE IInv'
  OBVIOUS
<1>0. TypeOK /\ TypeOK' /\ now \in Nat
  BY TypeStep DEF IInv, TypeOK
<1>1. ASSUME NEW c \in Caller, NEW s \in Scopes, NEW b \in Bodies,
             Execute(c, s, b) \/ Coordinate(c, s, b)
      PROVE  IInv'
  <2>1. local'[c] \in {NewRequest(s, b, "entered", now), NewRequest(s, b, "locked", 0)}
    BY <1>0, <1>1 DEF Execute, Coordinate, TypeOK
  <2>2. Others(c)
    BY <1>0, <1>1 DEF Execute, Coordinate, Others, TypeOK
  <2>3. Locked(c)'
    <3>1. CASE Execute(c, s, b)
      BY <1>0, <3>1 DEF Execute, TypeOK, NewRequest, Locked, Working, InTransaction
    <3>2. CASE Coordinate(c, s, b)
      BY <1>0, <3>2 DEF Coordinate, TypeOK, NewRequest, Locked, LockOf
    <3>3. QED
      BY <1>1, <3>1, <3>2
  <2>4. Claimed(c)'
    BY <1>0, <1>1, <2>1 DEF Execute, Coordinate, NewRequest, Claimed, InTransaction
  <2>5. QED
    BY <1>0, <1>1, <2>2, <2>3, <2>4, QuietStep, AnswerKept DEF Execute, Coordinate, IInv
<1>2. ASSUME NEW c \in Caller, PreflightFree(c) PROVE IInv'
  <2>1. local[c] \in Request /\ local[c].scope \in Scopes /\ local[c].phase = "locked"
    BY <1>0, <1>2, NotIdle, Underway DEF PreflightFree, In
  <2>2. PICK s \in Scopes : s = local[c].scope
    BY <2>1
  <2>3. ~RowLocked(s)
    <3>1. \A d \in Caller : d # c /\ local[d].phase \in InTransaction => local[d].scope # s
      BY <2>1, <2>2, WorkersApart DEF IInv, Working
    <3>2. QED
      BY <2>1, <3>1 DEF RowLocked, InTransaction
  <2>4. local'[c] = [local[c] EXCEPT !.phase = "preparing"]
        /\ \A d \in Caller \ {c} : local'[d] = local[d]
    BY <1>0, <1>2 DEF PreflightFree, TypeOK
  <2>5. Others(c)
    BY <1>2, <2>4 DEF PreflightFree, Others
  <2>6. Locked(c)' /\ Claimed(c)'
    <3>1. local'[c].phase = "preparing" /\ local'[c].scope = s
      BY <2>1, <2>2, <2>4 DEF Request
    <3>2. held'[LockKey[s]] = c
      BY <1>2, <2>1, <2>2 DEF PreflightFree, IInv, Locked, LockOf, Working
    <3>3. QED
      BY <3>1, <3>2 DEF Locked, Claimed, LockOf, InTransaction
  <2>7. \A d \in Caller \ {c} : Locked(d)'
    BY <1>0, <2>5, OthersKeepLocks DEF IInv
  <2>8. Claimable(rows[s], now)
    BY <1>2, <2>2 DEF PreflightFree
  <2>9. \A t \in Scopes : rows'[t] = IF t \in {s} THEN NoRow ELSE rows[t]
    BY <1>0, <1>2, <2>2 DEF PreflightFree, TypeOK
  <2>10. UNCHANGED <<now, settled, answer>>
    BY <1>2 DEF PreflightFree
  <2>11. PICK S \in SUBSET Scopes, C \in SUBSET Caller : S = {s} /\ C = {c}
    OBVIOUS
  <2>12. /\ \A t \in S : Claimable(rows[t], now) /\ ~RowLocked(t)
         /\ \A t \in Scopes : rows'[t] = IF t \in S THEN NoRow ELSE rows[t]
    BY <2>3, <2>8, <2>9, <2>11
  <2>13. /\ \A d \in Caller \ C : local'[d] = local[d]
         /\ \A d \in Caller \ C : Locked(d)'
         /\ \A d \in C : Locked(d)' /\ Claimed(d)'
    BY <2>4, <2>6, <2>7, <2>11
  <2>14. QED
    BY <1>0, <2>10, <2>12, <2>13, DropStep
<1>3. ASSUME NEW c \in Caller, PreflightReplay(c) \/ ClaimReplay(c) PROVE IInv'
  <2>1. local[c] \in Request /\ local[c].scope \in Scopes
    BY <1>0, <1>3, NotIdle, Underway DEF PreflightReplay, ClaimReplay
  <2>2. PICK t \in Nat : Replays(rows[local[c].scope], local[c].body, t)
    BY <1>0, <1>3, <2>1 DEF PreflightReplay, ClaimReplay, Request
  <2>3. /\ EndRequest(c) /\ UNCHANGED <<rows, now, settled>>
        /\ answer' = AnswerWith(c, rows[local[c].scope].resp)
    BY <1>3 DEF PreflightReplay, ClaimReplay
  <2>4. AnswerIsSettled'
    BY <2>1, <2>2, <2>3, ReplayAnswer
  <2>5. QED
    BY <1>0, <2>3, <2>4, EndStep, QuietStep
<1>4. ASSUME NEW c \in Caller, StrayPrepare(c) \/ Abort(c) PROVE IInv'
  <2>1. EndRequest(c) /\ UNCHANGED <<rows, now, settled, answer>>
    BY <1>4 DEF StrayPrepare, Abort
  <2>2. QED
    BY <1>0, <2>1, EndStep, QuietStep, AnswerKept DEF IInv
<1>5. ASSUME NEW c \in Caller, NEW o \in Outcome, Prepare(c, o) PROVE IInv'
  <2>1. local[c] \in Request /\ local[c].phase = "preparing"
    BY <1>0, <1>5, NotIdle, Underway DEF Prepare, In
  <2>2. local'[c] = [local[c] EXCEPT !.phase = "prepared", !.outcome = o]
    BY <1>0, <1>5 DEF Prepare, TypeOK
  <2>3. local'[c].phase = "prepared" /\ local'[c].scope = local[c].scope
    BY <2>1, <2>2 DEF Request
  <2>4. held' = held /\ UNCHANGED <<rows, now, settled, answer>>
    BY <1>5 DEF Prepare
  <2>5. Others(c)
    BY <1>0, <1>5 DEF Prepare, Others, TypeOK
  <2>6. Locked(c)' /\ Claimed(c)'
    BY <2>1, <2>3, <2>4 DEF IInv, Locked, LockOf, Working, Claimed, InTransaction
  <2>7. QED
    BY <1>0, <2>4, <2>5, <2>6, QuietStep, AnswerKept DEF IInv
<1>6. ASSUME NEW c \in Caller, LoseSession(c) PROVE IInv'
  <2>1. local[c] \in Request
    BY <1>0, <1>6, NotIdle, Underway DEF LoseSession
  <2>2. local'[c].phase = "stray"
    BY <1>0, <1>6, <2>1 DEF LoseSession, TypeOK, Request
  <2>3. Others(c)
    BY <1>0, <1>6 DEF LoseSession, Others, TypeOK
  <2>4. Locked(c)' /\ Claimed(c)'
    BY <2>2 DEF Locked, Working, Claimed, InTransaction
  <2>5. QED
    BY <1>0, <1>6, <2>3, <2>4, QuietStep, AnswerKept DEF IInv, LoseSession
<1>7. ASSUME NEW c \in Caller, Enter(c) PROVE IInv'
  <2>1. local[c] \in Request
    BY <1>0, <1>7, NotIdle, Underway DEF Enter
  <2>2. local'[c] = [local[c] EXCEPT !.phase = "entered", !.at = now]
    BY <1>0, <1>7 DEF Enter, TypeOK
  <2>3. local'[c].phase = "entered" /\ local'[c].at = now
    BY <2>1, <2>2 DEF Request
  <2>4. Others(c)
    BY <1>0, <1>7 DEF Enter, Others, TypeOK
  <2>5. Locked(c)' /\ Claimed(c)'
    BY <1>0, <1>7, <2>3 DEF Enter, Locked, Working, Claimed, InTransaction
  <2>6. QED
    BY <1>0, <1>7, <2>4, <2>5, QuietStep, AnswerKept DEF IInv, Enter
<1>8. ASSUME NEW c \in Caller, Claim(c) PROVE IInv'
  <2>1. local[c] \in Request /\ local[c].scope \in Scopes /\ local[c].phase = "entered"
        /\ local[c].at \in Nat
    BY <1>0, <1>8, NotIdle, Underway DEF Claim, In, Request
  <2>2. PICK s \in Scopes : s = local[c].scope
    BY <2>1
  <2>3. local'[c] = [local[c] EXCEPT !.phase = "claimed"]
    BY <1>0, <1>8 DEF Claim, TypeOK
  <2>4. local'[c].phase = "claimed" /\ local'[c].scope = s
    BY <2>1, <2>2, <2>3 DEF Request
  <2>5. Others(c)
    BY <1>0, <1>8, <2>1 DEF Claim, Others, TypeOK, LockOf
  <2>6. held'[LockKey[s]] = c
    BY <1>0, <1>8, <2>2 DEF Claim, LockOf, TypeOK
  <2>7. local[c].at <= now
    BY <2>1 DEF IInv, Claimed
  <2>8. Claimable(rows[s], now)
    BY <1>0, <1>8, <2>1, <2>2, <2>7, FreeIsSpent DEF Claim, IInv
  <2>9. UNCHANGED <<rows, now, settled, answer>>
    BY <1>8 DEF Claim
  <2>10. Locked(c)' /\ Claimed(c)'
    BY <2>4, <2>6, <2>8, <2>9 DEF Locked, LockOf, Claimed, Claimable, Expired
  <2>11. QED
    BY <1>0, <2>5, <2>9, <2>10, QuietStep, AnswerKept DEF IInv
<1>9. ASSUME NEW c \in Caller, Complete(c) \/ \E o \in Outcome : Operate(c, o) PROVE IInv'
  <2>1. local[c] \in Request /\ local[c].scope \in Scopes
        /\ local[c].phase \in {"claimed", "operated"}
    BY <1>0, <1>9, NotIdle, Underway DEF Operate, Complete, In
  <2>2. PICK s \in Scopes : s = local[c].scope
    BY <2>1
  <2>3. \/ local'[c] = [local[c] EXCEPT !.phase = "completed", !.done = now]
        \/ \E o \in Outcome : local'[c] = [local[c] EXCEPT !.phase = "operated", !.outcome = o]
    BY <1>0, <1>9 DEF Operate, Complete, TypeOK
  <2>4. local'[c].scope = s /\ \/ local'[c].phase = "operated"
                               \/ local'[c].phase = "completed" /\ local'[c].done = now
    BY <2>1, <2>2, <2>3 DEF Request
  <2>5. Others(c)
    BY <1>0, <1>9 DEF Operate, Complete, Others, TypeOK
  <2>6. held'[LockKey[s]] = c
    BY <1>9, <2>1, <2>2 DEF Operate, Complete, IInv, Locked, LockOf, Working, InTransaction
  <2>7. Claimable(rows[s], now)
    BY <2>1, <2>2 DEF IInv, Claimed, InTransaction
  <2>8. Spent(s, now)
    BY <1>0, <2>7, FreeIsSpent DEF IInv
  <2>9. UNCHANGED <<rows, now, settled, answer>>
    BY <1>9 DEF Operate, Complete
  <2>10. Locked(c)'
    BY <2>4, <2>6 DEF Locked, LockOf
  <2>11. Claimed(c)'
    BY <1>0, <2>4, <2>7, <2>8, <2>9 DEF Claimed, Claimable, Expired, Spent
  <2>12. QED
    BY <1>0, <2>5, <2>9, <2>10, <2>11, QuietStep, AnswerKept DEF IInv
<1>10. ASSUME NEW c \in Caller, Commit(c) PROVE IInv'
  BY <1>0, <1>10, CommitStep
<1>11. ASSUME NEW S \in SUBSET Scopes, Purge(S) PROVE IInv'
  <2>1. UNCHANGED <<held, local, now, settled, answer>>
    BY <1>11 DEF Purge
  <2>2. \A c \in Caller : Locked(c)'
    BY <2>1 DEF IInv, Locked, LockOf
  <2>3. \A s \in S : Claimable(rows[s], now) /\ ~RowLocked(s)
    BY <1>11 DEF Purge, Purgeable, Claimable
  <2>4. \A s \in Scopes : rows'[s] = IF s \in S THEN NoRow ELSE rows[s]
    BY <1>11 DEF Purge
  <2>5. {} \in SUBSET Caller
    OBVIOUS
  <2>6. QED
    BY <1>0, <2>1, <2>2, <2>3, <2>4, <2>5, DropStep
<1>12. CASE Tick
  <2>1. UNCHANGED <<rows, held, local, settled, answer>> /\ now <= now'
    BY <1>0, <1>12 DEF Tick
  <2>2. \A s \in Scopes : RowInv(s)'
    BY <1>0, <2>1, RowKept DEF IInv
  <2>3. ASSUME NEW c \in Caller PROVE Locked(c)' /\ Claimed(c)'
    BY <1>0, <2>1, ClaimKept DEF IInv, Locked, LockOf
  <2>4. QED
    BY <1>0, <2>1, <2>2, <2>3, AnswerKept DEF IInv
<1>13. CASE UNCHANGED vars
  <2>1. \A s \in Scopes : RowInv(s)'
    BY <1>0, <1>13, RowKept DEF IInv, vars
  <2>2. ASSUME NEW c \in Caller PROVE Locked(c)' /\ Claimed(c)'
    BY <1>0, <1>13, ClaimKept DEF IInv, Locked, LockOf, vars
  <2>3. QED
    BY <1>0, <1>13, <2>1, <2>2, AnswerKept DEF IInv, vars
<1>14. QED
  BY <1>1, <1>2, <1>3, <1>4, <1>5, <1>6, <1>7, <1>8, <1>9, <1>10, <1>11, <1>12, <1>13
     DEF Next, Serve

\* Locks, rows and open transactions agree, whatever the interleaving of
\* requests, crashes and the retention job (AtomicPostgresIdempotencyExecutor).
THEOREM Inductive == Spec => []IInv
BY InvInit, InvStep, PTL DEF Spec

\* Every reachable state has its types (AtomicPostgresIdempotencyExecutor).
THEOREM TypeCorrect == Spec => []TypeOK
<1>1. IInv => TypeOK
  BY DEF IInv
<1>2. QED
  BY <1>1, Inductive, PTL

\* Two commands of one scope are never less than Retention apart (execute,
\* execute_prepared, maintain_api_v2_idempotency_receipts).
THEOREM CommandsRunOnce == Spec => []OncePerWindow
<1>1. IInv => OncePerWindow
  BY DEF IInv, RowInv, OncePerWindow
<1>2. QED
  BY <1>1, Inductive, PTL

\* As long as a command is within its retention its receipt is there
\* (_complete_in_session, maintain_api_v2_idempotency_receipts).
THEOREM ReceiptsAreKept == Spec => []ReceiptIsKept
<1>1. ASSUME IInv PROVE ReceiptIsKept
  <2>. SUFFICES ASSUME NEW s \in Scopes, NEW i \in DOMAIN settled[s],
                       now < settled[s][i].done + Retention
                PROVE  rows[s].status = "completed" /\ rows[s].resp = settled[s][i]
    BY DEF ReceiptIsKept
  <2>1. TypeOK /\ now \in Nat /\ settled[s] \in Seq(Response) /\ RowInv(s)
    BY <1>1 DEF IInv, TypeOK
  <2>2. settled[s][i].done \in Nat
    BY <2>1, SettledType
  <2>3. rows[s].status # "none"
    BY <2>1, <2>2 DEF RowInv, Spent
  <2>4. rows[s].status # "pending"
    BY <2>1 DEF RowInv
  <2>5. rows[s].status = "completed"
    BY <2>1, <2>3, <2>4, RowCases
  <2>6. PICK n \in Nat : n = Len(settled[s]) /\ DOMAIN settled[s] = 1..n
    BY <2>1, LenProperties
  <2>7. i = n
    <3>1. SUFFICES ASSUME i # n PROVE FALSE
      OBVIOUS
    <3>2. n \in DOMAIN settled[s] /\ i < n
      BY <2>6, <3>1
    <3>3. settled[s][i].done + Retention <= settled[s][n].done /\ settled[s][n].done <= now
      BY <2>1, <3>2 DEF RowInv
    <3>4. settled[s][n].done \in Nat
      BY <2>1, <3>2, SettledType
    <3>5. QED
      BY <2>1, <2>2, <3>3, <3>4
  <2>8. QED
    BY <2>1, <2>5, <2>6, <2>7 DEF RowInv
<1>2. QED
  BY <1>1, Inductive, PTL

\* An answer is the response of a committed command of the same scope and
\* request (_decision_from_existing).
THEOREM AnswersAreSettled == Spec => []AnswerIsSettled
<1>1. IInv => AnswerIsSettled
  BY DEF IInv
<1>2. QED
  BY <1>1, Inductive, PTL

\* execute and execute_prepared exclude each other in a scope
\* (coordination_lock, _try_scope_lock).
THEOREM ScopesAreExclusive == Spec => []OneInScope
<1>1. IInv => OneInScope
  BY WorkersApart DEF IInv, OneInScope, Working
<1>2. QED
  BY <1>1, Inductive, PTL

\* A pending row stays as it was found (the module docstring of v2_idempotency.py).
THEOREM PendingStays == Spec => PendingIsKept
<1>1. ASSUME IInv, [Next]_vars, NEW s \in Scopes, rows[s].status = "pending"
      PROVE  rows'[s] = rows[s]
  <2>1. TypeOK /\ ~Claimable(rows[s], now) /\ ~Expired(rows[s], now)
    BY <1>1 DEF IInv, Claimable, Expired
  <2>2. ASSUME NEW c \in Caller, PreflightFree(c) \/ Commit(c) PROVE rows'[s] = rows[s]
    <3>1. local[c].scope # s
      BY <2>1, <2>2, <1>1 DEF PreflightFree, Commit, IInv, Claimed, In, InTransaction
    <3>2. QED
      BY <2>1, <2>2, <3>1 DEF PreflightFree, Commit, TypeOK
  <2>3. ASSUME NEW S \in SUBSET Scopes, Purge(S) PROVE rows'[s] = rows[s]
    BY <2>1, <2>3 DEF Purge, Purgeable
  <2>4. QED
    BY <1>1, <2>2, <2>3 DEF Next, Serve, Execute, Coordinate, PreflightReplay, Prepare, LoseSession,
       StrayPrepare, Enter, Claim, ClaimReplay, Operate, Complete, Abort, Tick, vars
<1>2. IInv /\ [Next]_vars =>
        [\A s \in Scopes : rows[s].status = "pending" => rows'[s] = rows[s]]_vars
  BY <1>1
<1>3. QED
  BY <1>2, Inductive, PTL DEF Spec, PendingIsKept

-----------------------------------------------------------------------------
\* Initial states map to initial states.
LEMMA InitRefines == Init => Promise!RInit
<1>. SUFFICES ASSUME Init PROVE Promise!RInit
  OBVIOUS
<1>1. \A s \in Scopes : rows[s].status # "completed"
  BY DEF Init
<1>2. receipt = [s \in Scopes |-> NoReceipt]
  BY <1>1 DEF receipt
<1>3. QED
  BY <1>2 DEF Init, Promise!RInit

\* A row that goes was claimable: the abstract receipt is forgotten, or there was none.
LEMMA DropRefines ==
  ASSUME IInv, NEW S \in SUBSET Scopes, \A s \in S : Claimable(rows[s], now),
         \A s \in Scopes : rows'[s] = IF s \in S THEN NoRow ELSE rows[s],
         UNCHANGED <<now, settled, answer>>
  PROVE  Promise!RNext
<1>1. \A s \in S : Promise!Over(s)
  BY FreeIsSpent DEF IInv, TypeOK, Spent, Promise!Over
<1>2. receipt' = [s \in Scopes |-> IF s \in S THEN NoReceipt ELSE receipt[s]]
  BY DEF receipt
<1>3. QED
  BY <1>1, <1>2 DEF Promise!Forget, Promise!RNext

\* An answer from a receipt is a Replay.
LEMMA ReplayRefines ==
  ASSUME IInv, NEW c \in Caller, local[c] \in Request, local[c].scope \in Scopes, NEW t \in Nat,
         Replays(rows[local[c].scope], local[c].body, t),
         answer' = AnswerWith(c, rows[local[c].scope].resp), UNCHANGED <<rows, now, settled>>
  PROVE  Promise!RNext
<1>. DEFINE s == local[c].scope
            b == local[c].body
<1>1. rows[s].status = "completed" /\ rows[s].body = b
  BY DEF Replays
<1>2. receipt[s] = rows[s].resp /\ receipt[s].body = b
  BY <1>1 DEF receipt, IInv, RowInv
<1>3. receipt[s] # NoReceipt
  BY <1>1, <1>2, RowCases DEF IInv, ReceiptRow, Response, Outcome
<1>4. receipt' = receipt
  BY DEF receipt
<1>5. answer' = [scope |-> s, body |-> b, resp |-> receipt[s]]
  BY <1>2 DEF AnswerWith
<1>6. Promise!Replay(s, b) /\ b \in Bodies
  BY <1>2, <1>3, <1>4, <1>5 DEF Promise!Replay, Request
<1>7. QED
  BY <1>6 DEF Promise!RNext

\* A commit is a Settle.
LEMMA CommitRefines ==
  ASSUME IInv, NEW c \in Caller, Commit(c)
  PROVE  Promise!RNext
<1>1. local[c] \in Request /\ local[c].scope \in Scopes /\ local[c].phase = "completed"
  BY NotIdle, Underway DEF Commit, IInv, In
<1>2. PICK s \in Scopes : s = local[c].scope
  BY <1>1
<1>3. PICK r \in Response : r = ResponseOf(c)
  BY <1>1, CommitType DEF IInv
<1>4. r.done = local[c].done /\ r.body = local[c].body
  BY <1>3 DEF ResponseOf
<1>5. local[c].done <= now /\ Spent(s, local[c].done)
  BY <1>1, <1>2 DEF IInv, Claimed
<1>6. r \in Promise!Response
  <2>1. r.done \in Nat /\ now \in Nat /\ r.done <= now
    BY <1>4, <1>5 DEF IInv, TypeOK, Response
  <2>2. QED
    BY <2>1 DEF Response, Promise!Response
<1>7. /\ rows' = [rows EXCEPT ![s] = ReceiptOf(c)]
      /\ settled' = [settled EXCEPT ![s] = Append(@, r)]
      /\ answer' \in {answer, [scope |-> s, body |-> r.body, resp |-> r]}
      /\ now' = now
  BY <1>2, <1>3, <1>4 DEF Commit, AnswerWith
<1>8. receipt' = [receipt EXCEPT ![s] = r]
  <2>1. rows'[s].status = "completed" /\ rows'[s].resp = r
        /\ \A t \in Scopes \ {s} : rows'[t] = rows[t]
    BY <1>3, <1>7 DEF ReceiptOf, IInv, TypeOK
  <2>2. QED
    BY <2>1 DEF receipt
<1>9. Promise!Settle(s, r)
  BY <1>4, <1>5, <1>7, <1>8 DEF Promise!Settle, Spent
<1>10. QED
  BY <1>6, <1>9 DEF Promise!RNext

\* Every step is a step of CommandReceipts or a stutter.
LEMMA StepRefines == IInv /\ [Next]_vars => [Promise!RNext]_(Promise!rVars)
<1>. SUFFICES ASSUME IInv, [Next]_vars PROVE [Promise!RNext]_(Promise!rVars)
  OBVIOUS
<1>1. ASSUME NEW c \in Caller, PreflightFree(c) PROVE Promise!RNext
  <2>1. local[c].scope \in Scopes
    BY <1>1, NotIdle, Underway DEF PreflightFree, IInv
  <2>2. \A s \in Scopes : rows'[s] = IF s \in {local[c].scope} THEN NoRow ELSE rows[s]
    BY <1>1, <2>1 DEF PreflightFree, IInv, TypeOK
  <2>3. {local[c].scope} \in SUBSET Scopes
    BY <2>1
  <2>4. Claimable(rows[local[c].scope], now) /\ UNCHANGED <<now, settled, answer>>
    BY <1>1 DEF PreflightFree
  <2>5. QED
    BY <2>2, <2>3, <2>4, DropRefines
<1>2. ASSUME NEW c \in Caller, PreflightReplay(c) \/ ClaimReplay(c) PROVE Promise!RNext
  <2>1. local[c] \in Request /\ local[c].scope \in Scopes
    BY <1>2, NotIdle, Underway DEF PreflightReplay, ClaimReplay, IInv
  <2>2. now \in Nat /\ local[c].at \in Nat
    BY <2>1 DEF Request, IInv, TypeOK
  <2>3. PICK t \in Nat : Replays(rows[local[c].scope], local[c].body, t)
    BY <1>2, <2>2 DEF PreflightReplay, ClaimReplay
  <2>4. /\ UNCHANGED <<rows, now, settled>>
        /\ answer' = AnswerWith(c, rows[local[c].scope].resp)
    BY <1>2 DEF PreflightReplay, ClaimReplay
  <2>5. QED
    BY <2>1, <2>3, <2>4, ReplayRefines
<1>3. ASSUME NEW c \in Caller, Commit(c) PROVE Promise!RNext
  BY <1>3, CommitRefines
<1>4. ASSUME NEW S \in SUBSET Scopes, Purge(S) PROVE Promise!RNext
  <2>1. \A s \in S : Claimable(rows[s], now)
    BY <1>4 DEF Purge, Purgeable, Claimable
  <2>2. QED
    BY <1>4, <2>1, DropRefines DEF Purge
<1>5. CASE Tick
  <2>1. receipt' = receipt
    BY <1>5 DEF Tick, receipt
  <2>2. QED
    BY <1>5, <2>1 DEF Tick, Promise!Pass, Promise!RNext
<1>6. ASSUME UNCHANGED <<rows, now, settled, answer>> PROVE UNCHANGED Promise!rVars
  BY <1>6 DEF receipt, Promise!rVars
<1>7. QED
  BY <1>1, <1>2, <1>3, <1>4, <1>5, <1>6 DEF Next, Serve, Execute, Coordinate, Prepare, LoseSession,
     StrayPrepare, Enter, Claim, Operate, Complete, Abort, vars

\* Every behaviour of the executors, with lost sessions, crashes, stale clocks and
\* purges, is one in which each command settles once (V2PreparedIdempotencyExecutor).
THEOREM Refinement == Spec => Implements
BY InitRefines, StepRefines, Inductive, PTL DEF Spec, Implements, Promise!RSpec
=============================================================================
