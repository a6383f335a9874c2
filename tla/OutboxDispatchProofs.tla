------------------------- MODULE OutboxDispatchProofs -------------------------
(***************************************************************************)
(* Theorems about OutboxDispatch for every number of rows, workers,        *)
(* attempts and faults.                                                    *)
(***************************************************************************)
EXTENDS OutboxDispatch, TLAPS

\* Tokens: a busy worker has one of its own, a row has one iff it is leased.
TokenInv == /\ \A w \in Worker : /\ worker[w].phase = "idle" => worker[w].todo = {}
                                 /\ worker[w].phase # "idle" => worker[w].token \in Token
            /\ \A w, v \in Worker : worker[w].token = worker[v].token
                                    /\ worker[w].token \in Token => w = v
            /\ \A e \in Event : row[e].status = "processing" <=> row[e].token \in Token

\* Only work is claimed, and what was claimed once exists.
ClaimInv == /\ \A e \in Event : row[e].status \in {"pending", "processing", "failed"} => e \in Work
            /\ \A w \in Worker : \A e \in worker[w].todo :
                 e \in Work /\ row[e].status # "absent"

\* A worker about to settle a row knows that the domain is closed.
SettleInv == \A w \in Worker : \A e \in worker[w].todo :
  IsCurrent(w, e) =>
    /\ worker[w].phase = "completing" => effect[e] # "none"
    /\ worker[w].phase = "retrying" /\ worker[w].attempts[e] >= MaxAttempts
         => effect[e] # "none"

IInv == TypeOK /\ TokenInv /\ ClaimInv /\ ClaimIsCurrent /\ SettleInv /\ ClosedBeforeTerminal

-----------------------------------------------------------------------------
\* Every row written by the program is a row.
LEMMA RowSteps ==
  ASSUME NEW r \in Row, NEW t \in Token
  PROVE  /\ (ReclaimedAtCap(r) \/ r.attempt < MaxAttempts) => ClaimedRow(r, t) \in Row
         /\ Settled(r, "published") \in Row
         /\ AfterFailure(r) \in Row
<1>. USE BoundAssumption
<1>1. (ReclaimedAtCap(r) \/ r.attempt < MaxAttempts) => ClaimedRow(r, t) \in Row
  <2>. DEFINE c == LeasedBy(r, t)
  <2>1. c \in Row /\ c.attempt = r.attempt
    BY DEF Row, Status, LeasedBy
  <2>2. [c EXCEPT !.capped = TRUE] \in Row
    BY <2>1 DEF Row
  <2>3. r.attempt < MaxAttempts => r.attempt + 1 \in 0..MaxAttempts
    BY DEF Row
  <2>4. r.attempt < MaxAttempts => [c EXCEPT !.capped = FALSE, !.attempt = r.attempt + 1] \in Row
    <3>. HIDE DEF c
    <3>1. QED BY <2>1, <2>3 DEF Row
  <2>5. QED
    BY <2>2, <2>4 DEF ClaimedRow
<1>2. \A to \in Status : Settled(r, to) \in Row
  BY DEF Row, Status, Settled
<1>3. QED
  BY <1>1, <1>2 DEF AfterFailure, Status

LEMMA InitInv == Init => IInv
<1>. SUFFICES ASSUME Init PROVE IInv
  OBVIOUS
<1>. USE EventAssumption, TokenAssumption, BoundAssumption DEF Init
<1>1. TypeOK
  BY DEF TypeOK, NoRow, Idle, Row, Local, Status, EffectState, Phase
<1>2. TokenInv
  BY DEF TokenInv, NoRow, Idle
<1>3. ClaimInv /\ ClaimIsCurrent /\ SettleInv
  BY DEF ClaimInv, ClaimIsCurrent, SettleInv, NoRow, Idle
<1>4. ClosedBeforeTerminal
  BY DEF ClosedBeforeTerminal, Terminal, NoRow
<1>5. QED
  BY <1>1, <1>2, <1>3, <1>4 DEF IInv

\* What the moves of one worker's locals do to them.
LEMMA LocalSteps ==
  ASSUME TypeOK, NEW w \in Worker, NEW e \in Event,
         worker' = [worker EXCEPT ![w] = Idle] \/ NextClaim(w, e)
  PROVE  /\ worker' \in [Worker -> Local]
         /\ \A v \in Worker \ {w} : worker'[v] = worker[v]
         /\ worker'[w].todo \subseteq worker[w].todo
         /\ worker'[w] # Idle => /\ worker'[w].phase = "handling"
                                 /\ worker'[w].token = worker[w].token
                                 /\ worker'[w].todo = worker[w].todo \ {e}
                                 /\ \A f \in worker'[w].todo :
                                      worker'[w].attempts[f] = worker[w].attempts[f]
<1>. USE BoundAssumption, TokenAssumption, EventAssumption DEF TypeOK
<1>1. Idle \in Local
  BY DEF Idle, Local, Phase
<1>2. CASE worker' = [worker EXCEPT ![w] = Idle]
  BY <1>1, <1>2 DEF Idle
<1>3. CASE NextClaim(w, e)
  <2>. DEFINE l == WithoutClaim(worker[w], e)
  <2>1. worker' = [worker EXCEPT ![w] = l]
    BY <1>3 DEF NextClaim
  <2>2. worker[w] \in Local
    OBVIOUS
  <2>3. CASE worker[w].todo = {e}
    <3>1. l = Idle
      BY <2>3 DEF WithoutClaim
    <3>2. QED
      BY <1>1, <2>1, <3>1 DEF Idle
  <2>4. CASE worker[w].todo # {e}
    <3>1. [worker[w].attempts EXCEPT ![e] = 0] \in [Event -> 0..MaxAttempts]
      BY <2>2 DEF Local
    <3>2. l = [worker[w] EXCEPT !.phase = "handling", !.todo = worker[w].todo \ {e},
                                !.attempts = [worker[w].attempts EXCEPT ![e] = 0]]
      BY <2>2, <2>4 DEF WithoutClaim, Local
    <3>3. /\ l \in Local /\ l.phase = "handling" /\ l.token = worker[w].token
          /\ l.todo = worker[w].todo \ {e}
          /\ l.attempts = [worker[w].attempts EXCEPT ![e] = 0]
      BY <2>2, <3>1, <3>2 DEF Local, Phase
    <3>4. \A f \in Event \ {e} : l.attempts[f] = worker[w].attempts[f]
      BY <3>3, <2>2 DEF Local
    <3>5. QED
      BY <2>1, <2>2, <3>3, <3>4 DEF Local
  <2>5. QED
    BY <2>3, <2>4
<1>4. QED
  BY <1>2, <1>3

-----------------------------------------------------------------------------
\* A legal rewrite of one row by an action that claims nothing.
RowChange(e) ==
  /\ row'[e].status # "absent"
  /\ row'[e].status \in {"pending", "processing", "failed"} => e \in Work
  /\ e \in Work /\ Terminal(e)' => effect[e] # "none"
  /\ row'[e].status = "processing" <=> row'[e].token \in Token
  /\ row'[e].status = "processing" => /\ row[e].status = "processing"
                                      /\ row'[e].token = row[e].token
                                      /\ row'[e].attempt = row[e].attempt

\* A legal step of one busy worker through its batch.
WorkerChange(w) ==
  /\ worker[w].phase # "idle" /\ worker'[w].phase # "idle"
  /\ worker'[w].token = worker[w].token
  /\ worker'[w].todo \subseteq worker[w].todo
  /\ \A e \in worker'[w].todo :
       /\ worker'[w].attempts[e] = worker[w].attempts[e]
       /\ IsCurrent(w, e)' =>
            /\ worker'[w].phase = "completing" => effect[e] # "none"
            /\ worker'[w].phase = "retrying" /\ worker'[w].attempts[e] >= MaxAttempts
                 => effect[e] # "none"

LEMMA Preserve ==
  ASSUME IInv, TypeOK', effect' = effect,
         \A e \in Event : row'[e] = row[e] \/ RowChange(e),
         \A w \in Worker : worker'[w] = worker[w] \/ worker'[w] = Idle \/ WorkerChange(w)
  PROVE  IInv'
<1>. USE TokenAssumption, EventAssumption
<1>. USE DEF IInv
<1>1. \A w \in Worker : worker'[w].todo \subseteq worker[w].todo
  BY DEF WorkerChange, Idle
<1>2. \A w \in Worker : worker'[w].todo \subseteq Event
  BY DEF TypeOK, Local
<1>3. TokenInv'
  <2>1. \A w \in Worker : /\ worker'[w].phase = "idle" => worker'[w].todo = {}
                          /\ worker'[w].phase # "idle" => worker'[w].token \in Token
    BY DEF TokenInv, WorkerChange, Idle
  <2>2. \A w \in Worker : worker'[w].token \in Token => worker'[w].token = worker[w].token
    BY DEF WorkerChange, Idle
  <2>3. \A e \in Event : row'[e].status = "processing" <=> row'[e].token \in Token
    BY DEF TokenInv, RowChange
  <2>4. QED
    BY <2>1, <2>2, <2>3 DEF TokenInv
<1>4. ClaimInv'
  BY <1>1, <1>2 DEF ClaimInv, RowChange
<1>5. ClaimIsCurrent'
  <2>. SUFFICES ASSUME NEW w \in Worker, NEW e \in worker'[w].todo, Owns(w, e)'
                PROVE  worker'[w].attempts[e] = row'[e].attempt
    BY DEF ClaimIsCurrent
  <2>1. e \in worker[w].todo /\ e \in Event
    BY <1>1, <1>2
  <2>2. /\ worker'[w].token = worker[w].token
        /\ worker'[w].attempts[e] = worker[w].attempts[e]
    BY DEF WorkerChange, Idle
  <2>3. row[e].status = "processing" /\ row'[e].token = row[e].token
        /\ row'[e].attempt = row[e].attempt
    BY <2>1 DEF RowChange, Owns
  <2>4. QED
    BY <2>1, <2>2, <2>3 DEF ClaimIsCurrent, Owns
<1>6. SettleInv'
  <2>. SUFFICES ASSUME NEW w \in Worker, NEW e \in worker'[w].todo, IsCurrent(w, e)'
                PROVE  /\ worker'[w].phase = "completing" => effect'[e] # "none"
                       /\ worker'[w].phase = "retrying" /\ worker'[w].attempts[e] >= MaxAttempts
                            => effect'[e] # "none"
    BY DEF SettleInv
  <2>1. CASE worker'[w] = worker[w]
    <3>1. IsCurrent(w, e)
      BY <2>1 DEF IsCurrent
    <3>2. QED
      BY <2>1, <3>1 DEF SettleInv
  <2>2. CASE WorkerChange(w)
    BY <2>2 DEF WorkerChange
  <2>3. QED
    BY <2>1, <2>2 DEF Idle
<1>7. ClosedBeforeTerminal'
  BY DEF ClosedBeforeTerminal, RowChange, Terminal
<1>8. QED
  BY <1>3, <1>4, <1>5, <1>6, <1>7

-----------------------------------------------------------------------------
\* Actions that rewrite one row and nothing else.
LEMMA RowActions ==
  ASSUME IInv, NEW e \in Event, NEW r \in Row, faults' \in 0..MaxFaults,
         row' = [row EXCEPT ![e] = r], UNCHANGED <<effect, worker>>,
         r.status # "absent", r.status \in {"pending", "processing", "failed"} => e \in Work,
         e \in Work /\ r.status \in {"published", "failed", "purged"} => effect[e] # "none",
         r.token = row[e].token, r.attempt = row[e].attempt,
         r.status = "processing" <=> row[e].status = "processing"
  PROVE  IInv'
<1>. USE DEF IInv
<1>1. TypeOK'
  BY DEF TypeOK
<1>2. RowChange(e)
  BY DEF RowChange, TokenInv, Terminal, TypeOK
<1>3. \A f \in Event : row'[f] = row[f] \/ RowChange(f)
  BY <1>2 DEF TypeOK
<1>4. QED
  BY <1>1, <1>3, Preserve

\* Actions that move one worker and nothing else.
LEMMA WorkerActions ==
  ASSUME IInv, NEW w \in Worker, NEW l \in Local, faults' \in 0..MaxFaults,
         worker' = [worker EXCEPT ![w] = l], UNCHANGED <<row, effect>>,
         l = Idle \/ WorkerChange(w)
  PROVE  IInv'
<1>. USE DEF IInv
<1>1. TypeOK'
  BY DEF TypeOK
<1>2. \A v \in Worker : worker'[v] = worker[v] \/ worker'[v] = Idle \/ WorkerChange(v)
  BY DEF TypeOK
<1>3. QED
  BY <1>1, <1>2, Preserve

LEMMA IdleIsLocal == Idle \in Local
  BY BoundAssumption DEF Idle, Local, Phase

\* Skipping the current claim, or leaving the batch, is a legal step.
LEMMA NextClaimChange ==
  ASSUME IInv, NEW w \in Worker, NEW e \in Event, worker[w].phase # "idle",
         worker' = [worker EXCEPT ![w] = Idle] \/ NextClaim(w, e)
  PROVE  \A v \in Worker : worker'[v] = worker[v] \/ worker'[v] = Idle \/ WorkerChange(v)
<1>. USE DEF IInv
<1>1. worker'[w] = Idle \/ WorkerChange(w)
  BY LocalSteps DEF WorkerChange
<1>2. QED
  BY <1>1, LocalSteps

\* Entering a phase with the same batch is legal if what that phase relies on holds.
LEMMA EnterChange ==
  ASSUME IInv, NEW w \in Worker, NEW e \in Event, NEW p \in Phase \ {"idle"},
         worker[w].phase # "idle", IsCurrent(w, e), Enter(w, p), UNCHANGED <<row, effect, faults>>,
         p = "completing" => effect[e] # "none",
         p = "retrying" /\ worker[w].attempts[e] >= MaxAttempts => effect[e] # "none"
  PROVE  IInv'
<1>. USE EventAssumption DEF IInv
<1>. DEFINE l == [worker[w] EXCEPT !.phase = p]
<1>1. worker[w] \in Local /\ worker[w].todo \subseteq Event
  BY DEF TypeOK, Local
<1>2. l \in Local /\ l.phase = p /\ l.token = worker[w].token /\ l.todo = worker[w].todo
      /\ l.attempts = worker[w].attempts
  BY <1>1 DEF Local
<1>3. worker' = [worker EXCEPT ![w] = l]
  BY DEF Enter
<1>4. worker'[w] = l
  BY <1>3 DEF TypeOK
<1>5. \A f \in worker'[w].todo : IsCurrent(w, f)' => f = e
  BY <1>1, <1>2, <1>4 DEF IsCurrent
<1>6. WorkerChange(w)
  BY <1>2, <1>4, <1>5 DEF WorkerChange
<1>7. faults' \in 0..MaxFaults
  BY DEF TypeOK
<1>8. QED
  BY <1>2, <1>3, <1>6, <1>7, WorkerActions

-----------------------------------------------------------------------------
LEMMA ClaimStep ==
  ASSUME IInv, NEW w \in Worker, Claim(w)
  PROVE  IInv'
<1>. USE TokenAssumption, EventAssumption, BoundAssumption DEF IInv
<1>. DEFINE t == FreshToken
<1>1. t \in Token /\ t \notin InUse
  BY DEF Claim, FreshToken
<1>2. PICK S \in SUBSET Event :
        /\ IsBatch(S)
        /\ row' = [e \in Event |-> IF e \in S THEN ClaimedRow(row[e], t) ELSE row[e]]
        /\ worker' = [worker EXCEPT ![w] =
             [phase |-> "handling", token |-> t, todo |-> S,
              attempts |-> [e \in Event |-> IF e \in S THEN row'[e].attempt ELSE 0]]]
  BY DEF Claim
<1>. HIDE DEF t
<1>3. \A e \in S : Claimable(e) /\ e \in Work
  BY <1>2 DEF IsBatch, Claimable, ClaimInv
<1>4. \A e \in S : /\ row'[e] \in Row /\ row'[e].status = "processing" /\ row'[e].token = t
  <2>. SUFFICES ASSUME NEW e \in S
                PROVE  LET r == ClaimedRow(row[e], t)
                       IN  r \in Row /\ r.status = "processing" /\ r.token = t
    BY <1>2
  <2>. DEFINE r0 == row[e]
  <2>1. r0 \in Row
    BY DEF TypeOK
  <2>2. ReclaimedAtCap(r0) \/ r0.attempt < MaxAttempts
    BY <1>3, <2>1 DEF Claimable, ReclaimedAtCap, Row
  <2>3. ClaimedRow(r0, t) \in Row
    BY <1>1, <2>1, <2>2, RowSteps
  <2>. DEFINE c == LeasedBy(r0, t)
  <2>4. c \in Row /\ c.status = "processing" /\ c.token = t
    BY <1>1, <2>1 DEF LeasedBy, Row, Status
  <2>5. ClaimedRow(r0, t).status = "processing" /\ ClaimedRow(r0, t).token = t
    <3>1. ClaimedRow(r0, t) = [c EXCEPT !.capped = TRUE]
          \/ ClaimedRow(r0, t) = [c EXCEPT !.capped = FALSE, !.attempt = r0.attempt + 1]
      BY DEF ClaimedRow
    <3>. HIDE DEF c, r0
    <3>2. QED
      BY <3>1, <2>4 DEF Row
  <2>6. QED
    BY <2>3, <2>5
<1>5. \A e \in Event \ S : row'[e] = row[e]
  BY <1>2
<1>6. /\ worker'[w].phase = "handling" /\ worker'[w].token = t /\ worker'[w].todo = S
      /\ worker'[w].attempts = [e \in Event |-> IF e \in S THEN row'[e].attempt ELSE 0]
      /\ worker' = [worker EXCEPT ![w] = worker'[w]]
      /\ \A v \in Worker \ {w} : worker'[v] = worker[v]
  BY <1>2 DEF TypeOK
<1>7. TypeOK'
  <2>1. row' \in [Event -> Row]
    <3>1. \A e \in Event : row'[e] \in Row
      BY <1>4, <1>5 DEF TypeOK
    <3>2. row' = [e \in Event |-> row'[e]]
      BY <1>2
    <3>3. QED
      BY <3>1, <3>2
  <2>2. [e \in Event |-> IF e \in S THEN row'[e].attempt ELSE 0] \in [Event -> 0..MaxAttempts]
    <3>1. \A e \in Event : row'[e].attempt \in 0..MaxAttempts
      BY <2>1 DEF Row
    <3>2. QED
      BY <3>1
  <2>3. worker'[w] \in Local
    BY <1>1, <1>2, <2>2 DEF Local, Phase, TypeOK
  <2>4. QED
    BY <1>6, <2>1, <2>3 DEF TypeOK, Claim
<1>8. TokenInv'
  BY <1>1, <1>4, <1>5, <1>6 DEF TokenInv, InUse
<1>9. ClaimInv'
  BY <1>3, <1>4, <1>5, <1>6 DEF ClaimInv, TypeOK, Local
<1>10. ClaimIsCurrent'
  <2>. SUFFICES ASSUME NEW v \in Worker, NEW e \in worker'[v].todo, Owns(v, e)'
                PROVE  worker'[v].attempts[e] = row'[e].attempt
    BY DEF ClaimIsCurrent
  <2>1. CASE v = w
    BY <1>6, <2>1
  <2>2. CASE v # w
    <3>1. worker'[v] = worker[v] /\ e \in Event
      BY <1>6, <2>2 DEF TypeOK, Local
    <3>2. e \notin S
      BY <1>1, <1>4, <3>1 DEF Owns, InUse
    <3>3. QED
      BY <1>5, <3>1, <3>2 DEF ClaimIsCurrent, Owns
  <2>3. QED
    BY <2>1, <2>2
<1>11. SettleInv'
  <2>1. effect' = effect
    BY DEF Claim
  <2>2. \A v \in Worker : \A e \in worker'[v].todo : IsCurrent(v, e)' =>
          /\ worker'[v].phase = "completing" => effect[e] # "none"
          /\ worker'[v].phase = "retrying" /\ worker'[v].attempts[e] >= MaxAttempts
               => effect[e] # "none"
    <3>. SUFFICES ASSUME NEW v \in Worker \ {w}, NEW e \in worker'[v].todo, IsCurrent(v, e)'
                  PROVE  /\ worker'[v].phase = "completing" => effect[e] # "none"
                         /\ worker'[v].phase = "retrying"
                              /\ worker'[v].attempts[e] >= MaxAttempts => effect[e] # "none"
      BY <1>6
    <3>1. worker'[v] = worker[v]
      BY <1>6
    <3>2. e \in worker[v].todo /\ IsCurrent(v, e)
      BY <3>1 DEF IsCurrent
    <3>3. QED
      BY <3>1, <3>2 DEF SettleInv
  <2>3. QED
    BY <2>1, <2>2 DEF SettleInv
<1>12. ClosedBeforeTerminal'
  BY <1>4, <1>5 DEF ClosedBeforeTerminal, Terminal, Claim
<1>13. QED
  BY <1>7, <1>8, <1>9, <1>10, <1>11, <1>12

-----------------------------------------------------------------------------
\* Closing a domain resource preserves everything: effects only ever close.
LEMMA EffectStep ==
  ASSUME IInv, NEW e \in Event, NEW c \in EffectState \ {"none"},
         effect' = [effect EXCEPT ![e] = c], UNCHANGED <<row, worker, faults>>
  PROVE  IInv'
<1>. USE DEF IInv
<1>1. TypeOK'
  BY DEF TypeOK
<1>2. \A f \in Event : effect[f] # "none" => effect'[f] # "none"
  BY DEF TypeOK, EffectState
<1>3. TokenInv' /\ ClaimInv' /\ ClaimIsCurrent'
  BY DEF TokenInv, ClaimInv, ClaimIsCurrent, Owns
<1>4. SettleInv'
  <2>1. \A w \in Worker : worker[w].todo \subseteq Event
    BY DEF TypeOK, Local
  <2>2. QED
    BY <1>2, <2>1 DEF SettleInv, IsCurrent
<1>5. ClosedBeforeTerminal'
  BY <1>2, EventAssumption DEF ClosedBeforeTerminal, Terminal
<1>6. QED
  BY <1>1, <1>3, <1>4, <1>5

\* The CAS of complete and retry: rewrites the row it owns, then moves on.
LEMMA CasStep ==
  ASSUME IInv, NEW w \in Worker, NEW e \in Event, NEW r \in Row,
         worker[w].phase # "idle", IsCurrent(w, e), NextClaim(w, e),
         row' = [row EXCEPT ![e] = r], UNCHANGED <<effect, faults>>,
         r = row[e] \/ ( /\ r.status \in {"pending", "published", "failed"}
                         /\ r.token = NoToken
                         /\ r.status # "pending" => effect[e] # "none" )
  PROVE  IInv'
<1>. USE TokenAssumption DEF IInv
<1>1. e \in Work
  BY DEF ClaimInv, IsCurrent
<1>2. r = row[e] \/ RowChange(e)
  BY <1>1 DEF RowChange, Terminal, TypeOK
<1>3. \A f \in Event : row'[f] = row[f] \/ RowChange(f)
  BY <1>2 DEF TypeOK
<1>4. \A v \in Worker : worker'[v] = worker[v] \/ worker'[v] = Idle \/ WorkerChange(v)
  BY NextClaimChange
<1>5. TypeOK'
  BY LocalSteps DEF TypeOK
<1>6. QED
  BY <1>3, <1>4, <1>5, Preserve

LEMMA SettledFields ==
  ASSUME NEW r \in Row, NEW to \in Status
  PROVE  Settled(r, to).status = to /\ Settled(r, to).token = NoToken
BY DEF Settled, Row

LEMMA CompleteStep ==
  ASSUME IInv, NEW w \in Worker, NEW e \in Event, Complete(w, e)
  PROVE  IInv'
<1>. DEFINE r == IF Owns(w, e) THEN Settled(row[e], "published") ELSE row[e]
<1>1. row[e] \in Row /\ worker[w].phase = "completing" /\ IsCurrent(w, e) /\ NextClaim(w, e)
      /\ UNCHANGED <<effect, faults>>
  BY DEF IInv, TypeOK, Complete
<1>2. row' = [row EXCEPT ![e] = r]
  BY DEF Complete
<1>3. effect[e] # "none"
  BY <1>1 DEF IInv, SettleInv, IsCurrent
<1>4. Settled(row[e], "published") \in Row
  BY <1>1 DEF Settled, Row, Status
<1>5. r \in Row
  BY <1>1, <1>4
<1>6. r = row[e] \/ (r.status = "published" /\ r.token = NoToken)
  BY <1>1, SettledFields DEF Status
<1>. HIDE DEF r
<1>7. QED
  BY <1>1, <1>2, <1>3, <1>5, <1>6, CasStep

\* The row fails only when the worker, too, counted the last attempt: its hook has run.
LEMMA RetryStep ==
  ASSUME IInv, NEW w \in Worker, NEW e \in Event, Retry(w, e)
  PROVE  IInv'
<1>. USE BoundAssumption
<1>. DEFINE r == IF Owns(w, e) THEN AfterFailure(row[e]) ELSE row[e]
<1>1. row[e] \in Row /\ worker[w].phase = "retrying" /\ IsCurrent(w, e) /\ NextClaim(w, e)
      /\ UNCHANGED <<effect, faults>>
  BY DEF IInv, TypeOK, Retry
<1>2. row' = [row EXCEPT ![e] = r]
  BY DEF Retry
<1>3. Owns(w, e) => worker[w].attempts[e] = row[e].attempt
  BY <1>1 DEF IInv, ClaimIsCurrent, IsCurrent
<1>4. Owns(w, e) /\ row[e].attempt >= MaxAttempts => effect[e] # "none"
  BY <1>1, <1>3 DEF IInv, SettleInv, IsCurrent
<1>5. Settled(row[e], "failed") \in Row /\ Settled(row[e], "pending") \in Row
  BY <1>1 DEF Settled, Row, Status
<1>6. r \in Row
  BY <1>1, <1>5 DEF AfterFailure
<1>7. \/ r = row[e]
      \/ /\ r.status \in {"pending", "failed"} /\ r.token = NoToken
         /\ r.status = "failed" => effect[e] # "none"
  BY <1>1, <1>4, SettledFields DEF AfterFailure, Status
<1>. HIDE DEF r
<1>8. QED
  BY <1>1, <1>2, <1>6, <1>7, CasStep

-----------------------------------------------------------------------------
LEMMA NextInv == IInv /\ [Next]_vars => IInv'
<1>. SUFFICES ASSUME IInv, [Next]_vars PROVE IInv'
  OBVIOUS
<1>. USE EventAssumption, TokenAssumption, BoundAssumption
<1>0. /\ row \in [Event -> Row] /\ effect \in [Event -> EffectState]
      /\ worker \in [Worker -> Local] /\ faults \in 0..MaxFaults
  BY DEF IInv, TypeOK
<1>f. Fault => faults' \in 0..MaxFaults
  BY <1>0 DEF Fault
<1>1. ASSUME NEW e \in Event, Enqueue(e) PROVE IInv'
  <2>. DEFINE r == Inserted(row[e], e)
  <2>1. row[e] \in Row /\ row[e].status = "absent"
    BY <1>0, <1>1 DEF Enqueue
  <2>2. r \in Row /\ r.token = row[e].token /\ r.attempt = row[e].attempt
        /\ r.status = IF e \in Work THEN "pending" ELSE "published"
    BY <2>1 DEF Inserted, Row, Status
  <2>3. row' = [row EXCEPT ![e] = r]
    BY <1>1 DEF Enqueue
  <2>. HIDE DEF r
  <2>4. QED
    BY <1>0, <1>1, <2>1, <2>2, <2>3, RowActions DEF Enqueue
<1>2. ASSUME NEW e \in Event, LeaseExpires(e) \/ \E w \in Worker : Stall(w, e) PROVE IInv'
  <2>. DEFINE r == [row[e] EXCEPT !.lapsed = TRUE]
  <2>1. row[e] \in Row /\ row[e].status = "processing"
    BY <1>0, <1>2 DEF LeaseExpires, Stall, Owns
  <2>2. r \in Row /\ r.token = row[e].token /\ r.attempt = row[e].attempt
        /\ r.status = "processing"
    BY <2>1 DEF Row
  <2>3. row' = [row EXCEPT ![e] = r] /\ UNCHANGED <<effect, worker>> /\ faults' \in 0..MaxFaults
    BY <1>0, <1>f, <1>2 DEF LeaseExpires, Stall
  <2>4. e \in Work
    BY <2>1 DEF IInv, ClaimInv
  <2>. HIDE DEF r
  <2>5. QED
    BY <2>1, <2>2, <2>3, <2>4, RowActions
<1>3. ASSUME NEW e \in Event, BecomeDue(e) PROVE IInv'
  <2>. DEFINE r == [row[e] EXCEPT !.due = TRUE]
  <2>1. row[e] \in Row /\ row[e].status = "pending"
    BY <1>0, <1>3 DEF BecomeDue
  <2>2. r \in Row /\ r.token = row[e].token /\ r.attempt = row[e].attempt
        /\ r.status = "pending"
    BY <2>1 DEF Row
  <2>3. row' = [row EXCEPT ![e] = r] /\ UNCHANGED <<effect, worker>> /\ faults' \in 0..MaxFaults
    BY <1>0, <1>3 DEF BecomeDue
  <2>4. e \in Work
    BY <2>1 DEF IInv, ClaimInv
  <2>. HIDE DEF r
  <2>5. QED
    BY <2>1, <2>2, <2>3, <2>4, RowActions
<1>4. ASSUME NEW e \in Event, Purge(e) PROVE IInv'
  <2>. DEFINE r == [row[e] EXCEPT !.status = "purged"]
  <2>1. row[e] \in Row /\ row[e].status \in {"published", "failed"}
    BY <1>0, <1>4 DEF Purge
  <2>2. r \in Row /\ r.token = row[e].token /\ r.attempt = row[e].attempt
        /\ r.status = "purged"
    BY <2>1 DEF Row, Status
  <2>3. row' = [row EXCEPT ![e] = r] /\ UNCHANGED <<effect, worker>> /\ faults' \in 0..MaxFaults
    BY <1>0, <1>4 DEF Purge
  <2>4. e \in Work => effect[e] # "none"
    BY <2>1 DEF IInv, ClosedBeforeTerminal, Terminal
  <2>. HIDE DEF r
  <2>5. QED
    BY <2>1, <2>2, <2>3, <2>4, RowActions
<1>5. ASSUME NEW w \in Worker, NEW e \in Event, Renew(w, e) PROVE IInv'
  <2>. DEFINE r == [row[e] EXCEPT !.lapsed = FALSE]
  <2>1. row[e] \in Row /\ row[e].status = "processing"
    BY <1>0, <1>5 DEF Renew, Owns
  <2>2. r \in Row /\ r.token = row[e].token /\ r.attempt = row[e].attempt
        /\ r.status = "processing"
    BY <2>1 DEF Row
  <2>3. row' = [row EXCEPT ![e] = r] /\ UNCHANGED <<effect, worker>> /\ faults' \in 0..MaxFaults
    BY <1>0, <1>5 DEF Renew
  <2>4. e \in Work
    BY <2>1 DEF IInv, ClaimInv
  <2>. HIDE DEF r
  <2>5. QED
    BY <2>1, <2>2, <2>3, <2>4, RowActions
<1>6. ASSUME NEW w \in Worker, Claim(w) PROVE IInv'
  BY <1>6, ClaimStep
<1>7. ASSUME NEW w \in Worker, Crash(w) \/ \E e \in Event : HookRaises(w, e) PROVE IInv'
  <2>1. worker' = [worker EXCEPT ![w] = Idle] /\ UNCHANGED <<row, effect>>
        /\ faults' \in 0..MaxFaults
    BY <1>0, <1>f, <1>7 DEF Crash, HookRaises, AbortBatch
  <2>2. QED
    BY <2>1, IdleIsLocal, WorkerActions
<1>8. ASSUME NEW w \in Worker, NEW e \in Event, HandlerCommits(w, e) \/ HookCommits(w, e)
      PROVE IInv'
  <2>1. PICK c \in EffectState \ {"none"} : effect' = [effect EXCEPT ![e] = c]
    BY <1>8 DEF HandlerCommits, HookCommits, EffectState
  <2>2. UNCHANGED <<row, worker, faults>>
    BY <1>8 DEF HandlerCommits, HookCommits
  <2>3. QED
    BY <2>1, <2>2, EffectStep
<1>9. ASSUME NEW w \in Worker, NEW e \in Event, HandlerReturns(w, e) PROVE IInv'
  BY <1>9, EnterChange DEF HandlerReturns, Phase
<1>10. ASSUME NEW w \in Worker, NEW e \in Event, HandlerFails(w, e) PROVE IInv'
  <2>1. CASE worker[w].attempts[e] >= MaxAttempts
    BY <1>10, <2>1, EnterChange DEF HandlerFails, Phase
  <2>2. CASE ~(worker[w].attempts[e] >= MaxAttempts)
    BY <1>10, <2>2, EnterChange DEF HandlerFails, Phase
  <2>3. QED
    BY <2>1, <2>2
<1>11. ASSUME NEW w \in Worker, NEW e \in Event, HookReturns(w, e) PROVE IInv'
  BY <1>11, EnterChange DEF HookReturns, Phase
<1>12. ASSUME NEW w \in Worker, NEW e \in Event, LeaseLost(w, e) PROVE IInv'
  <2>1. /\ worker[w].phase # "idle" /\ UNCHANGED <<row, effect>> /\ faults' \in 0..MaxFaults
        /\ worker' = [worker EXCEPT ![w] = Idle] \/ NextClaim(w, e)
    BY <1>0, <1>f, <1>12 DEF LeaseLost, AbortBatch
  <2>2. \A v \in Worker : worker'[v] = worker[v] \/ worker'[v] = Idle \/ WorkerChange(v)
    BY <2>1, NextClaimChange
  <2>3. TypeOK'
    BY <1>0, <2>1, LocalSteps DEF TypeOK
  <2>4. QED
    BY <2>1, <2>2, <2>3, Preserve
<1>13. ASSUME NEW w \in Worker, NEW e \in Event, Complete(w, e) \/ Retry(w, e) PROVE IInv'
  BY <1>13, CompleteStep, RetryStep
<1>14. CASE UNCHANGED vars
  <2>1. TypeOK'
    BY <1>0, <1>14 DEF TypeOK, vars
  <2>2. QED
    BY <1>14, <2>1, Preserve DEF vars
<1>15. QED
  BY <1>1, <1>2, <1>3, <1>4, <1>5, <1>6, <1>7, <1>8, <1>9, <1>10, <1>11, <1>12, <1>13, <1>14
     DEF Next

\* The inductive invariant holds in every reachable state of a dispatcher.
THEOREM Inductive == Spec => []IInv
<1>1. QED
  BY InitInv, NextInv, PTL DEF Spec

\* Rows, leases and run_once locals keep their types; in particular no reclaim
\* pushes attempt_count past the cap (the 0027 claim function).
THEOREM TypeCorrect == Spec => []TypeOK
<1>1. IInv => TypeOK
  BY DEF IInv
<1>2. QED
  BY <1>1, Inductive, PTL

\* No work row leaves the queue, published or failed, before its domain
\* resources are closed, whatever the workers, leases and faults.
THEOREM ClosedFirst == Spec => []ClosedBeforeTerminal
<1>1. IInv => ClosedBeforeTerminal
  BY DEF IInv
<1>2. QED
  BY <1>1, Inductive, PTL

\* The dispatcher and the SQL functions never disagree about the last attempt.
THEOREM ClaimsAreCurrent == Spec => []ClaimIsCurrent
<1>1. IInv => ClaimIsCurrent
  BY DEF IInv
<1>2. QED
  BY <1>1, Inductive, PTL

\* At most one of the workers executing an event can settle its row.
THEOREM UniqueOwner == Spec => []OneOwner
<1>1. IInv => OneOwner
  <2>. SUFFICES ASSUME IInv, NEW w \in Worker, NEW v \in Worker,
                       NEW e \in worker[w].todo \cap worker[v].todo,
                       Owns(w, e), Owns(v, e)
                PROVE  w = v
    BY DEF OneOwner
  <2>1. worker[w].token = worker[v].token
    BY DEF Owns
  <2>2. worker[w].token \in Token
    BY DEF IInv, TokenInv
  <2>3. QED
    BY <2>1, <2>2 DEF IInv, TokenInv
<1>2. QED
  BY <1>1, Inductive, PTL

-----------------------------------------------------------------------------
\* Which rows a step changes, and how: the case lemma of the action properties.
LEMMA RowCases ==
  ASSUME IInv, [Next]_vars, NEW e \in Event, row'[e] # row[e]
  PROVE  \/ Enqueue(e) \/ BecomeDue(e) \/ Purge(e)
         \/ /\ row[e].status = "processing" /\ row'[e].status = "processing"
            /\ row'[e].token = row[e].token
         \/ /\ Claimable(e) /\ row'[e].status = "processing"
         \/ \E w \in Worker : Owns(w, e) /\ (Complete(w, e) \/ Retry(w, e))
<1>0. row \in [Event -> Row]
  BY DEF IInv, TypeOK
<1>1. ASSUME NEW f \in Event, Enqueue(f) \/ BecomeDue(f) \/ Purge(f)
      PROVE  f = e
  BY <1>0, <1>1 DEF Enqueue, BecomeDue, Purge
<1>2. ASSUME NEW f \in Event,
             LeaseExpires(f) \/ \E w \in Worker : Renew(w, f) \/ Stall(w, f)
      PROVE  /\ row[e].status = "processing" /\ row'[e].status = "processing"
             /\ row'[e].token = row[e].token
  <2>1. row[f].status = "processing"
    BY <1>2 DEF LeaseExpires, Renew, Stall, Owns
  <2>2. \/ row' = [row EXCEPT ![f] = [row[f] EXCEPT !.lapsed = TRUE]]
        \/ row' = [row EXCEPT ![f] = [row[f] EXCEPT !.lapsed = FALSE]]
    BY <1>2 DEF LeaseExpires, Renew, Stall
  <2>3. f = e
    BY <1>0, <2>2
  <2>4. row[e] \in Row
    BY <1>0
  <2>5. QED
    BY <1>0, <2>1, <2>2, <2>3, <2>4 DEF Row
<1>3. ASSUME NEW w \in Worker, Claim(w)
      PROVE  Claimable(e) /\ row'[e].status = "processing"
  <2>1. PICK S \in SUBSET Event :
          /\ IsBatch(S)
          /\ row' = [f \in Event |-> IF f \in S THEN ClaimedRow(row[f], FreshToken) ELSE row[f]]
    BY <1>3 DEF Claim
  <2>2. e \in S /\ Claimable(e) /\ row'[e] = ClaimedRow(row[e], FreshToken)
    BY <2>1 DEF IsBatch
  <2>3. ClaimedRow(row[e], FreshToken).status = "processing"
    <3>1. row[e] \in Row
      BY <1>0
    <3>2. FreshToken \in Token
      BY <1>3 DEF Claim, FreshToken
    <3>. DEFINE c == LeasedBy(row[e], FreshToken)
    <3>3. c \in Row /\ c.status = "processing"
      BY <3>1, <3>2 DEF LeasedBy, Row, Status
    <3>4. ClaimedRow(row[e], FreshToken) = [c EXCEPT !.capped = TRUE]
          \/ ClaimedRow(row[e], FreshToken)
               = [c EXCEPT !.capped = FALSE, !.attempt = row[e].attempt + 1]
      BY DEF ClaimedRow
    <3>. HIDE DEF c
    <3>5. QED
      BY <3>3, <3>4 DEF Row
  <2>4. QED
    BY <2>2, <2>3
<1>4. ASSUME NEW w \in Worker, NEW f \in Event, Complete(w, f) \/ Retry(w, f)
      PROVE  f = e /\ Owns(w, e)
  BY <1>0, <1>4 DEF Complete, Retry
<1>5. ASSUME NEW w \in Worker, NEW f \in Event,
             \/ HandlerCommits(w, f) \/ HandlerReturns(w, f) \/ HandlerFails(w, f)
             \/ HookCommits(w, f) \/ HookReturns(w, f) \/ HookRaises(w, f) \/ LeaseLost(w, f)
      PROVE  FALSE
  BY <1>5 DEF HandlerCommits, HandlerReturns, HandlerFails, HookCommits, HookReturns,
              HookRaises, LeaseLost
<1>6. CASE UNCHANGED vars
  BY <1>6 DEF vars
<1>7. ASSUME NEW w \in Worker, Crash(w)
      PROVE  FALSE
  BY <1>7 DEF Crash
<1>8. QED
  BY <1>1, <1>2, <1>3, <1>4, <1>5, <1>6, <1>7 DEF Next

\* What the owner's CAS makes of its row, and that it leaves the claim behind.
LEMMA CasCases ==
  ASSUME IInv, NEW w \in Worker, NEW e \in Event, Owns(w, e), Complete(w, e) \/ Retry(w, e)
  PROVE  /\ row'[e].status \in {"pending", "published", "failed"}
         /\ IsCurrent(w, e) /\ ~IsCurrent(w, e)'
         /\ row'[e].status # "pending" => effect[e] # "none"
<1>1. row \in [Event -> Row] /\ row[e] \in Row
  BY DEF IInv, TypeOK
<1>2. IsCurrent(w, e) /\ NextClaim(w, e)
  BY DEF Complete, Retry
<1>3. ~IsCurrent(w, e)'
  <2>1. worker'[w] = Idle \/ worker'[w].todo = worker[w].todo \ {e}
    BY <1>2, LocalSteps DEF IInv
  <2>2. QED
    BY <2>1 DEF IsCurrent, Idle
<1>4. row'[e] = Settled(row[e], "published") \/ row'[e] = AfterFailure(row[e])
  BY <1>1 DEF Complete, Retry
<1>5. row'[e].status \in {"pending", "published", "failed"}
  BY <1>1, <1>4, SettledFields DEF AfterFailure, Status
<1>6. IInv'
  BY CompleteStep, RetryStep
<1>7. e \in Work /\ effect' = effect
  BY <1>2 DEF IInv, ClaimInv, IsCurrent, Complete, Retry
<1>8. QED
  BY <1>2, <1>3, <1>5, <1>6, <1>7 DEF IInv, ClosedBeforeTerminal, Terminal

\* A leased row changes hands only after its lease lapsed; only its owner settles it.
THEOREM LeasesRespected == Spec => LeaseRespected
<1>1. IInv /\ [Next]_vars => [LeaseStep]_vars
  <2>. SUFFICES ASSUME IInv, [Next]_vars, NEW e \in Event,
                       row[e].status = "processing", row'[e].token # row[e].token
                PROVE  \/ row'[e].status = "processing" /\ row[e].lapsed
                       \/ \E w \in Worker : Owns(w, e) /\ IsCurrent(w, e) /\ ~IsCurrent(w, e)'
    BY DEF LeaseStep
  <2>1. ~Enqueue(e) /\ ~BecomeDue(e) /\ ~Purge(e)
    BY DEF Enqueue, BecomeDue, Purge
  <2>2. Claimable(e) => row[e].lapsed
    BY DEF Claimable
  <2>3. QED
    BY <2>1, <2>2, RowCases, CasCases
<1>2. QED
  BY <1>1, Inductive, PTL DEF LeaseRespected, Spec

\* Terminal rows are final, and only terminal rows are ever purged.
THEOREM TerminalRowsAreFinal == Spec => TerminalIsFinal
<1>1. IInv /\ [Next]_vars => [TerminalStep]_vars
  <2>. SUFFICES ASSUME IInv, [Next]_vars, NEW e \in Event, row'[e] # row[e]
                PROVE  /\ Terminal(e) => row'[e].status \in {row[e].status, "purged"}
                       /\ row'[e].status = "purged" => Terminal(e)
    BY DEF TerminalStep, Terminal
  <2>1. row \in [Event -> Row] /\ row[e] \in Row
    BY DEF IInv, TypeOK
  <2>2. CASE Enqueue(e) \/ BecomeDue(e) \/ Purge(e)
    <3>1. CASE Enqueue(e)
      <4>1. row'[e] = Inserted(row[e], e) /\ row[e].status = "absent"
        BY <2>1, <3>1 DEF Enqueue
      <4>2. Inserted(row[e], e).status # "purged"
        BY <2>1 DEF Inserted, Row
      <4>3. QED
        BY <4>1, <4>2 DEF Terminal
    <3>2. CASE BecomeDue(e)
      <4>1. row[e].status = "pending" /\ row'[e] = [row[e] EXCEPT !.due = TRUE]
        BY <2>1, <3>2 DEF BecomeDue
      <4>2. QED
        BY <2>1, <4>1 DEF Row, Terminal
    <3>3. CASE Purge(e)
      <4>1. Terminal(e) /\ row'[e] = [row[e] EXCEPT !.status = "purged"]
        BY <2>1, <3>3 DEF Purge, Terminal
      <4>2. QED
        BY <2>1, <4>1 DEF Row
    <3>4. QED
      BY <2>2, <3>1, <3>2, <3>3
  <2>3. CASE row[e].status = "processing"
    <3>1. row'[e].status \in {"pending", "processing", "published", "failed"}
      BY <2>3, RowCases, CasCases DEF Enqueue, BecomeDue, Purge
    <3>2. QED
      BY <2>3, <3>1 DEF Terminal
  <2>4. CASE Claimable(e) /\ row'[e].status = "processing"
    BY <2>4 DEF Claimable, Terminal
  <2>5. QED
    BY <2>2, <2>3, <2>4, RowCases DEF Owns
<1>2. QED
  BY <1>1, Inductive, PTL DEF TerminalIsFinal, Spec

-----------------------------------------------------------------------------
\* One row's move, seen as a step of the abstract delivery.
LEMMA DeliveryMove ==
  ASSUME row \in [Event -> Row], NEW e \in Event, NEW r \in Row, row' = [row EXCEPT ![e] = r]
  PROVE  [f \in Event |-> ItemOf(row'[f].status)]
           = [[f \in Event |-> ItemOf(row[f].status)] EXCEPT ![e] = ItemOf(r.status)]
<1>1. row'[e] = r /\ \A f \in Event \ {e} : row'[f] = row[f]
  OBVIOUS
<1>2. QED
  BY <1>1

\* The dispatcher implements the abstract delivery: each event is performed or
\* compensated exactly once, and only then delivered or abandoned.
THEOREM Refinement == Spec => Implements
<1>. DEFINE item == [e \in Event |-> ItemOf(row[e].status)]
<1>1. Init => Delivery!DInit
  BY DEF Init, NoRow, Delivery!DInit, ItemOf
<1>2. IInv /\ [Next]_vars => [Delivery!DNext]_<<item, effect>>
  <2>. SUFFICES ASSUME IInv, [Next]_vars PROVE [Delivery!DNext]_<<item, effect>>
    OBVIOUS
  <2>0. /\ row \in [Event -> Row] /\ effect \in [Event -> EffectState]
        /\ \A e \in Event : row[e] \in Row
        /\ IInv'
    BY NextInv DEF IInv, TypeOK
  <2>i. /\ \A s : ItemOf(s) = "open" <=> s \in {"pending", "processing"}
        /\ ItemOf("absent") = "absent" /\ ItemOf("published") = "delivered"
        /\ ItemOf("failed") = "abandoned" /\ ItemOf("purged") = "gone"
    BY DEF ItemOf
  <2>1. ASSUME NEW w \in Worker, NEW e \in Event, HandlerCommits(w, e) \/ HookCommits(w, e)
        PROVE  Delivery!DNext
    <3>1. e \in Work /\ row[e].status # "absent" /\ effect[e] = "none"
      BY <2>1 DEF HandlerCommits, HookCommits, IInv, ClaimInv, IsCurrent
    <3>2. row[e].status \in {"pending", "processing"}
      BY <2>0, <3>1 DEF IInv, ClosedBeforeTerminal, Terminal, Row, Status
    <3>3. item[e] = "open"
      BY <3>2, <2>i
    <3>4. item' = item
      BY <2>1 DEF HandlerCommits, HookCommits
    <3>5. Delivery!Perform(e) \/ Delivery!Compensate(e)
      BY <2>1, <3>1, <3>3, <3>4 DEF HandlerCommits, HookCommits, Delivery!Perform,
         Delivery!Compensate, Delivery!Close
    <3>6. QED
      BY <3>5 DEF Delivery!DNext
  <2>2. ASSUME NEW e \in Event, Enqueue(e) PROVE Delivery!DNext
    <3>1. row[e] \in Row /\ row[e].status = "absent" /\ UNCHANGED effect
      BY <2>0, <2>2 DEF Enqueue
    <3>2. /\ Inserted(row[e], e) \in Row
          /\ Inserted(row[e], e).status = IF e \in Work THEN "pending" ELSE "published"
      BY <3>1 DEF Inserted, Row, Status
    <3>3. item' = [item EXCEPT ![e] = ItemOf(Inserted(row[e], e).status)]
      BY <2>0, <2>2, <3>2, DeliveryMove DEF Enqueue
    <3>4. item[e] = "absent"
      BY <3>1, <2>i
    <3>5. Delivery!Submit(e) \/ Delivery!Announce(e)
      BY <2>i, <3>1, <3>2, <3>3, <3>4 DEF Delivery!Submit, Delivery!Announce, Delivery!Move
    <3>6. QED
      BY <3>5 DEF Delivery!DNext
  <2>3. ASSUME NEW e \in Event, Purge(e) PROVE Delivery!DNext
    <3>. DEFINE r == [row[e] EXCEPT !.status = "purged"]
    <3>1. row[e] \in Row /\ row[e].status \in {"published", "failed"} /\ UNCHANGED effect
          /\ row' = [row EXCEPT ![e] = r]
      BY <2>0, <2>3 DEF Purge
    <3>2. r \in Row /\ r.status = "purged"
      BY <3>1 DEF Row, Status
    <3>. HIDE DEF r
    <3>3. item' = [item EXCEPT ![e] = "gone"]
      BY <2>0, <2>i, <3>1, <3>2, DeliveryMove
    <3>4. item[e] \in {"delivered", "abandoned"}
      BY <3>1, <2>i
    <3>5. Delivery!Forget(e)
      BY <3>1, <3>3, <3>4 DEF Delivery!Forget, Delivery!Move
    <3>6. QED
      BY <3>5 DEF Delivery!DNext
  <2>4. ASSUME NEW w \in Worker, NEW e \in Event, Owns(w, e), Complete(w, e) \/ Retry(w, e)
        PROVE  [Delivery!DNext]_<<item, effect>>
    <3>1. row[e] \in Row /\ row[e].status = "processing" /\ UNCHANGED effect
      BY <2>0, <2>4 DEF Owns, Complete, Retry
    <3>2. PICK r \in Row : row' = [row EXCEPT ![e] = r]
      <4>1. Settled(row[e], "published") \in Row /\ AfterFailure(row[e]) \in Row
        BY <3>1 DEF Settled, AfterFailure, Row, Status
      <4>2. QED
        BY <2>4, <4>1 DEF Complete, Retry
    <3>3. r.status \in {"pending", "published", "failed"}
          /\ (r.status # "pending" => effect[e] # "none")
      BY <2>0, <2>4, <3>2, CasCases
    <3>4. item' = [item EXCEPT ![e] = ItemOf(r.status)] /\ item[e] = "open"
      BY <2>0, <2>i, <3>1, <3>2, DeliveryMove
    <3>5. item = [item EXCEPT ![e] = item[e]]
      OBVIOUS
    <3>6. CASE r.status = "pending"
      BY <2>i, <3>1, <3>4, <3>5, <3>6
    <3>7. CASE r.status = "published"
      <4>1. Delivery!Deliver(e)
        BY <2>i, <3>1, <3>3, <3>4, <3>7 DEF Delivery!Deliver, Delivery!Move
      <4>2. QED
        BY <4>1 DEF Delivery!DNext
    <3>8. CASE r.status = "failed"
      <4>1. Delivery!Abandon(e)
        BY <2>i, <3>1, <3>3, <3>4, <3>8 DEF Delivery!Abandon, Delivery!Move
      <4>2. QED
        BY <4>1 DEF Delivery!DNext
    <3>9. QED
      BY <3>3, <3>6, <3>7, <3>8
  <2>5. ASSUME UNCHANGED effect, \A e \in Event :
                 \/ row'[e] = row[e]
                 \/ /\ ~Enqueue(e)
                    /\ ~Purge(e)
                    /\ \A w \in Worker :
                         ~(Owns(w, e) /\ (Complete(w, e) \/ Retry(w, e)))
        PROVE  UNCHANGED <<item, effect>>
    <3>1. \A e \in Event : ItemOf(row'[e].status) = ItemOf(row[e].status)
      <4>. SUFFICES ASSUME NEW e \in Event, row'[e] # row[e]
                    PROVE  ItemOf(row'[e].status) = ItemOf(row[e].status)
        OBVIOUS
      <4>1. CASE BecomeDue(e)
        BY <2>0, <2>i, <4>1 DEF BecomeDue, Row
      <4>2. CASE Claimable(e) /\ row'[e].status = "processing"
        BY <2>i, <4>2 DEF Claimable
      <4>3. QED
        BY <2>5, <4>1, <4>2, RowCases
    <3>2. QED
      BY <2>5, <3>1
  <2>6. QED
    <3>1. CASE \E w \in Worker, e \in Event : HandlerCommits(w, e) \/ HookCommits(w, e)
      BY <2>1, <3>1
    <3>2. CASE ~\E w \in Worker, e \in Event : HandlerCommits(w, e) \/ HookCommits(w, e)
      <4>1. effect' = effect
        BY <3>2 DEF Next, vars, Enqueue, LeaseExpires, BecomeDue, Purge, Claim, Crash,
           HandlerReturns, HandlerFails, HookReturns, HookRaises, Renew, LeaseLost, Stall,
           Complete, Retry
      <4>2. QED
        BY <2>2, <2>3, <2>4, <2>5, <4>1
    <3>3. QED
      BY <3>1, <3>2
<1>3. QED
  BY <1>1, <1>2, Inductive, PTL DEF Spec, Implements, Delivery!DSpec, Delivery!dVars
=============================================================================
