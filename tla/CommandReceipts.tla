---------------------------- MODULE CommandReceipts ----------------------------
(***************************************************************************)
(* What API V2 promises about Idempotency-Key, without tables, locks,      *)
(* transactions, callers, crashes or preparation.                          *)
(*                                                                         *)
(* A command settles once: its outcome becomes the receipt of its scope.   *)
(* Until Retention has passed since it was completed the scope answers     *)
(* only that receipt, and only to the request that was settled; after that *)
(* it may be forgotten, and the key may be used again.                     *)
(*                                                                         *)
(* IdempotentCommand implements this specification.                        *)
(***************************************************************************)
EXTENDS Naturals, Sequences

CONSTANTS Scopes, Bodies, Outcome, Retention, NoReceipt

VARIABLES now,      \* the time
          settled,  \* settled[s]: the commands settled in scope s, in order
          receipt,  \* receipt[s]: the one that is remembered
          answer    \* the last response that reached a client

rVars == <<now, settled, receipt, answer>>

\* What may be settled by now.
Response == [body : Bodies, outcome : Outcome, done : 0..now]

RInit == /\ now = 0
         /\ settled = [s \in Scopes |-> << >>]
         /\ receipt = [s \in Scopes |-> NoReceipt]
         /\ answer = NoReceipt

Over(s) == \A i \in DOMAIN settled[s] : settled[s][i].done + Retention <= now

\* The answer of a command may be lost on its way to the client.
Settle(s, r) ==
  /\ \A i \in DOMAIN settled[s] : settled[s][i].done + Retention <= r.done
  /\ settled' = [settled EXCEPT ![s] = Append(@, r)]
  /\ receipt' = [receipt EXCEPT ![s] = r]
  /\ answer' \in {answer, [scope |-> s, body |-> r.body, resp |-> r]}
  /\ UNCHANGED now

Replay(s, b) ==
  /\ receipt[s] # NoReceipt /\ receipt[s].body = b
  /\ answer' = [scope |-> s, body |-> b, resp |-> receipt[s]]
  /\ UNCHANGED <<now, settled, receipt>>

Forget(S) ==
  /\ \A s \in S : Over(s)
  /\ receipt' = [s \in Scopes |-> IF s \in S THEN NoReceipt ELSE receipt[s]]
  /\ UNCHANGED <<now, settled, answer>>

Pass == now' = now + 1 /\ UNCHANGED <<settled, receipt, answer>>

RNext == \/ \E s \in Scopes, r \in Response : Settle(s, r)
         \/ \E s \in Scopes, b \in Bodies : Replay(s, b)
         \/ \E S \in SUBSET Scopes : Forget(S)
         \/ Pass

RSpec == RInit /\ [][RNext]_rVars
=============================================================================
