------------------------------ MODULE RefreshTokens ------------------------------
(***************************************************************************)
(* Authorization codes and refresh tokens of one account: the exchange of  *)
(* a code, the rotation of a token, and what revokes a family of tokens    *)
(* (infrastructure/oauth.py, infrastructure/hosted_identity.py and the     *)
(* claim of account deletion, migration 0025).                             *)
(*                                                                         *)
(* A request is one transaction, which reads some rows, perhaps locks them *)
(* (FOR UPDATE), and decides on what it has read.  Its writes take effect  *)
(* when it commits, which waits for the locks on what it writes.  The rows *)
(* a request inserts bear its name: ids are drawn for each request.        *)
(* Clients may send any token again, as when an answer was lost.           *)
(* UNIQUE(family_id, sequence) is not needed (SequencesDiffer).  Signing   *)
(* the access token, after the commit, changes no state.                   *)
(***************************************************************************)
EXTENDS FiniteSets, Integers

CONSTANTS Tx,         \* requests: r stands for a request and its transaction
          Code,       \* authorization requests, of which each has one code
          Offline,    \* the codes with the scope offline_access
          Session,
          SessionOf,  \* SessionOf[c]: the login session that c was issued in
          None

ASSUME TxAssumption      == Tx \cap Code = {} /\ None \notin Tx \cup Code
ASSUME SessionAssumption == Offline \subseteq Code /\ SessionOf \in [Code -> Session]

VARIABLES code,     \* code[c]: whether it was issued, and consumed
          family,   \* family[r]: the oauth_refresh_token_families row of r
          token,    \* token[r]: the oauth_refresh_tokens row of r
          lapsed,   \* codes and tokens past their expires_at
          tx,       \* tx[r]: where r stands and what it has read
          cut       \* codes that a claim of account deletion has met (for a property)

grantVars == <<code, family, token, lapsed, tx, cut>>

NoFamily  == [code |-> None, revoked |-> FALSE]
NoToken   == [family |-> None, sequence |-> 0, next |-> None]
NoTx      == [step |-> "new", of |-> None, bound |-> FALSE, spent |-> FALSE,
              revoked |-> FALSE, codes |-> {}, found |-> {}]

Exists(f) == family[f].code # None
Known(t)  == token[t].family # None

Answers  == {"granted", "rotated", "reused", "refused", "settled"}
InFlight == {"exchange", "rotate", "decide", "revoke", "claim", "cut"}

\* consumed_at and replaced_by_token_id are set together.
FamilyRow   == [code : Code \cup {None}, revoked : BOOLEAN]
TokenRow    == [family : Tx \cup {None}, sequence : Nat, next : Tx \cup {None}]
Transaction == [step : {"new", "aborted"} \cup InFlight \cup Answers,
                of : Code \cup Tx \cup {None}, bound : BOOLEAN, spent : BOOLEAN,
                revoked : BOOLEAN, codes : SUBSET Code, found : SUBSET Tx]

GrantTypeOK == /\ code \in [Code -> {"none", "issued", "consumed"}]
               /\ family \in [Tx -> FamilyRow] /\ token \in [Tx -> TokenRow]
               /\ lapsed \subseteq Code \cup Tx /\ cut \subseteq Code
               /\ tx \in [Tx -> Transaction]

GrantInit == /\ code = [c \in Code |-> "none"]
             /\ family = [r \in Tx |-> NoFamily]
             /\ token = [r \in Tx |-> NoToken]
             /\ lapsed = {} /\ cut = {}
             /\ tx = [r \in Tx |-> NoTx]

-----------------------------------------------------------------------------
(* Row locks, held to the end of the transaction.                          *)
At(r, step) == tx[r].step = step
Of(r)       == tx[r].of
FamilyOf(r) == token[Of(r)].family

CodeUnlocked(c) == TRUE
CodeFree(c)     == \A r \in Tx : /\ At(r, "exchange") => Of(r) # c
                                 /\ At(r, "cut") => c \notin tx[r].codes
TokenUnlocked(t) == TRUE
TokenFree(t)     == \A r \in Tx : At(r, "rotate") \/ At(r, "decide") => Of(r) # t
FamilyFree(f)    == \A r \in Tx : At(r, "decide") => FamilyOf(r) # f

Begin(r, with) == At(r, "new") /\ tx' = [tx EXCEPT ![r] = with]
Close(r, step) == tx' = [tx EXCEPT ![r].step = step]

-----------------------------------------------------------------------------
(* exchange_authorization_code.  bound: client, redirect URI and verifier  *)
(* are those of the code, which is not from before the origin cutover.     *)

\* issue_authorization_code: once for an authorization request.
IssueCode(c) == /\ code[c] = "none"
                /\ code' = [code EXCEPT ![c] = "issued"]
                /\ UNCHANGED <<family, token, lapsed, tx, cut>>

ReadCode(r, c, bound) ==
  /\ code[c] # "none" /\ CodeFree(c)
  /\ Begin(r, [NoTx EXCEPT !.step = "exchange", !.of = c, !.bound = bound,
                                !.spent = (code[c] = "consumed")])
  /\ UNCHANGED <<code, family, token, lapsed, cut>>

CodeIsGood(r) == ~tx[r].spent /\ Of(r) \notin lapsed /\ tx[r].bound

RefuseCode(r) == /\ At(r, "exchange") /\ ~CodeIsGood(r)
                 /\ Close(r, "refused")
                 /\ UNCHANGED <<code, family, token, lapsed, cut>>

Exchange(r) ==
  /\ At(r, "exchange") /\ CodeIsGood(r)
  /\ code' = [code EXCEPT ![Of(r)] = "consumed"]
  /\ IF Of(r) \notin Offline THEN UNCHANGED <<family, token>>
     ELSE /\ family' = [family EXCEPT ![r] = [code |-> Of(r), revoked |-> FALSE]]
          /\ token' = [token EXCEPT ![r] = [family |-> r, sequence |-> 1, next |-> None]]
  /\ Close(r, "granted")
  /\ UNCHANGED <<lapsed, cut>>

-----------------------------------------------------------------------------
(* rotate_refresh_token: the row of the token, then that of its family.    *)
ReadToken(r, t, bound) ==
  /\ Known(t) /\ TokenFree(t)
  /\ Begin(r, [NoTx EXCEPT !.step = "rotate", !.of = t, !.bound = bound,
                                !.spent = (token[t].next # None)])
  /\ UNCHANGED <<code, family, token, lapsed, cut>>

ReadFamily(r) ==
  /\ At(r, "rotate") /\ FamilyFree(FamilyOf(r))
  /\ tx' = [tx EXCEPT ![r].step = "decide", ![r].revoked = family[FamilyOf(r)].revoked]
  /\ UNCHANGED <<code, family, token, lapsed, cut>>

TokenIsGood(r) == ~tx[r].revoked /\ Of(r) \notin lapsed /\ tx[r].bound

RefuseToken(r) == /\ At(r, "decide") /\ ~TokenIsGood(r)
                  /\ Close(r, "refused")
                  /\ UNCHANGED <<code, family, token, lapsed, cut>>

\* It commits, and raises after that.
Reuse(r) == /\ At(r, "decide") /\ TokenIsGood(r) /\ tx[r].spent
            /\ family' = [family EXCEPT ![FamilyOf(r)].revoked = TRUE]
            /\ Close(r, "reused")
            /\ UNCHANGED <<code, token, lapsed, cut>>

Rotate(r) ==
  /\ At(r, "decide") /\ TokenIsGood(r) /\ ~tx[r].spent
  /\ token' = [token EXCEPT
       ![Of(r)].next = r,
       ![r] = [family |-> FamilyOf(r), sequence |-> token[Of(r)].sequence + 1, next |-> None]]
  /\ Close(r, "rotated")
  /\ UNCHANGED <<code, family, lapsed, cut>>

-----------------------------------------------------------------------------
(* Revocations look families up without locking them, and write what they  *)
(* have found.                                                             *)
LiveFamilies == {f \in Tx : Exists(f) /\ ~family[f].revoked}
Revoked(F)   == [f \in Tx |-> IF f \in F THEN [family[f] EXCEPT !.revoked = TRUE]
                                   ELSE family[f]]

Find(r, F) == /\ Begin(r, [NoTx EXCEPT !.step = "revoke", !.found = F])
              /\ UNCHANGED <<code, family, token, lapsed, cut>>

\* revoke_refresh_token, revoke_login_session, replace_password_and_revoke_sessions
FindByToken(r, t)   == Known(t) /\ Find(r, LiveFamilies \cap {token[t].family})
FindBySession(r, s) == Find(r, {f \in LiveFamilies : SessionOf[family[f].code] = s})
FindAll(r)          == Find(r, LiveFamilies)

Revoke(r) == /\ At(r, "revoke") /\ \A f \in tx[r].found : FamilyFree(f)
             /\ family' = Revoked(tx[r].found)
             /\ Close(r, "settled")
             /\ UNCHANGED <<code, token, lapsed, cut>>

\* The claim of account deletion: its UPDATE of the codes sees the codes there are, and
\* waits for those in use; then its UPDATE of the families sees the families there are.
ClaimAccount(r) ==
  /\ Begin(r, [NoTx EXCEPT !.step = "claim", !.codes = {c \in Code : code[c] # "none"}])
  /\ UNCHANGED <<code, family, token, lapsed, cut>>

HoldCodes(r) ==
  /\ At(r, "claim") /\ \A c \in tx[r].codes : CodeFree(c)
  /\ tx' = [tx EXCEPT ![r].step = "cut", ![r].found = {f \in Tx : Exists(f)}]
  /\ UNCHANGED <<code, family, token, lapsed, cut>>

CutGrants(r) ==
  /\ At(r, "cut") /\ \A f \in tx[r].found : FamilyFree(f)
  /\ code' = [c \in Code |-> IF c \in tx[r].codes THEN "consumed" ELSE code[c]]
  /\ family' = Revoked(tx[r].found)
  /\ cut' = cut \cup tx[r].codes
  /\ Close(r, "settled")
  /\ UNCHANGED <<token, lapsed>>

-----------------------------------------------------------------------------
\* The process dies or a lock is waited for too long: the transaction is rolled back.
Abort(r) == /\ tx[r].step \in InFlight
            /\ Close(r, "aborted")
            /\ UNCHANGED <<code, family, token, lapsed, cut>>

Expire(x) == /\ x \notin lapsed
             /\ IF x \in Code THEN code[x] # "none" ELSE Known(x)
             /\ lapsed' = lapsed \cup {x}
             /\ UNCHANGED <<code, family, token, tx, cut>>

GrantNext ==
  \/ \E c \in Code : IssueCode(c)
  \/ \E r \in Tx, c \in Code, bound \in BOOLEAN : ReadCode(r, c, bound)
  \/ \E r, t \in Tx, bound \in BOOLEAN : ReadToken(r, t, bound)
  \/ \E r, t \in Tx : FindByToken(r, t)
  \/ \E r \in Tx, s \in Session : FindBySession(r, s)
  \/ \E r \in Tx :
       \/ RefuseCode(r) \/ Exchange(r)
       \/ ReadFamily(r) \/ RefuseToken(r) \/ Reuse(r) \/ Rotate(r)
       \/ FindAll(r) \/ Revoke(r)
       \/ ClaimAccount(r) \/ HoldCodes(r) \/ CutGrants(r)
       \/ Abort(r)
  \/ \E x \in Code \cup Tx : Expire(x)

GrantSpec == GrantInit /\ [][GrantNext]_grantVars

-----------------------------------------------------------------------------
(* PROPERTIES                                                              *)

\* Once a claim of account deletion has committed, no code it met can be exchanged any
\* more, and no family that began with one is live: an exchange under way either finishes
\* before the claim looks at the families, or finds its code consumed.
CutIsComplete ==
  \A c \in cut : /\ code[c] = "consumed"
                 /\ \A f \in Tx : family[f].code = c => family[f].revoked

\* Requests on the same code, token or family, whatever their interleaving, are answered
\* as if each were served at one instant: of the requests that bring one token, one
\* rotates it and any other ends the family, and a family that has ended gets no token.
ChainOf(f, open) == {t \in Tx : token[t].family = f /\ (token[t].next = None) = open}
Chain == INSTANCE RefreshChain WITH
  used    <- {c \in Code : code[c] = "consumed"},
  live    <- LiveFamilies,
  current <- [f \in Tx |-> ChainOf(f, TRUE)],
  spent   <- [f \in Tx |-> ChainOf(f, FALSE)],
  lapsed  <- lapsed,
  answer  <- [r \in Tx |->
    IF tx[r].step \in Answers
    THEN [result |-> tx[r].step, of |-> Of(r), bound |-> tx[r].bound]
    ELSE [result |-> "none", of |-> None, bound |-> FALSE]]
Serializes == Chain!CSpec
=============================================================================
