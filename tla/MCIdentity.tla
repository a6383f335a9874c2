------------------------------ MODULE MCIdentity ------------------------------
(* Two rows of one identity: its mail, with two workers and two messages;  *)
(* and its codes and tokens, two codes of two sessions, one of which may   *)
(* begin a family.  A behaviour is of mail or of tokens: no step of one    *)
(* reads or writes a row of the other.                                     *)
EXTENDS IdentityMail, RefreshTokens, TLC

CONSTANTS c1, c2, s1, s2
MCSessionOf == c1 :> s1 @@ c2 :> s2

MCInit == MailInit /\ GrantInit

\* No step of the mail is due before a message is there, so its fairness asks nothing
\* of a behaviour of tokens.
NoMail == \A m \in Mail : row[m].status = "absent"
NoCode == \A c \in Code : code[c] = "none"
AtRest == NoCode /\ \A r \in Tx : tx[r] = NoTx
MCNext == \/ AtRest /\ MailNext /\ UNCHANGED grantVars
          \/ NoMail /\ GrantNext /\ UNCHANGED mailVars

MCSpec == MCInit /\ [][MCNext]_<<mailVars, grantVars>> /\ MailFairness
=============================================================================
