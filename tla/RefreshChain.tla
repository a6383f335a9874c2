------------------------------ MODULE RefreshChain ------------------------------
(***************************************************************************)
(* What the token endpoint promises of the refresh tokens of one account,  *)
(* without transactions or row locks: every request is answered at one     *)
(* instant.                                                                *)
(*                                                                         *)
(* A code is exchanged once, and may begin a family.  A live family has    *)
(* one current token, and its rotation puts another in its place.  A token *)
(* that comes again after its rotation ends the family, and a family that  *)
(* has ended gets no token any more.                                       *)
(*                                                                         *)
(* RefreshTokens implements this module.                                   *)
(***************************************************************************)
CONSTANTS Tx, Code, None

VARIABLES used,     \* codes that were exchanged or closed
          live,     \* families that have not ended, by the request that began them
          current,  \* current[f]: the token of family f that may be rotated
          spent,    \* spent[f]: its tokens that have been rotated
          lapsed,   \* codes and tokens past their lifetime
          answer    \* answer[r]: what request r was told

cVars == <<used, live, current, spent, lapsed, answer>>

NoAnswer == [result |-> "none", of |-> None, bound |-> FALSE]

CInit == /\ used = {} /\ live = {} /\ lapsed = {}
         /\ current = [f \in Tx |-> {}] /\ spent = [f \in Tx |-> {}]
         /\ answer = [r \in Tx |-> NoAnswer]

\* bound: the request shows what the code or the token is bound to.
Answer(r, result, of, bound) ==
  /\ answer[r] = NoAnswer
  /\ answer' = [answer EXCEPT ![r] = [result |-> result, of |-> of, bound |-> bound]]

Granted(r, c) == /\ Answer(r, "granted", c, TRUE)
                 /\ c \notin used \cup lapsed /\ used' = used \cup {c}
                 /\ \/ UNCHANGED <<live, current>>
                    \/ /\ current[r] = {} /\ spent[r] = {}
                       /\ live' = live \cup {r} /\ current' = [current EXCEPT ![r] = {r}]
                 /\ UNCHANGED <<spent, lapsed>>

NotGranted(r, c, bound) == /\ Answer(r, "refused", c, bound)
                           /\ c \in used \cup lapsed \/ ~bound
                           /\ UNCHANGED <<used, live, current, spent, lapsed>>

Rotated(r, f, t) == /\ Answer(r, "rotated", t, TRUE)
                    /\ f \in live /\ current[f] = {t} /\ t \notin lapsed
                    /\ current' = [current EXCEPT ![f] = {r}]
                    /\ spent' = [spent EXCEPT ![f] = @ \cup {t}]
                    /\ UNCHANGED <<used, live, lapsed>>

Reused(r, f, t) == /\ Answer(r, "reused", t, TRUE)
                   /\ f \in live /\ t \in spent[f] /\ t \notin lapsed
                   /\ live' = live \ {f}
                   /\ UNCHANGED <<used, current, spent, lapsed>>

NotRotated(r, f, t, bound) == /\ Answer(r, "refused", t, bound)
                              /\ t \in current[f] \cup spent[f]
                              /\ f \notin live \/ t \in lapsed \/ ~bound
                              /\ UNCHANGED <<used, live, current, spent, lapsed>>

\* Families end and codes are closed, in one.
End(r) == /\ Answer(r, "settled", None, FALSE)
          /\ live' \in SUBSET live /\ used \subseteq used' /\ used' \in SUBSET Code
          /\ UNCHANGED <<current, spent, lapsed>>

Late(x) == lapsed' = lapsed \cup {x} /\ UNCHANGED <<used, live, current, spent, answer>>

Served(r) == answer'[r] # answer[r]

CNext ==
  \/ \E r \in Tx : Served(r) /\
       \/ \E c \in Code : Granted(r, c) \/ \E bound \in BOOLEAN : NotGranted(r, c, bound)
       \/ \E f, t \in Tx :
            Rotated(r, f, t) \/ Reused(r, f, t) \/ \E bound \in BOOLEAN : NotRotated(r, f, t, bound)
       \/ End(r)
  \/ \E x \in Code \cup Tx : Late(x)

CSpec == CInit /\ [][CNext]_cVars
=============================================================================
