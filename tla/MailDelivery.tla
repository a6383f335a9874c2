------------------------------ MODULE MailDelivery ------------------------------
(***************************************************************************)
(* What the outbox of identity e-mails promises about the mail of one      *)
(* recipient, without leases, attempts or workers.                         *)
(*                                                                         *)
(* A message is mailed only after it was handed to a worker, and recorded  *)
(* as sent only if SMTP took it.  What is sent or given up stays so until  *)
(* it is forgotten, and what is forgotten does not come back.  The mail of *)
(* a recipient is erased whole, and only when nobody holds any of it.      *)
(*                                                                         *)
(* IdentityMail implements this module.                                    *)
(***************************************************************************)
CONSTANT Mail

VARIABLES mail,    \* mail[m]: where message m stands
          handed,  \* messages that a worker has been given
          held,    \* messages that a worker has now, and time to send
          taken    \* messages that SMTP has taken

dVars == <<mail, handed, held, taken>>

DInit == mail = [m \in Mail |-> "absent"] /\ handed = {} /\ held = {} /\ taken = {}

Become(m, status) == mail' = [mail EXCEPT ![m] = status]

Submit(m) == mail[m] = "absent" /\ Become(m, "open") /\ UNCHANGED <<handed, held, taken>>

HandOut(S) == /\ \A m \in S : mail[m] = "open" /\ m \notin held
              /\ handed' = handed \cup S /\ held' = held \cup S
              /\ UNCHANGED <<mail, taken>>

\* Perhaps too late: what a slow worker sends cannot be recalled.
Take(m) == m \in handed /\ taken' = taken \cup {m} /\ UNCHANGED <<mail, handed, held>>

\* The worker fails, or its time is over: another may try.
Release(m) == held' = held \ {m} /\ UNCHANGED <<mail, handed, taken>>

\* Given up, a message may have been taken all the same.
Settle(m, status) == /\ mail[m] = "open" /\ m \in handed
                     /\ status = "sent" => m \in taken
                     /\ Become(m, status) /\ held' = held \ {m}
                     /\ UNCHANGED <<handed, taken>>

Forget(m) == /\ mail[m] \in {"sent", "dead"}
             /\ Become(m, "gone") /\ UNCHANGED <<handed, held, taken>>

Erase == /\ held = {}
         /\ mail' = [m \in Mail |-> IF mail[m] = "absent" THEN "absent" ELSE "gone"]
         /\ UNCHANGED <<handed, held, taken>>

DNext == \/ \E m \in Mail : \/ Submit(m) \/ Take(m) \/ Release(m) \/ Forget(m)
                            \/ Settle(m, "sent") \/ Settle(m, "dead")
         \/ \E S \in SUBSET Mail : HandOut(S)
         \/ Erase

DSpec == DInit /\ [][DNext]_dVars
=============================================================================
