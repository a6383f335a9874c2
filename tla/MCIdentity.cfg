\* Two workers and two messages of one recipient, of which the key of the second is gone;
\* or three requests on two codes.
SPECIFICATION MCSpec
CONSTANTS
  Mail = {1, 2}
  Unreadable = {2}
  Worker = {w1, w2}
  Nobody = Nobody
  MaxAttempts = 2
  Batch = 2
  MaxFaults = 2
  Tx = {r1, r2, r3}
  c1 = c1
  c2 = c2
  s1 = s1
  s2 = s2
  Code = {c1, c2}
  Offline = {c1}
  Session = {s1, s2}
  SessionOf <- MCSessionOf
  None = None
INVARIANTS LeaseHolds SentWasAccepted CutIsComplete
PROPERTIES DeliversMail MailSettles Serializes
CHECK_DEADLOCK FALSE
