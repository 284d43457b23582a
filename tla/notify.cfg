SPECIFICATION FairSpec
CONSTANTS
  d1 = d1
  n1 = n1
  n2 = n2
  n3 = n3
  Devices = {d1}
  Mail = Mail
  Notes = {n1, n2, n3}
  ChannelsOf <- MCChannelsOf
  SystemNotes = {n2}
  EmailNotes = {n3}
  TooLong = {n3}
  SameHandset <- MCSameHandset
  Senders = {s1, s2}
  MaxTries = 2
  DisableAt = 1
  MaxLost = 1
INVARIANTS TypeOK StatusIsTrue TakenOnce
PROPERTIES AttemptsEnd BroadcastReaches
CHECK_DEADLOCK FALSE
