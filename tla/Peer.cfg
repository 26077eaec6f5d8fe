\* Two callers sending one urgent and two normal messages through channels
\* of one slot, two streams at most, writes that may fail, the remote side
\* opening streams, and Stop at any time (or never).  Each added stream's
\* readLoop reads up to two one-byte frames in all, with a 5-byte header.
CONSTANTS
  s1 = s1  s2 = s2  s3 = s3  u1 = u1  n1 = n1  n2 = n2  c1 = c1  c2 = c2
  Streams <- MCStreams
  MaxStreamCount = 2
  MsgChanSize = 1
  UrgentMsgs = {u1}
  NormalMsgs = {n1, n2}
  Callers = {c1, c2}
  WriteCanFail = TRUE
  StopAllowed = TRUE
  DataBegin = 5
  Headers <- MCHeaders
  MaxFrames = 2
SPECIFICATION Spec
INVARIANT TypeOK
INVARIANT StreamAccounting
CHECK_DEADLOCK FALSE
PROPERTY SendCompletes
PROPERTY MessagesDelivered
