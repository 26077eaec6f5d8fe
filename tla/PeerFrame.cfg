\* One stream from the remote side, which may send a header whose length
\* field is 2^32 - 1; nothing else is needed for readLoop to slice past
\* the buffer it allocated.
CONSTANTS
  s1 = s1  s2 = s2  s3 = s3  u1 = u1  n1 = n1  n2 = n2  c1 = c1  c2 = c2
  Streams <- MCStreams
  MaxStreamCount = 2
  MsgChanSize = 1
  UrgentMsgs = {u1}
  NormalMsgs = {n1, n2}
  Callers = {c1, c2}
  WriteCanFail = TRUE
  StopAllowed = TRUE
  DataBegin = 5
  Headers <- MCHostileHeaders
  MaxFrames = 2
SPECIFICATION Spec
INVARIANT ReaderNeverPanics
CHECK_DEADLOCK FALSE
