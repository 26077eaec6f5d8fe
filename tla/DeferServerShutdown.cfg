\* Shutdown while the ticker works through the index, AddDefertx taking a
\* key or reporting a full cache: the ticker wakes in time for every key,
\* and Stop returns.  (With the "other" error the ticker can sleep past a
\* key it kept; see the hazards.)
CONSTANTS
  Entries <- MCShutdownPool
  InitPool <- MCShutdownPool
  Tickers = {t1}
  StoreCallers = {}
  StopCallers = {main}
  AddResults = {"ok", "dup", "full"}
  MinTick = 1
  MaxTime = 4
SPECIFICATION Spec
INVARIANT WakeBeforeDue
PROPERTY StopCompletes
CHECK_DEADLOCK FALSE
