\* The txpool goroutine storing and deleting defer indexes while the ticker
\* runs, with every AddDefertx outcome; no shutdown.
CONSTANTS
  Entries <- MCEntries
  InitPool <- MCInitPool
  Tickers = {t1, t2, t3}
  StoreCallers = {txp}
  StopCallers = {}
  AddResults = {"ok", "dup", "full", "other"}
  MinTick = 1
  MaxTime = 5
SPECIFICATION Spec
INVARIANT TypeOK
PROPERTY RestartCompletes
CHECK_DEADLOCK FALSE
