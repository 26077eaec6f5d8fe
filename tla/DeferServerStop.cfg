\* Stop racing a restart by StoreDeferTx: does Stop leave a ticker behind?
CONSTANTS
  Entries <- MCEntries
  InitPool <- MCInitPool
  Tickers = {t1, t2, t3}
  StoreCallers = {txp}
  StopCallers = {main}
  AddResults = {"ok"}
  MinTick = 1
  MaxTime = 4
SPECIFICATION Spec
INVARIANT StopLeavesNoTicker
CHECK_DEADLOCK FALSE
