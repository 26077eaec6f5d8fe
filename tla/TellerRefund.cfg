CONSTANTS
  Accounts <- MCAccounts
  Empty = ""
  Contracts <- MCContracts
  IostDomain = {"vote.iost"}
  Owner <- MCOwner
  NoOwner = "noowner"
  Charges <- MCChargesWithRefund
  GasRatio = 1
  RamInit <- MCRamInit
  GasInit <- MCGasInit
  MaxCalls = 3
SPECIFICATION Spec
INVARIANT DoPayAffordable
CHECK_DEADLOCK FALSE
