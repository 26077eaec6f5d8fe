CONSTANTS
  Accounts <- MCAccounts
  Empty = ""
  Contracts <- MCContracts
  IostDomain = {"vote.iost"}
  Owner <- MCOwner
  NoOwner = "noowner"
  Charges <- MCCharges
  GasRatio = 1
  RamInit <- MCRamInit
  GasInit <- MCGasInit
  MaxCalls = 2
SPECIFICATION Spec
INVARIANT TypeOK
INVARIANT DoPayAffordable
CHECK_DEADLOCK FALSE
