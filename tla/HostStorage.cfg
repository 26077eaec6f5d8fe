\* Every storage callback with every owner form, over host reads of every
\* value type, a fixed decimal included, and every key-list form.
CONSTANTS
  Contracts = {"iost.token"}
  Keys = {"k"}
  Fields = {"f1", "f2"}
  StrVals = {"x"}
  Owners = {"alice"}
  DbVals <- MCDbVals
  KeyLists <- MCKeyLists
  MaxLen = 2
  CpuCosts = {1, 2}
SPECIFICATION Spec
INVARIANT TypeOK
