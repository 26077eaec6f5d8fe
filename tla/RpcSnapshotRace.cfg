\* Two handlers serving GetBalance and GetContractStorage concurrently on
\* the shared forkDB.
CONSTANTS
  h1 = h1  h2 = h2  sub1 = sub1
  Handlers = {h1, h2}
  Kinds <- MCCheckoutKinds
  MaxBlock = 2
  Subscribers = {}
  MaxEvents = 1
SPECIFICATION Spec
PROPERTY ReadsCheckedOut
