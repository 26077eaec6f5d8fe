\* One request at a time, of every kind (block lookups and GetChainInfo included), while the
\* head grows to block 3 and the LIB follows it; one Subscribe stream with
\* up to two events pending.
CONSTANTS
  h1 = h1  h2 = h2  sub1 = sub1
  Handlers = {h1}
  Kinds <- MCAllKinds
  MaxBlock = 3
  Subscribers = {sub1}
  MaxEvents = 2
SPECIFICATION Spec
INVARIANT TypeOK
PROPERTY ChainInfoHeightConfirmed
