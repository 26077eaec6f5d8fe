\* Four witnesses (confirm limit 3, a quorum short of all), blocks in slots
\* 1..MaxSlot on any linked parent, linked in any order parents-first; the
\* node is witness w1 and makes the blocks of its own slots.  Each
\* witness has two slots; the LIB can move twice.  Runs end when the slots
\* are used up.  Time runs at two nanoseconds per second, so that the
\* nested divisions of the slot arithmetic differ from one another.
CONSTANTS
  w1 = w1
  w2 = w2
  w3 = w3
  w4 = w4
  WitnessList <- MCWitnessList4
  NumberOfWitnesses = 4
  MaxSlot = 8
  second2nanosecond = 2
  SlotLength = 3
  Self = w1
SPECIFICATION Spec
INVARIANT TypeOK
INVARIANT ConfirmMatchesReference
INVARIANT LibConfirmedByQuorum
INVARIANT SlotArithmetic
CHECK_DEADLOCK FALSE
