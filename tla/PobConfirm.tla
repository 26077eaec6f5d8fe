----------------------------- MODULE PobConfirm -----------------------------
(***************************************************************************)
(* Block confirmation and the last irreversible block (LIB) of the PoB     *)
(* consensus on one node (src/consensus/pob/properties.go).                *)
(*                                                                         *)
(* Witnesses take slots round-robin (witnessOfSlot).  A block received     *)
(* from the network passes verifyBlock (its witness owns its slot) and is  *)
(* linked into the block cache once its parent is linked.  Linking a node  *)
(* runs updateWaterMark (the node's ConfirmUntil is its witness's          *)
(* watermark, which then moves past the node's number) and updateLib       *)
(* (calculateConfirm walks from the node towards the cache root counting   *)
(* confirmations; the first node reaching the confirm limit is flushed to  *)
(* the chain and becomes the root).                                        *)
(*                                                                         *)
(* The node runs as witness Self: in its own slots it makes the block      *)
(* itself (generateBlock) on the head its transaction pool hands out, and  *)
(* adds it to its cache the same way.                                      *)
(*                                                                         *)
(* Every topological arrival order is possible on the network, and a block *)
(* whose parent is already linked is linked on arrival, so the model links *)
(* blocks in any order in which parents come first; the unlinked partition *)
(* of the cache adds no further order.  A block is named by its slot, at   *)
(* most one block per slot (the witness of a slot signs one block).        *)
(***************************************************************************)
EXTENDS Integers, Sequences, FiniteSets

CONSTANTS
  WitnessList,  \* staticProperty.WitnessList, a sequence of distinct witnesses
  NumberOfWitnesses, \* staticProperty.NumberOfWitnesses, set by newStaticProperty
  MaxSlot,      \* blocks are produced in slots 1..MaxSlot; slot 0 is genesis
  second2nanosecond, \* nanoseconds per second (scaled down for TLC)
  SlotLength,        \* common.SlotLength, seconds per slot
  Self               \* acc.ID, the account this node produces blocks with

ASSUME
  /\ NumberOfWitnesses > 0
  /\ MaxSlot \in Nat \ {0}
  /\ second2nanosecond \in Nat \ {0} /\ SlotLength \in Nat \ {0}

Slots == 0..MaxSlot
Genesis == 0
\* calculateConfirm's result when no node reaches the limit.
None == -1

\* witnessOfSlot: index = slot % NumberOfWitnesses into the witness list.
witnessOfSlot(s) == WitnessList[(s % NumberOfWitnesses) + 1]

\* A block time in nanoseconds maps to a witness through seconds and slots,
\* in int64 division (verifyBlock checks it against the block's witness).
witnessOfSec(sec) == witnessOfSlot(sec \div SlotLength)

witnessOfNanoSec(nanosec) == witnessOfSec(nanosec \div second2nanosecond)

slotOfSec(sec) == sec \div SlotLength

\* Fault: the wait runs to the start of the current slot.
timeUntilNextScheduleNoInc(timeSec) ==
  LET currentSlot == timeSec \div (second2nanosecond * SlotLength)
  IN currentSlot * second2nanosecond * SlotLength - timeSec

\* The wait, from a time in nanoseconds, until the next slot begins.
timeUntilNextSchedule(timeSec) ==
  LET currentSlot == timeSec \div (second2nanosecond * SlotLength)
  IN (currentSlot + 1) * second2nanosecond * SlotLength - timeSec

\* confirmLimit := NumberOfWitnesses*2/3 + 1 (integer division).
ConfirmLimit == (NumberOfWitnesses * 2) \div 3 + 1

VARIABLES
  received,   \* slots of blocks that passed verification
  parent,     \* parent slot of each received block
  number,     \* Head.Number of each received block
  linked,     \* the linked blocks of the cache: the root and its descendants
  root,       \* bc.LinkedRoot(), the LIB
  confirm,    \* BlockCacheNode.ConfirmUntil of each linked block
  watermark,  \* staticProperty.Watermark
  chain       \* the blocks flushed to the block chain, in order

vars == <<received, parent, number, linked, root, confirm, watermark, chain>>

Witnesses == {WitnessList[i] : i \in DOMAIN WitnessList}

-----------------------------------------------------------------------------
(* Operators over a block tree given by its parent, number and ConfirmUntil *)
(* functions, so that they apply to the tree before or after a step.        *)

\* The blocks from n up to and including a, following Parent links; empty
\* when a is not an ancestor of n (or n itself).
RECURSIVE PathUp(_, _, _, _)
PathUp(par, num, n, a) ==
  IF n = a THEN {n}
  ELSE IF n = Genesis \/ num[n] <= num[a] THEN {}
  ELSE LET q == PathUp(par, num, par[n], a) IN IF q = {} THEN {} ELSE q \cup {n}

(* ---- calculateConfirm ------------------------------------------------- *)
\* The loop of calculateConfirm, one iteration per call: count the node if
\* ConfirmUntil <= Number and record its ConfirmUntil; return the node if
\* the count reaches the limit; else subtract the confirmations recorded
\* for this node's number and step to the parent.  None at the root.
RECURSIVE ConfirmLoop(_, _, _, _, _, _, _)
ConfirmLoop(par, num, cu, node, rt, confirmNum, confirmUntilMap) ==
  IF node = rt THEN None
  ELSE
    LET counts == cu[node] <= num[node]
        cn == IF counts THEN confirmNum + 1 ELSE confirmNum
        cmap == IF counts
                THEN [confirmUntilMap EXCEPT ![cu[node]] = @ + 1]
                ELSE confirmUntilMap
    IN IF cn >= ConfirmLimit THEN node
       ELSE ConfirmLoop(par, num, cu, par[node], rt, cn - cmap[num[node]], cmap)

\* Fault: the count must exceed confirmLimit instead of reaching it.
RECURSIVE ConfirmLoopStrict(_, _, _, _, _, _, _)
ConfirmLoopStrict(par, num, cu, node, rt, confirmNum, confirmUntilMap) ==
  IF node = rt THEN None
  ELSE
    LET counts == cu[node] <= num[node]
        cn == IF counts THEN confirmNum + 1 ELSE confirmNum
        cmap == IF counts
                THEN [confirmUntilMap EXCEPT ![cu[node]] = @ + 1]
                ELSE confirmUntilMap
    IN IF cn > ConfirmLimit THEN node
       ELSE ConfirmLoopStrict(par, num, cu, par[node], rt, cn - cmap[num[node]], cmap)

calculateConfirmStrict(par, num, cu, node, rt) ==
  ConfirmLoopStrict(par, num, cu, node, rt, 0, [k \in 0..MaxSlot + 1 |-> 0])

calculateConfirm(par, num, cu, node, rt) ==
  ConfirmLoop(par, num, cu, node, rt, 0, [k \in 0..MaxSlot + 1 |-> 0])

\* Fault: the watermark is not stored back (the map entry is never set).
UpdateWaterMarkFrozen(w, n) ==
  [confirmUntil |-> watermark[w], mark |-> watermark[w]]

\* updateWaterMark for block s of witness w with number n: the new
\* ConfirmUntil of s, and the new watermark of w.
UpdateWaterMark(w, n) ==
  [confirmUntil |-> watermark[w],
   mark |-> IF n >= watermark[w] THEN n + 1 ELSE watermark[w]]

(* ---- blockcache.Flush (modelled from the spec, section 4.3) ------------ *)
\* The blocks strictly above root old up to m, in chain order.
RECURSIVE FlushPath(_, _, _)
FlushPath(par, m, old) ==
  IF m = old THEN <<>> ELSE Append(FlushPath(par, par[m], old), m)

\* After a Flush to new root c the cache keeps c and its descendants.
\* Fault: the new root is removed from the cache together with the path.
FlushKeepBelow(lk, par, num, c) ==
  {x \in lk : x # c /\ PathUp(par, num, x, c) # {}}

FlushKeep(lk, par, num, c) == {x \in lk : PathUp(par, num, x, c) # {}}

-----------------------------------------------------------------------------
Init ==
  /\ received = {Genesis}
  /\ parent = [s \in Slots |-> Genesis]
  /\ number = [s \in Slots |-> 0]
  /\ linked = {Genesis}
  /\ root = Genesis
  /\ confirm = [s \in Slots |-> 0]
  /\ watermark = [w \in Witnesses |-> 0]
  /\ chain = <<>>

\* verifyBlock on a block of slot s with parent p.  VerifyBlockHead (outside
\* src/) wants the number to follow the parent's and the time to be after
\* it: slot s comes after p's.  The witness check witnessOfNanoSec(Time) =
\* Witness holds because the block is named by its slot and signed by the
\* slot's witness.  The transaction checks and the re-execution by
\* Verifier.Verify are outside src/; a block they reject is never linked.
verifyBlock(s, p) == p < s

\* Adding block s on parent p to the cache: it is linked, then
\* updateWaterMark, then updateLib: if calculateConfirm finds a node,
\* Flush persists the path from the old root to it, makes it the root and
\* prunes what does not descend from it.
LinkBlock(s, p) ==
  /\ s \notin received
  /\ p \in linked
  /\ LET w == witnessOfSlot(s)
         par == [parent EXCEPT ![s] = p]
         num == [number EXCEPT ![s] = number[p] + 1]
         wm == UpdateWaterMark(w, num[s])
         cu == [confirm EXCEPT ![s] = wm.confirmUntil]
         c == calculateConfirm(par, num, cu, s, root)
         lk == linked \cup {s}
     IN /\ received' = received \cup {s}
        /\ parent' = par
        /\ number' = num
        /\ confirm' = cu
        /\ watermark' = [watermark EXCEPT ![w] = wm.mark]
        /\ IF c = None
           THEN /\ linked' = lk
                /\ UNCHANGED <<root, chain>>
           ELSE /\ chain' = chain \o FlushPath(par, c, root)
                /\ root' = c
                /\ linked' = FlushKeep(lk, par, num, c)

\* A block of another witness's slot s on parent p arrives, passes
\* verifyBasics and verifyBlock, and is added.
ReceiveBlock(s, p) ==
  /\ witnessOfSlot(s) # Self
  /\ verifyBlock(s, p)
  /\ LinkBlock(s, p)

\* generateBlock in this node's slot s: the parent is the head
\* txPool.TxIterator() returns, which lags the cache head when blocks
\* arrived since the pool last moved, so any linked block earlier than s;
\* Number is the parent's plus one and Witness is acc.ID.  Verifier.Gen and
\* the transactions it drops act on the pool, outside src/.  The block is
\* then added to this node's cache.
GenerateBlock(s, p) ==
  /\ witnessOfSlot(s) = Self
  /\ p < s
  /\ LinkBlock(s, p)

Next == \E s \in Slots, p \in Slots : ReceiveBlock(s, p) \/ GenerateBlock(s, p)

Spec == Init /\ [][Next]_vars

-----------------------------------------------------------------------------
TypeOK ==
  /\ received \subseteq Slots
  /\ parent \in [Slots -> Slots]
  /\ number \in [Slots -> 0..MaxSlot]
  /\ linked \subseteq received
  /\ root \in linked
  /\ confirm \in [Slots -> 0..MaxSlot + 1]
  /\ watermark \in [Witnesses -> 0..MaxSlot + 1]
  /\ chain \in Seq(Slots)

\* Reference for calculateConfirm: the nearest node m strictly above the
\* root on the path from node such that at least ConfirmLimit blocks of the
\* path from node down to m have ConfirmUntil <= m's number.
RefConfirm(par, num, cu, node, rt) ==
  LET Above == PathUp(par, num, node, rt) \ {rt}
      Count(m) == Cardinality({v \in PathUp(par, num, node, m) : cu[v] <= num[m]})
      Hits == {m \in Above : Count(m) >= ConfirmLimit}
  IN IF Hits = {} THEN None
     ELSE CHOOSE m \in Hits : \A x \in Hits : num[x] <= num[m]

\* The map-and-subtract loop of calculateConfirm computes the confirmation
\* count of the reference definition, for every linked block and the
\* current root.
ConfirmMatchesReference ==
  \A n \in linked :
     calculateConfirm(parent, number, confirm, n, root)
       = RefConfirm(parent, number, confirm, n, root)

\* The LIB was confirmed by ConfirmLimit distinct witnesses: some linked
\* branch above it holds blocks of that many different witnesses whose
\* ConfirmUntil is at most the LIB's number.  The loop counts blocks, not
\* witnesses; only the watermark bookkeeping of updateWaterMark across
\* forks and arrival orders keeps one witness from being counted twice.
LibConfirmedByQuorum ==
  root # Genesis =>
    \E d \in linked :
       Cardinality({witnessOfSlot(v) :
                      v \in {x \in PathUp(parent, number, d, root) :
                               confirm[x] <= number[root]}}) >= ConfirmLimit

\* Reference: the nanoseconds of slot s.
SlotTimes(s) ==
  (s * SlotLength * second2nanosecond)..((s + 1) * SlotLength * second2nanosecond - 1)

\* The time arithmetic agrees with the slots a block is named by: any time
\* in a received block's slot passes verifyBlock's witnessOfNanoSec check
\* for the slot's witness, slotOfSec gives that slot back, and
\* timeUntilNextSchedule wakes the producer at the first nanosecond of the
\* next slot.
SlotArithmetic ==
  \A s \in received \ {Genesis} : \A t \in SlotTimes(s) :
     /\ witnessOfNanoSec(t) = witnessOfSlot(s)
     /\ slotOfSec(t \div second2nanosecond) = s
     /\ t + timeUntilNextSchedule(t) = (s + 1) * SlotLength * second2nanosecond

=============================================================================
