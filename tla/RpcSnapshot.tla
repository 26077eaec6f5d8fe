---------------------------- MODULE RpcSnapshot ----------------------------
(***************************************************************************)
(* The state-reading handlers of the RPC server (src/unnamed/part_000,     *)
(* GRPCServer).  NewRPCServer forks the state db once; every handler uses  *)
(* that one forkDB and its visitor.  gRPC serves each request on its own   *)
(* goroutine, so handlers run concurrently:                                *)
(*   - GetBalance checks out the head (UseLongestChain) or the LIB, then   *)
(*     reads the balance through the visitor;                              *)
(*   - GetContractStorage checks out the LIB, then reads a key;            *)
(*   - ExecTx takes the head from the txpool iterator and runs the tx with *)
(*     verifier.Try on forkDB, without a checkout.                         *)
(*   - GetBlockByHash and GetBlockByNum look the block up in the block     *)
(*     chain and, on a miss, in the block cache.                           *)
(*   - GetChainInfo reads the block chain's length, the cache head and    *)
(*     the cache root (the LIB) one after another, in the order of the     *)
(*     fields of its reply.                                                *)
(*   - Subscribe registers with the event collector and loops: a tick of   *)
(*     its one-minute ticker ends it, an event is sent to the client (a    *)
(*     send error ends it), and a default case spins; on return it         *)
(*     unsubscribes.                                                       *)
(* Meanwhile consensus extends the head and moves the LIB (block cache,    *)
(* modelled from the spec).  A snapshot tag is the number of the block on  *)
(* the one branch the head extends; forks add nothing to this question.    *)
(***************************************************************************)
EXTENDS Naturals

CONSTANTS
  Handlers,  \* goroutines serving RPC requests
  Kinds,     \* request kinds served: "balanceHead", "balanceLib", "storage",
             \* "exec", "blockByHash", "blockByNum", "chainInfo"
  MaxBlock,  \* the head grows up to this block number
  Subscribers, \* goroutines serving Subscribe streams
  MaxEvents    \* events pending for one subscription at most

SnapshotKinds == {"balanceHead", "balanceLib", "storage"}
BlockKinds == {"blockByHash", "blockByNum"}

ASSUME Kinds \subseteq SnapshotKinds \cup {"exec", "chainInfo"} \cup BlockKinds

None == "none"

VARIABLES
  head,    \* s.bc.Head()
  lib,     \* s.bc.LinkedRoot()
  tag,     \* the snapshot forkDB has checked out
  kind,    \* the request a handler is serving, or None
  headAt,  \* the head the handler saw when it started
  libAt,   \* the LIB the handler saw when it started
  target,  \* the block a lookup asks for
  reply    \* GetChainInfo's reply so far: Height, HeadBlock, LatestConfirmedBlock

VARIABLES
  spc,         \* a Subscribe handler: "idle", "loop" or "done"
  ticked,      \* its ticker has fired and timerChan holds a tick
  pending,     \* events waiting in its subscription's channel
  subscribed   \* the subscriptions registered with the event collector

readVars == <<head, lib, tag, kind, headAt, libAt, target, reply>>
subVars == <<spc, ticked, pending, subscribed>>
vars == <<readVars, subVars>>

\* The block a request asks for: the head for UseLongestChain and ExecTx
\* (spec: "trial execution against current head"), else the LIB.
Asked(h) == IF kind[h] \in {"balanceHead", "exec"} THEN headAt[h] ELSE libAt[h]

-----------------------------------------------------------------------------
\* NewRPCServer: forkDB is a fork of the state db, at the node's head.
Init ==
  /\ head = 0 /\ lib = 0 /\ tag = 0
  /\ kind = [h \in Handlers |-> None]
  /\ headAt = [h \in Handlers |-> 0]
  /\ libAt = [h \in Handlers |-> 0]
  /\ target = [h \in Handlers |-> 0]
  /\ reply = [h \in Handlers |-> [height |-> 0, headBlock |-> 0, libBlock |-> 0]]
  /\ spc = [s \in Subscribers |-> "idle"]
  /\ ticked = [s \in Subscribers |-> FALSE]
  /\ pending = [s \in Subscribers |-> 0]
  /\ subscribed = {}

(* ---- consensus (block cache, from the spec) ---------------------------- *)
\* A block extends the head.
NewHead ==
  /\ head < MaxBlock
  /\ head' = head + 1
  /\ UNCHANGED <<lib, tag, kind, headAt, libAt, target, reply>>

\* Fault: the LIB may pass the head by one.
NewLibPastHead ==
  /\ lib <= head
  /\ lib' = lib + 1
  /\ UNCHANGED <<head, tag, kind, headAt, libAt, target, reply>>

\* updateLib flushes: the LIB moves up towards the head.
NewLib ==
  /\ lib < head
  /\ lib' = lib + 1
  /\ UNCHANGED <<head, tag, kind, headAt, libAt, target, reply>>

(* ---- handlers ---------------------------------------------------------- *)
\* A handler starts request k and records the head and LIB it sees.
Begin(h, k) ==
  /\ kind[h] = None
  /\ kind' = [kind EXCEPT ![h] = k]
  /\ headAt' = [headAt EXCEPT ![h] = head]
  /\ libAt' = [libAt EXCEPT ![h] = lib]

\* GetBalance: s.forkDB.Checkout of the head or the LIB.
GetBalanceCheckout(h, long) ==
  /\ Begin(h, IF long THEN "balanceHead" ELSE "balanceLib")
  /\ tag' = IF long THEN head ELSE lib
  /\ UNCHANGED <<head, lib, target, reply>>

\* GetContractStorage: s.forkDB.Checkout of the LIB.
GetContractStorageCheckout(h) ==
  /\ Begin(h, "storage")
  /\ tag' = lib
  /\ UNCHANGED <<head, lib, target, reply>>

\* ExecTx: the head comes from s.txpool.TxIterator(); forkDB is not checked
\* out.
ExecTxHead(h) ==
  /\ Begin(h, "exec")
  /\ UNCHANGED <<head, lib, tag, target, reply>>

\* The visitor read (Balance, BasicHandler.Get / MapHandler.MGet) or
\* verifier.Try on forkDB, at whatever tag forkDB has now; the handler
\* returns.
Read(h) ==
  /\ kind[h] \in SnapshotKinds \cup {"exec"}
  /\ kind' = [kind EXCEPT ![h] = None]
  /\ UNCHANGED <<head, lib, tag, headAt, libAt, target, reply>>

\* GetBlockByHash / GetBlockByNum: a lookup of block n, one the client has
\* seen, so at most the head.  The hash and the number name the same block
\* on the branch the head extends.
GetBlockBegin(h, k, n) ==
  /\ n <= head
  /\ Begin(h, k)
  /\ target' = [target EXCEPT ![h] = n]
  /\ UNCHANGED <<head, lib, tag, reply>>

\* s.bchain.GetBlockBy...: the chain holds the blocks up to the LIB.  On a
\* hit the handler returns the block; on a miss it asks the block cache.
LookupChain(h) ==
  /\ kind[h] \in BlockKinds
  /\ kind' = [kind EXCEPT ![h] = IF target[h] <= lib THEN None ELSE "blockCache"]
  /\ UNCHANGED <<head, lib, tag, headAt, libAt, target, reply>>

\* s.bc.GetBlockBy...: the cache holds the blocks from the LIB to the head;
\* on a miss the handler returns "cant find the block".
LookupCache(h) ==
  /\ kind[h] = "blockCache"
  /\ kind' = [kind EXCEPT ![h] = None]
  /\ UNCHANGED <<head, lib, tag, headAt, libAt, target, reply>>

\* Fault: Height is the block cache head's number.
ChainInfoHeightFromHead(h) ==
  /\ Begin(h, "chainInfo")
  /\ reply' = [reply EXCEPT ![h].height = head]
  /\ UNCHANGED <<head, lib, tag, target>>

\* GetChainInfo: Height is s.bchain.Length() - 1; the chain holds the
\* blocks up to the LIB.  (NetType, ProtocolVersion and the witness list
\* are configuration.)
GetChainInfo(h) ==
  /\ Begin(h, "chainInfo")
  /\ reply' = [reply EXCEPT ![h].height = lib]
  /\ UNCHANGED <<head, lib, tag, target>>

\* HeadBlock: toBlockInfo(s.bc.Head(), false).
ChainInfoHead(h) ==
  /\ kind[h] = "chainInfo"
  /\ reply' = [reply EXCEPT ![h].headBlock = head]
  /\ kind' = [kind EXCEPT ![h] = "chainInfoLib"]
  /\ UNCHANGED <<head, lib, tag, headAt, libAt, target>>

\* LatestConfirmedBlock: toBlockInfo(s.bc.LinkedRoot(), false); the handler
\* returns the reply.
ChainInfoLib(h) ==
  /\ kind[h] = "chainInfoLib"
  /\ reply' = [reply EXCEPT ![h].libBlock = lib]
  /\ kind' = [kind EXCEPT ![h] = None]
  /\ UNCHANGED <<head, lib, tag, headAt, libAt, target>>

Request(h) ==
  \/ /\ "balanceHead" \in Kinds /\ GetBalanceCheckout(h, TRUE)
  \/ /\ "balanceLib" \in Kinds /\ GetBalanceCheckout(h, FALSE)
  \/ /\ "storage" \in Kinds /\ GetContractStorageCheckout(h)
  \/ /\ "exec" \in Kinds /\ ExecTxHead(h)
  \/ \E k \in Kinds \cap BlockKinds, n \in 0..MaxBlock : GetBlockBegin(h, k, n)
  \/ /\ "chainInfo" \in Kinds /\ GetChainInfo(h)

(* ---- Subscribe --------------------------------------------------------- *)
\* A client opens a stream: NewSubscription, ec.Subscribe, a fresh ticker.
SubscribeBegin(s) ==
  /\ spc[s] \in {"idle", "done"}
  /\ spc' = [spc EXCEPT ![s] = "loop"]
  /\ subscribed' = subscribed \cup {s}
  /\ ticked' = [ticked EXCEPT ![s] = FALSE]
  /\ pending' = [pending EXCEPT ![s] = 0]

\* The event collector posts an event to a registered subscription.
Publish(s) ==
  /\ s \in subscribed /\ pending[s] < MaxEvents
  /\ pending' = [pending EXCEPT ![s] = @ + 1]
  /\ UNCHANGED <<spc, ticked, subscribed>>

\* A minute has passed: the ticker puts a tick in timerChan.
TimerTick(s) ==
  /\ spc[s] = "loop" /\ ~ticked[s]
  /\ ticked' = [ticked EXCEPT ![s] = TRUE]
  /\ UNCHANGED <<spc, pending, subscribed>>

\* Subscribe returns; the deferred ec.Unsubscribe runs.
Return(s) ==
  /\ spc' = [spc EXCEPT ![s] = "done"]
  /\ subscribed' = subscribed \ {s}

\* case <-timerChan: break forloop, return nil.
SubTimeUp(s) ==
  /\ spc[s] = "loop" /\ ticked[s]
  /\ Return(s)
  /\ UNCHANGED <<ticked, pending>>

\* case ev := <-sub.ReadChan(): res.Send succeeds, or fails and returns.
SubSend(s) ==
  /\ spc[s] = "loop" /\ pending[s] > 0
  /\ pending' = [pending EXCEPT ![s] = @ - 1]
  /\ \/ UNCHANGED <<spc, ticked, subscribed>>
     \/ Return(s) /\ UNCHANGED ticked

\* The default case changes nothing: the loop spins, a stuttering step.
Subscriber(s) ==
  SubscribeBegin(s) \/ Publish(s) \/ TimerTick(s) \/ SubTimeUp(s) \/ SubSend(s)

Next ==
  \/ /\ \/ NewHead \/ NewLib
        \/ \E h \in Handlers : \/ Request(h) \/ Read(h) \/ LookupChain(h)
                                \/ LookupCache(h) \/ ChainInfoHead(h) \/ ChainInfoLib(h)
     /\ UNCHANGED subVars
  \/ \E s \in Subscribers : Subscriber(s) /\ UNCHANGED readVars

\* The ticker fires after a minute, and the select, which Go makes among
\* ready cases at random, eventually takes the tick that stays ready.
Fairness ==
  \A s \in Subscribers :
     WF_vars(TimerTick(s) /\ UNCHANGED readVars)
     /\ WF_vars(SubTimeUp(s) /\ UNCHANGED readVars)

Spec == Init /\ [][Next]_vars /\ Fairness

-----------------------------------------------------------------------------
TypeOK ==
  /\ head \in 0..MaxBlock /\ lib \in 0..head /\ tag \in 0..MaxBlock
  /\ kind \in [Handlers -> Kinds \cup {"blockCache", "chainInfoLib", None}]
  /\ headAt \in [Handlers -> 0..MaxBlock] /\ libAt \in [Handlers -> 0..MaxBlock]
  /\ target \in [Handlers -> 0..MaxBlock]
  /\ reply \in [Handlers -> [height : 0..MaxBlock, headBlock : 0..MaxBlock,
                             libBlock : 0..MaxBlock]]
  /\ spc \in [Subscribers -> {"idle", "loop", "done"}]
  /\ ticked \in [Subscribers -> BOOLEAN]
  /\ pending \in [Subscribers -> 0..MaxEvents]
  /\ subscribed \subseteq Subscribers

\* A read ends handler h's request.
Done(h) == kind[h] # None /\ kind'[h] = None

\* Every read GetBalance and GetContractStorage make through forkDB sees the
\* snapshot the handler checked out: the head or the LIB as the handler
\* found it, whatever other handlers and consensus do in between.
ReadsCheckedOut ==
  [][\A h \in Handlers : (Done(h) /\ kind[h] \in SnapshotKinds) => tag = Asked(h)]_vars

\* ExecTx runs the transaction against the head it took from the txpool
\* (spec: "trial execution against current head").
ExecAgainstHead ==
  [][\A h \in Handlers : (Done(h) /\ kind[h] = "exec") => tag = Asked(h)]_vars

\* A lookup of a block the client has seen returns it: a block missing from
\* the chain when GetBlockByHash / GetBlockByNum looks there is found in the
\* block cache, though a Flush may move it between the two lookups.
BlockFound ==
  [][\A h \in Handlers :
       (kind[h] = "blockCache" /\ Done(h)) => target[h] \in lib..head]_vars

\* GetChainInfo returns (its last read, the LIB, is in the reply).
ChainInfoReturns(h) == kind[h] = "chainInfoLib" /\ Done(h)

\* GetChainInfo never reports a Height above the blocks it reports: the
\* chain length it reads first is at most the LIB and the head it reads
\* after it, though consensus extends the head and flushes the LIB between
\* the three reads.
ChainInfoHeightConfirmed ==
  [][\A h \in Handlers :
       ChainInfoReturns(h) =>
         /\ reply'[h].height <= reply'[h].libBlock
         /\ reply'[h].height <= reply'[h].headBlock]_vars

\* GetChainInfo reports a LatestConfirmedBlock no higher than its
\* HeadBlock, as the block cache has at any moment.  The head is read
\* before the LIB, so it does not hold (see the hazard at GetChainInfo).
ChainInfoLibBelowHead ==
  [][\A h \in Handlers :
       ChainInfoReturns(h) => reply'[h].libBlock <= reply'[h].headBlock]_vars

=============================================================================
