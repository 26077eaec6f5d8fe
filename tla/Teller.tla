------------------------------- MODULE Teller -------------------------------
(***************************************************************************)
(* The Teller of the VM host (src/vm/v8vm/storage.go, package host): the   *)
(* per-transaction cost map and its payment.                               *)
(*                                                                         *)
(* While a transaction runs, the host charges costs: PayCost adds CPU and  *)
(* Net to the caller and the RAM of each data item to the item's payer;    *)
(* AddCacheCost accumulates a cache cost that FlushCacheCost pays to the   *)
(* empty account name.  At the end DoPay ranges over the cost map in Go's  *)
(* random map order: each account pays gasRatio * gas, and the RAM is      *)
(* taken from the account itself or, for a contract, from its owner,       *)
(* except for contracts of the "iost" domain.  DoPay returns on the first  *)
(* failure.                                                                *)
(*                                                                         *)
(* A cost is a record of cpu, net and data, where data maps each payer to  *)
(* the sum of its data items (the DataList regrouped, as PayCost does).    *)
(* The host's token ledger (CostGas, TokenBalance, SetTokenBalance,        *)
(* IsContract, contract_owner) is outside src/ and modelled from the spec. *)
(***************************************************************************)
EXTENDS Integers, FiniteSets, Functions

CONSTANTS
  Accounts,   \* account and contract names, "" (Empty) included
  Empty,      \* the empty name FlushCacheCost pays to
  Contracts,  \* the names IsContract reports as contracts
  IostDomain, \* the names ending in ".iost"
  Owner,      \* contract_owner: a contract's owner, or NoOwner
  NoOwner,
  Charges,    \* the costs the host may charge in one call
  GasRatio,   \* the transaction's gas ratio
  RamInit,    \* initial RAM balances
  GasInit,    \* initial gas balances
  MaxCalls    \* bound on PayCost / AddCacheCost calls in one transaction

ASSUME
  /\ Empty \in Accounts
  /\ Contracts \cup IostDomain \subseteq Accounts
  /\ Owner \in [Contracts -> Accounts \cup {NoOwner}]

None == "none"

VARIABLES
  cost,       \* h.cost: the accounts with a cost, and their costs
  cacheCost,  \* h.cacheCost
  ram,        \* TokenBalance("ram", x)
  gas,        \* the gas balance CostGas draws on
  calls,      \* host calls made in this transaction (bounded)
  phase,      \* "exec" while the tx runs, "pay" inside DoPay, "done" after it
  todo,       \* the keys of h.cost DoPay has not visited yet
  result,     \* DoPay's result: None, "ok" or "err"
  costAtPay,  \* h.cost, ram and gas when DoPay was called
  ramAtPay,
  gasAtPay

vars == <<cost, cacheCost, ram, gas, calls, phase, todo, result,
          costAtPay, ramAtPay, gasAtPay>>

-----------------------------------------------------------------------------
(* contract.Cost (outside src/, from the spec). *)
Cost0 == [cpu |-> 0, net |-> 0, data |-> [x \in Accounts |-> 0]]

\* AddAssign: componentwise sum, the data lists appended.
AddAssign(a, b) ==
  [cpu |-> a.cpu + b.cpu, net |-> a.net + b.net,
   data |-> [x \in Accounts |-> a.data[x] + b.data[x]]]

\* ToGas: the gas of the CPU and Net parts; RAM is paid in the "ram" token.
ToGas(c) == c.cpu + c.net

\* c.Data, the sum over the data list.
DataOf(c) == SumFunction(c.data)

\* The payers of c's data list items.
Payers(c) == {x \in Accounts : c.data[x] # 0}

-----------------------------------------------------------------------------
(* ---- the cost map ------------------------------------------------------ *)
\* PayCost(c, who): costMap gets who's CPU and Net (only if non-zero) and
\* each payer's data items; costMap is then merged into h.cost.
PayCostMap(cm, c, who) ==
  LET inCM == (IF c.cpu > 0 \/ c.net > 0 THEN {who} ELSE {}) \cup Payers(c)
      entry(x) == [cpu |-> IF x = who /\ who \in inCM THEN c.cpu ELSE 0,
                   net |-> IF x = who /\ who \in inCM THEN c.net ELSE 0,
                   data |-> [y \in Accounts |-> IF y = x THEN c.data[x] ELSE 0]]
  IN [x \in DOMAIN cm \cup inCM |->
        IF x \in inCM /\ x \in DOMAIN cm THEN AddAssign(cm[x], entry(x))
        ELSE IF x \in inCM THEN entry(x) ELSE cm[x]]

Init ==
  /\ cost = [x \in {} |-> Cost0]
  /\ cacheCost = Cost0
  /\ ram = RamInit /\ gas = GasInit
  /\ calls = 0 /\ phase = "exec" /\ todo = {} /\ result = None
  /\ costAtPay = cost /\ ramAtPay = ram /\ gasAtPay = gas

ExecStep ==
  /\ phase = "exec"
  /\ UNCHANGED <<ram, gas, phase, todo, result, costAtPay, ramAtPay, gasAtPay>>

\* The host charges cost c to account who.
PayCost(c, who) ==
  /\ ExecStep /\ calls < MaxCalls
  /\ cost' = PayCostMap(cost, c, who)
  /\ calls' = calls + 1
  /\ UNCHANGED cacheCost

AddCacheCost(c) ==
  /\ ExecStep /\ calls < MaxCalls
  /\ cacheCost' = AddAssign(cacheCost, c)
  /\ calls' = calls + 1
  /\ UNCHANGED cost

\* FlushCacheCost: PayCost(h.cacheCost, ""), then the cache is zeroed.
FlushCacheCost ==
  /\ ExecStep
  /\ cost' = PayCostMap(cost, cacheCost, Empty)
  /\ cacheCost' = Cost0
  /\ UNCHANGED calls

ClearCacheCost ==
  /\ ExecStep
  /\ cacheCost' = Cost0
  /\ UNCHANGED <<cost, calls>>

\* ClearRAMCosts: keep the accounts with CPU or Net, their RAM dropped.
ClearRAMCosts ==
  /\ ExecStep
  /\ cost' = [x \in {y \in DOMAIN cost : cost[y].net # 0 \/ cost[y].cpu # 0} |->
                [cpu |-> cost[x].cpu, net |-> cost[x].net, data |-> Cost0.data]]
  /\ UNCHANGED <<cacheCost, calls>>

(* ---- DoPay ------------------------------------------------------------- *)
\* DoPay(witness, gasRatio) is called: the range over h.cost begins.
DoPay ==
  /\ phase = "exec"
  /\ phase' = "pay" /\ todo' = DOMAIN cost
  /\ costAtPay' = cost /\ ramAtPay' = ram /\ gasAtPay' = gas
  /\ UNCHANGED <<cost, cacheCost, ram, gas, calls, result>>

\* The account whose RAM pays for k's data; NoOwner when a contract has none.
RamPayer(k) == IF k \in Contracts THEN Owner[k] ELSE k

\* Fault: the RAM balance is not checked.
RamShortNever(bal, need) == FALSE

\* Fault: the RAM check rejects a balance that reaches exactly zero.
RamShortStrict(bal, need) == bal - need <= 0

RamShort(bal, need) == bal - need < 0

\* One iteration for key k, picked in any order (Go map iteration): pay the
\* fee by CostGas, then the RAM unless k is in the iost domain.  The first
\* failure returns an error and ends the range.
PayEntry(k) ==
  /\ phase = "pay" /\ k \in todo
  /\ LET c == cost[k]
         fee == GasRatio * ToGas(c)
         gasFails == fee # 0 /\ gas[k] < fee
         gas1 == IF fee # 0 THEN [gas EXCEPT ![k] = @ - fee] ELSE gas
         payer == RamPayer(k)
         skipRam == k \in IostDomain
         ramFails == ~skipRam /\ (payer = NoOwner \/ RamShort(ram[payer], DataOf(c)))
     IN IF gasFails \/ ramFails
        THEN /\ result' = "err" /\ phase' = "done"
             /\ gas' = IF gasFails THEN gas ELSE gas1
             /\ UNCHANGED <<ram, todo>>
        ELSE /\ gas' = gas1
             /\ ram' = IF skipRam THEN ram
                       ELSE [ram EXCEPT ![payer] = @ - DataOf(c)]
             /\ todo' = todo \ {k}
             /\ UNCHANGED <<result, phase>>
  /\ UNCHANGED <<cost, cacheCost, calls, costAtPay, ramAtPay, gasAtPay>>

\* The range is over: DoPay returns nil.
PayDone ==
  /\ phase = "pay" /\ todo = {}
  /\ result' = "ok" /\ phase' = "done"
  /\ UNCHANGED <<cost, cacheCost, ram, gas, calls, todo, costAtPay, ramAtPay, gasAtPay>>

\* ClearCosts: h.cost is replaced by an empty map; the cache cost is kept.
ClearCosts ==
  /\ ExecStep
  /\ cost' = [x \in {} |-> Cost0]
  /\ UNCHANGED <<cacheCost, calls>>

Next ==
  \/ \E c \in Charges, who \in Accounts \ {Empty} : PayCost(c, who)
  \/ \E c \in Charges : AddCacheCost(c)
  \/ FlushCacheCost \/ ClearCacheCost \/ ClearRAMCosts
  \/ DoPay \/ \E k \in Accounts : PayEntry(k) \/ PayDone
  \/ ClearCosts

Spec == Init /\ [][Next]_vars

-----------------------------------------------------------------------------
TypeOK ==
  /\ DOMAIN cost \subseteq Accounts
  /\ cacheCost.data \in [Accounts -> Int]
  /\ ram \in [Accounts -> Nat] /\ gas \in [Accounts -> Nat]
  /\ calls \in 0..MaxCalls
  /\ phase \in {"exec", "pay", "done"} /\ todo \subseteq DOMAIN cost
  /\ result \in {None, "ok", "err"}

\* Reference: what account x owes in RAM for cost map cm, its own data and
\* that of the contracts it owns, the "iost" domain exempt.
RamDue(cm, x) ==
  SumFunction([k \in {k \in DOMAIN cm \ IostDomain :
                       IF k \in Contracts THEN Owner[k] = x ELSE k = x} |->
                 SumFunction(cm[k].data)])

\* Reference: the payment of cost map cm can be made from balances r, g:
\* every account covers its fee, every contract outside the iost domain
\* has an owner, and every account covers the RAM it owes.
Affordable(cm, r, g) ==
  /\ \A k \in DOMAIN cm : g[k] >= GasRatio * ToGas(cm[k])
  /\ \A k \in (DOMAIN cm \cap Contracts) \ IostDomain : Owner[k] # NoOwner
  /\ \A x \in Accounts : r[x] >= RamDue(cm, x)

\* DoPay's outcome is decided by the costs and balances it starts from,
\* whatever order the range over the Go map h.cost takes: it returns nil
\* exactly when the payment is affordable.  Every validator must reach the
\* same receipt for the same transaction.
DoPayAffordable ==
  result # None => (result = "ok" <=> Affordable(costAtPay, ramAtPay, gasAtPay))

=============================================================================
