------------------------------ MODULE MCTeller ------------------------------
(* Bounds for Teller: a user "a", a contract "c" owned by "a", a system     *)
(* contract of the iost domain, and the empty name FlushCacheCost pays to.  *)
EXTENDS Teller

MCAccounts == {"", "a", "c", "vote.iost"}
MCContracts == {"c", "vote.iost"}
MCOwner == [k \in MCContracts |-> IF k = "c" THEN "a" ELSE "noowner"]

\* A cost of cpu and the data items given as a function of payers.
Charge(cpu, d) ==
  [cpu |-> cpu, net |-> 0,
   data |-> [x \in MCAccounts |-> IF x \in DOMAIN d THEN d[x] ELSE 0]]

\* Costs the host charges: gas only; storage written by the contract for
\* itself; storage written for the user "a".
MCCharges ==
  {Charge(1, [x \in {} |-> 0]), Charge(0, [x \in {"c"} |-> 1]),
   Charge(1, [x \in {"a"} |-> 1])}

\* The same, and storage of "a" deleted, which frees RAM (a negative item).
MCChargesWithRefund == MCCharges \cup {Charge(0, [x \in {"a"} |-> -1])}

MCRamInit == [x \in MCAccounts |-> IF x = "a" THEN 1 ELSE 0]
MCGasInit == [x \in MCAccounts |-> IF x = "" THEN 0 ELSE 2]
=============================================================================
