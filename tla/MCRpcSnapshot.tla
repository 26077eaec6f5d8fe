--------------------------- MODULE MCRpcSnapshot ---------------------------
(* Bounds for checking RpcSnapshot with TLC.                               *)
EXTENDS RpcSnapshot

CONSTANTS h1, h2, sub1

\* The two kinds of GetBalance and GetContractStorage, which check out.
MCCheckoutKinds == {"balanceHead", "balanceLib", "storage"}
\* Every request kind.
MCAllKinds == {"balanceHead", "balanceLib", "storage", "exec",
               "blockByHash", "blockByNum", "chainInfo"}
\* The block lookups.
MCBlockKinds == {"blockByHash", "blockByNum"}
=============================================================================
