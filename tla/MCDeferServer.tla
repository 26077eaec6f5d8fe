--------------------------- MODULE MCDeferServer ---------------------------
(* Bounds for checking DeferServer with TLC.                               *)
EXTENDS DeferServer

\* Three defer indexes due at times 1, 2 and 3; the first is rebuilt from
\* the chain at start-up, the others are stored while the ticker runs.
MCEntries == {<<1, 1>>, <<2, 1>>, <<3, 1>>}
MCInitPool == {<<1, 1>>}

\* Shutdown with the whole index rebuilt at start-up, two keys sharing a
\* trigger time (ordered by hash).
MCShutdownPool == {<<1, 1>>, <<2, 1>>, <<2, 2>>}
=============================================================================
