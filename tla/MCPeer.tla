------------------------------- MODULE MCPeer -------------------------------
(* Bounds for checking Peer with TLC.                                      *)
EXTENDS Peer

CONSTANTS s1, s2, s3, u1, n1, n2, c1, c2

MCStreams == {s1, s2, s3}

\* Length fields of well-formed frames: a one-byte body.
MCHeaders == {<<0, 0, 0, 1>>}

\* A hostile header as well: length 2^32 - 1.
MCHostileHeaders == {<<0, 0, 0, 1>>, <<255, 255, 255, 255>>}
=============================================================================
