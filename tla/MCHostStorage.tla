--------------------------- MODULE MCHostStorage ---------------------------
(* Bounds for checking HostStorage with TLC.                               *)
EXTENDS HostStorage

\* Values a host read may return: one of each type of the closed value type
\* (spec section 9), a negative int64 and a fixed decimal among them.
MCDbVals ==
  { [type |-> "int64", v |-> -12], [type |-> "int64", v |-> 7],
    [type |-> "string", v |-> ""], [type |-> "string", v |-> "x"],
    [type |-> "bool", v |-> TRUE], [type |-> "bool", v |-> FALSE],
    [type |-> "bytes", v |-> "ab"], [type |-> "fixed", v |-> 3] }

\* A nil slice, an empty one, and one and two fields.
MCKeyLists == {NilSlice, <<>>, <<"f1">>, <<"f1", "f2">>}
=============================================================================
