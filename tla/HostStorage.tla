---------------------------- MODULE HostStorage ----------------------------
(***************************************************************************)
(* The storage callbacks the V8 sandbox calls into Go                      *)
(* (src/vm/v8vm/storage.go, goPut ... goGlobalMapLen, dbValToString).      *)
(*                                                                         *)
(* A contract's JavaScript runs on one V8 thread and makes one callback at *)
(* a time.  Each callback forwards its arguments to the host database      *)
(* handler (sbx.host.Put, Get, MapKeys, GlobalGet, ...), passing the owner *)
(* only when the sandbox gave a non-empty one, and converts what the host  *)
(* returns for the sandbox: gasUsed is the CPU part of the host's cost, a  *)
(* stored value becomes a string by dbValToString, a missing one a NULL    *)
(* result, a key list JSON.                                                *)
(*                                                                         *)
(* The host handler and its database are outside src/: what a host call    *)
(* returns is any value of the closed value type of spec section 9 (int64, *)
(* string, bool, bytes, fixed decimal) or nothing, chosen by the model.    *)
(* GetSandbox always finds the running sandbox: a callback only comes from *)
(* a sandbox that is running, so its early return is left out.             *)
(***************************************************************************)
EXTENDS Integers, Sequences, TLC

CONSTANTS
  Contracts,  \* contract names a global callback may name
  Keys,       \* storage keys
  Fields,     \* map fields
  StrVals,    \* strings the sandbox writes
  Owners,     \* non-empty owner names
  DbVals,     \* values a host read may return (typed records)
  KeyLists,   \* key lists host.MapKeys may return; NilSlice is a nil slice
  MaxLen,     \* bound on what host.MapLen returns
  CpuCosts    \* CPU costs a host call may report

\* The owner argument as C gives it: a NULL pointer, "" or a name.
NilPtr == "nullptr"
OwnerPtrs == {NilPtr, ""} \cup Owners

None == "none"
NilSlice == "nilslice"
Unset == "unset"     \* *result not written by the callback
UnsetGas == -1       \* *gasUsed not written by the callback
Null == "NULL"       \* *result = nil
NoVal == [type |-> "nil", v |-> 0]   \* a host read that found nothing (val == nil)

VARIABLES
  hostCall,  \* the host method last called, with its arguments
  hostRet,   \* what that call returned (value, boolean, length or key list)
  ret        \* the callback's outputs: error, *result and *gasUsed

vars == <<hostCall, hostRet, ret>>

-----------------------------------------------------------------------------
\* Fault: only a NULL owner is dropped, "" is forwarded as a RAM payer.
OwnerArgsNilOnly(o) == IF o = NilPtr THEN <<>> ELSE <<o>>

\* owner == nil || C.GoString(owner) == "": the host is called without an
\* owner; otherwise with it as the last argument.
OwnerArgs(o) == IF o \in {NilPtr, ""} THEN <<>> ELSE <<o>>

\* dbValToString: strconv.FormatInt base 10, the string itself, FormatBool,
\* string(bytes); any other type is ErrInvalidDbValType.
dbValToString(val) ==
  CASE val.type = "int64"  -> [s |-> ToString(val.v), err |-> None]
    [] val.type = "string" -> [s |-> val.v, err |-> None]
    [] val.type = "bool"   -> [s |-> IF val.v THEN "true" ELSE "false", err |-> None]
    [] val.type = "bytes"  -> [s |-> val.v, err |-> None]
    [] OTHER               -> [s |-> "", err |-> "ErrInvalidDbValType"]

\* json.Marshal of a []string: a nil slice is the JSON text "null" (a
\* string, not a NULL result), any other slice a JSON array of its fields.
JSONMarshal(ks) == IF ks = NilSlice THEN "null" ELSE [array |-> ks]

\* A host call: method, contract (Self for the running one), key, field,
\* value and the owner arguments.
Self == "self"
Call(op, c, k, f, v, o) ==
  [op |-> op, c |-> c, k |-> k, f |-> f, v |-> v, owner |-> OwnerArgs(o)]

Init ==
  /\ hostCall = Call("none", Self, None, None, None, NilPtr)
  /\ hostRet = NoVal
  /\ ret = [err |-> None, result |-> Unset, gas |-> UnsetGas]

-----------------------------------------------------------------------------
(* Writes and deletes: only gasUsed is written.                            *)
Write(op, c, k, f, v, o) ==
  /\ hostCall' = Call(op, c, k, f, v, o)
  /\ hostRet' = NoVal
  /\ \E cpu \in CpuCosts : ret' = [err |-> None, result |-> Unset, gas |-> cpu]

goPut(k, v, o)       == Write("Put", Self, k, None, v, o)
goDel(k, o)          == Write("Del", Self, k, None, None, o)
goMapPut(k, f, v, o) == Write("MapPut", Self, k, f, v, o)
goMapDel(k, f, o)    == Write("MapDel", Self, k, f, None, o)

(* Has and Len: *gasUsed and *result from the host's answer.               *)
Ask(op, c, k, f, o, answers) ==
  /\ hostCall' = Call(op, c, k, f, None, o)
  /\ \E a \in answers, cpu \in CpuCosts :
        /\ hostRet' = a
        /\ ret' = [err |-> None, result |-> a, gas |-> cpu]

goHas(k, o)                == Ask("Has", Self, k, None, o, BOOLEAN)
goMapHas(k, f, o)          == Ask("MapHas", Self, k, f, o, BOOLEAN)
goMapLen(k, o)             == Ask("MapLen", Self, k, None, o, 0..MaxLen)
goGlobalHas(c, k, o)       == Ask("GlobalHas", c, k, None, o, BOOLEAN)
goGlobalMapHas(c, k, f, o) == Ask("GlobalMapHas", c, k, f, o, BOOLEAN)
goGlobalMapLen(c, k, o)    == Ask("GlobalMapLen", c, k, None, o, 0..MaxLen)

(* Gets.  goGet returns dbValToString's error; the map and global gets     *)
(* drop it (valStr, _ := dbValToString(val)) and hand over "".             *)
goGet(k, o) ==
  /\ hostCall' = Call("Get", Self, k, None, None, o)
  /\ \E val \in DbVals \cup {NoVal}, cpu \in CpuCosts :
        /\ hostRet' = val
        /\ ret' = IF val = NoVal THEN [err |-> None, result |-> Null, gas |-> cpu]
                  ELSE LET r == dbValToString(val)
                       IN IF r.err # None
                          THEN [err |-> r.err, result |-> Unset, gas |-> cpu]
                          ELSE [err |-> None, result |-> r.s, gas |-> cpu]

GetIgnoringErr(op, c, k, f, o) ==
  /\ hostCall' = Call(op, c, k, f, None, o)
  /\ \E val \in DbVals \cup {NoVal}, cpu \in CpuCosts :
        /\ hostRet' = val
        /\ ret' = [err |-> None, gas |-> cpu,
                   result |-> IF val = NoVal THEN Null ELSE dbValToString(val).s]

goMapGet(k, f, o)          == GetIgnoringErr("MapGet", Self, k, f, o)
goGlobalGet(c, k, o)       == GetIgnoringErr("GlobalGet", c, k, None, o)
goGlobalMapGet(c, k, f, o) == GetIgnoringErr("GlobalMapGet", c, k, f, o)

(* Key lists: json.Marshal(fstr), then *gasUsed and *result.               *)
ListKeys(op, c, k, o) ==
  /\ hostCall' = Call(op, c, k, None, None, o)
  /\ \E ks \in KeyLists, cpu \in CpuCosts :
        /\ hostRet' = ks
        /\ ret' = [err |-> None, result |-> JSONMarshal(ks), gas |-> cpu]

goMapKeys(k, o)       == ListKeys("MapKeys", Self, k, o)
goGlobalMapKeys(c, k, o) == ListKeys("GlobalMapKeys", c, k, o)

-----------------------------------------------------------------------------
Next ==
  \E k \in Keys, o \in OwnerPtrs :
    \/ \E v \in StrVals : goPut(k, v, o) \/ \E f \in Fields : goMapPut(k, f, v, o)
    \/ goDel(k, o) \/ goHas(k, o) \/ goGet(k, o)
    \/ goMapLen(k, o) \/ goMapKeys(k, o)
    \/ \E f \in Fields : goMapDel(k, f, o) \/ goMapHas(k, f, o) \/ goMapGet(k, f, o)
    \/ \E c \in Contracts :
         \/ goGlobalHas(c, k, o) \/ goGlobalGet(c, k, o)
         \/ goGlobalMapLen(c, k, o) \/ goGlobalMapKeys(c, k, o)
         \/ \E f \in Fields : goGlobalMapHas(c, k, f, o) \/ goGlobalMapGet(c, k, f, o)

Spec == Init /\ [][Next]_vars

-----------------------------------------------------------------------------
\* The host is given a RAM payer only as an account name: never "" or NULL.
TypeOK ==
  /\ hostCall.owner \in {<<>>} \cup {<<o>> : o \in Owners}
  /\ ret.err \in {None, "ErrInvalidDbValType"}
  /\ ret.gas \in CpuCosts \cup {UnsetGas}

=============================================================================
