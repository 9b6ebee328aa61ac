------------------------------- MODULE DbCall -------------------------------
(***************************************************************************)
(* What the calls of all backends share: the members of a DbInterface, the *)
(* locals of a call in progress and the objects it has allocated.          *)
(*                                                                         *)
(* A buffer of un_compress_ is modelled by what reading it finds first: of *)
(* the value for the k-th key of the query thread's n-th call (0 stands    *)
(* for the only key of get) it is <<n, k, form>>, where the form tells     *)
(* whether it is the value and no more ("text"), the value as the server   *)
(* has it and then the end of what was in the buffer before ("tailed"), or *)
(* what was too long for the buffer before it ("rest").  A char* into the  *)
(* array is the buffer's number.                                           *)
(***************************************************************************)
EXTENDS Integers, Sequences, FiniteSets

CONSTANTS
  Db,                    \* the database ids that have a DbInterface
  Redis, Mc, Api, Woo,   \* which backend each has, from DB_TYPE
  Selects,               \* db_index_ # 0
  Compressed,            \* compress_flag_
  Plain,                 \* key_value_type_ = 0 and value_string_type_ = 0
  Tokens,                \* token_flag_
  NoIp,                  \* no address in SVR_IP
  CompressNum,           \* COMPRESS_NUM, the buffers of un_compress_
  MaxKeys,               \* bound on the keys of a call
  MaxRounds              \* bound on the calls of one DbCompany

ASSUME DbCallAssumption ==
  /\ Db = Redis \cup Mc \cup Api \cup Woo
  /\ Redis \cap (Mc \cup Api \cup Woo) = {} /\ Mc \cap (Api \cup Woo) = {} /\ Api \cap Woo = {}
  /\ CompressNum \in Nat \ {0} /\ MaxKeys \in Nat /\ MaxRounds \in Nat

VARIABLES
  round,  \* calls made by the query thread
  phase,  \* where the query thread is
  asked,  \* ReqResultMap: the requests of get_multi_db, by database id
  call,   \* the call in progress on each interface
  iface,  \* the DbInterface objects
  many,   \* the locals of a call for many keys
  heap,   \* ghost: how many objects of each kind an interface's calls hold
  odd     \* ghost: the interfaces and kinds of object met by a named fault

vars == <<round, phase, asked, call, iface, many, heap, odd>>

Buffer  == 0 .. CompressNum - 1
Form    == {"text", "tailed", "rest"}
Nothing == <<0, 0, "text">>
Null    == -1
Kind    == {"redis", "reply", "memc", "value", "curl", "headers", "client"}

NoCall  == [pc |-> "idle", op |-> "none", ret |-> 0, result |-> Null, served |-> FALSE]
NoMany  == [db |-> Null, keys |-> 0, null |-> {}, at |-> 1, sent |-> <<>>,
            open |-> {}, got |-> {}, map |-> <<>>]
Fresh   == [index |-> 0, buffer |-> [b \in Buffer |-> Nothing], handle |-> FALSE]
Free    == [k \in Kind |-> 0]
NoRequests == [d \in {} |-> "number"]

\* Several objects come and go at once: change[k] more of kind k.
Heap(d, change) ==
  heap' = [heap EXCEPT ![d] = [k \in Kind |-> @[k] + IF k \in DOMAIN change THEN change[k] ELSE 0]]

At(d, pc) == call[d].pc = pc
Goto(d, pc) == call' = [call EXCEPT ![d].pc = pc]
Return(d, ret) == call' = [call EXCEPT ![d].pc = "returned", ![d].ret = ret]

\* Variant of Store: the pointer is taken when the index has moved on.
StoreLate(d, ret) ==
  /\ iface' = [iface EXCEPT ![d].buffer[iface[d].index] = <<round, 0, "text">>, ![d].index = @ + 1]
  /\ call' = [call EXCEPT ![d].pc = "returned", ![d].ret = ret,
                          ![d].result = iface[d].index + 1, ![d].served = TRUE]

\* The answer to the only key is put into the buffer at the index, the caller's
\* pointer is set to it, and the index moves on.
Store(d, ret) ==
  /\ iface' = [iface EXCEPT ![d].buffer[iface[d].index] = <<round, 0, "text">>, ![d].index = @ + 1]
  /\ call' = [call EXCEPT ![d].pc = "returned", ![d].ret = ret,
                          ![d].result = iface[d].index, ![d].served = TRUE]

\* Values that are no plain strings are fetched and thrown away.
NotStored(d, ret) ==
  /\ Return(d, ret)
  /\ UNCHANGED iface

\* DbInterface::initialize and the entry of the call.
Enter(d, op) ==
  /\ call' = [call EXCEPT ![d] = [NoCall EXCEPT !.pc = "begin", !.op = op]]
  /\ iface' = [iface EXCEPT ![d].index = 0]

\* std::map::insert: a key that is already there keeps its pointer.
Insert(map, k, b) ==
  IF k \in DOMAIN map THEN map ELSE [x \in DOMAIN map \cup {k} |-> IF x = k THEN b ELSE map[x]]

\* The caller is given the buffer at the index as the value of key name, and
\* what has come is the k-th key's.
Give(d, k, name) ==
  many' = [many EXCEPT !.at = @ + 1, !.got = @ \cup {k},
                       !.map = Insert(@, name, iface[d].index)]

\* The k-th key's value is put into that buffer.
StoreMany(d, k, name) ==
  /\ iface' = [iface EXCEPT ![d].buffer[iface[d].index] = <<round, k, "text">>,
                            ![d].index = @ + 1]
  /\ Give(d, k, name)
Skip == many' = [many EXCEPT !.at = @ + 1]
=============================================================================
