------------------------------ MODULE RedisMget ------------------------------
(***************************************************************************)
(* HiRedisDbInterface::mget (src/program/include/db/hiredis_db_interface.h)*)
(* of one query thread: many integer keys are fetched at once.             *)
(*                                                                         *)
(* gets_ip_port splits the keys into one group per redis server.  With     *)
(* MGET_TYPE=1 mget_i_multi gives each group a window of un_compress_, an  *)
(* array of COMPRESS_NUM buffers, and one pthread per group copies the     *)
(* values into its window; otherwise mget_i visits the groups in turn and  *)
(* takes the buffers one after the other from un_compress_index_.  Either  *)
(* way the caller gets a map from keys to pointers into the array.         *)
(*                                                                         *)
(* A buffer is modelled by the key whose value it holds, a pointer by the  *)
(* number of the buffer.                                                   *)
(***************************************************************************)
EXTENDS Integers, Sequences

CONSTANTS
  Key,         \* the keys a request may ask for
  CompressNum, \* COMPRESS_NUM = REDIS_COMPRESS_NUM: buffers of un_compress_
  ThreadNum,   \* MGET_THREAD_NUM: the most buffers a pthread is given
  MaxServers,  \* bound on the groups of a request: ip_num_ * port_num_
  MaxKeys,     \* bound on key_num
  Garbage      \* content of a buffer that holds no key's value

ASSUME RedisMgetAssumption ==
  /\ CompressNum \in Nat
  /\ ThreadNum \in Nat
  /\ MaxServers \in Nat
  /\ MaxKeys \in Nat
  /\ Garbage \notin Key

Buffer == 0 .. CompressNum - 1

VARIABLES
  parallel,          \* mget_type_ == 1, from the configuration
  compressed,        \* compress_flag_, from the configuration
  un_compress_index_,
  un_compress_,      \* what each buffer holds
  pc,                \* where the caller of mget is
  key_num,           \* keys of the call
  num, groups,       \* map_ip_port: its size and the keys of each server
  step,              \* buffers per pthread
  index,             \* the group the caller's loop is at
  base,              \* p_uncompress_ of each group's pthread
  wpc,               \* where the work on each group is
  answer,            \* the elements of each group's reply
  i,                 \* loop counter over the elements of a reply
  un_compress_index, \* buffers each pthread has filled
  vec_result,        \* p_vec_result_ of each pthread
  p_result,          \* mget_i's pointer to the buffer it has just filled
  map_result         \* what the caller gets

config  == <<parallel, compressed>>
pool    == <<un_compress_index_, un_compress_>>
request == <<key_num, num, groups, step>>
worker  == <<wpc, answer, i, un_compress_index, vec_result>>
vars    == <<config, pool, pc, request, index, base, worker, p_result, map_result>>

Group    == 1 .. num
Element  == {"value", "nil", "corrupt"}
KeySeq   == UNION {[1 .. n -> Key] : n \in 0 .. MaxKeys}
PartialMap == UNION {[S -> Buffer] : S \in SUBSET Key}

TypeOK ==
  /\ parallel \in BOOLEAN /\ compressed \in BOOLEAN
  /\ un_compress_index_ \in 0 .. CompressNum
  /\ un_compress_ \in [Buffer -> Key \cup {Garbage}]
  /\ pc \in {"ready", "window", "advance", "join", "visit", "point", "bump", "returned"}
  /\ key_num \in 0 .. MaxKeys /\ num \in 0 .. MaxServers
  /\ groups \in [Group -> KeySeq]
  /\ step \in 0 .. ThreadNum
  /\ index \in 1 .. MaxServers + 1
  /\ base \in [Group -> 0 .. CompressNum]
  /\ wpc \in [Group -> {"wait", "fetch", "copy", "done"}]
  /\ \A w \in Group : wpc[w] = "copy" => answer[w] \in [DOMAIN groups[w] -> Element]
  /\ i \in [Group -> 1 .. MaxKeys + 1]
  /\ un_compress_index \in [Group -> 0 .. CompressNum]
  /\ vec_result \in [Group -> PartialMap]
  /\ p_result \in 0 .. CompressNum
  /\ map_result \in PartialMap

\* std::map::insert: a key that is already there keeps its pointer.
Insert(map, k, b) ==
  IF k \in DOMAIN map THEN map ELSE [x \in DOMAIN map \cup {k} |-> IF x = k THEN b ELSE map[x]]

NoResult == [k \in {} |-> 0]

-----------------------------------------------------------------------------
\* The loop of gets_ip_port over the keys: each is appended to the group of its
\* server.
Grouped(keys, n, route) ==
  LET after[m \in 0 .. Len(keys)] ==
        IF m = 0 THEN [w \in 1 .. n |-> <<>>]
        ELSE [after[m - 1] EXCEPT ![route[keys[m]]] = Append(@, keys[m])]
  IN  after[Len(keys)]

\* gets_ip_port: with SELECT_TYPE 1, 2 and 3 the server depends on the key and
\* every group has a key; with 0 and the types it does not know, all keys, even
\* none, go to one server.  The order of the groups is that of a hash map, so
\* any; it is the order in which they are numbered here.
Splits(keys, n) == {Grouped(keys, n, route) : route \in [Key -> 1 .. n]}

\* What a redis server may answer to MGET: each element is a value, nil, or a
\* compressed value that uncompress rejects.
Answers(keys) ==
  [DOMAIN keys -> IF compressed THEN Element ELSE {"value", "nil"}]

Init ==
  /\ parallel \in BOOLEAN /\ compressed \in BOOLEAN
  /\ un_compress_index_ = 0 /\ un_compress_ = [b \in Buffer |-> Garbage]
  /\ pc = "ready"
  /\ key_num = 0 /\ num = 0 /\ groups = <<>> /\ step = 0 /\ index = 1 /\ base = <<>>
  /\ wpc = <<>> /\ answer = <<>> /\ i = <<>> /\ un_compress_index = <<>>
  /\ vec_result = <<>> /\ p_result = 0 /\ map_result = NoResult

\* Variant of Step: without the limit.
StepUnlimited(n) == ThreadNum

\* mget_i_multi's limit: the windows of all groups fit into the array.
Step(n) == IF n > 0 /\ CompressNum \div n < ThreadNum THEN CompressNum \div n ELSE ThreadNum

\* mget: initialize(), gets_ip_port, and the start of mget_i_multi or mget_i.
\* The pointers of the previous call are given up.
Call ==
  /\ pc \in {"ready", "returned"}
  /\ \E n \in 0 .. MaxServers, keys \in KeySeq :
       /\ key_num' = Len(keys) /\ num' = n /\ step' = Step(n)
       /\ IF n = 0 THEN keys = <<>> /\ groups' = <<>> ELSE groups' \in Splits(keys, n)
       /\ n > 1 => \A w \in 1 .. n : groups'[w] # <<>>
       /\ base' = [w \in 1 .. n |-> 0]
       /\ wpc' = [w \in 1 .. n |-> "wait"]
       /\ answer' = [w \in 1 .. n |-> <<>>]
       /\ i' = [w \in 1 .. n |-> 1]
       /\ un_compress_index' = [w \in 1 .. n |-> 0]
       /\ vec_result' = [w \in 1 .. n |-> NoResult]
  /\ un_compress_index_' = 0
  /\ index' = 1 /\ map_result' = NoResult
  /\ pc' = IF parallel THEN "window" ELSE "visit"
  /\ UNCHANGED <<config, un_compress_, p_result>>

-----------------------------------------------------------------------------
(* mget_i_multi: the caller. *)

\* redis_thread_para_arr[index].p_uncompress_ = &un_compress_[un_compress_index_]
TakeWindow ==
  /\ pc = "window" /\ index <= num
  /\ base' = [base EXCEPT ![index] = un_compress_index_]
  /\ pc' = "advance"
  /\ UNCHANGED <<config, pool, request, index, worker, p_result, map_result>>

\* Variant of Advance: by MGET_THREAD_NUM, whatever the limit.
AdvanceUnlimited ==
  /\ pc = "advance"
  /\ un_compress_index_' = un_compress_index_ + ThreadNum
  /\ index' = index + 1 /\ pc' = "window"
  /\ UNCHANGED <<config, un_compress_, request, base, worker, p_result, map_result>>

\* Variant of Advance: by one buffer less, the last one is shared.
AdvanceShort ==
  /\ pc = "advance"
  /\ un_compress_index_' = IF step = 0 THEN 0 ELSE un_compress_index_ + step - 1
  /\ index' = index + 1 /\ pc' = "window"
  /\ UNCHANGED <<config, un_compress_, request, base, worker, p_result, map_result>>

\* un_compress_index_ = un_compress_index_ + step
Advance ==
  /\ pc = "advance"
  /\ un_compress_index_' = un_compress_index_ + step
  /\ index' = index + 1 /\ pc' = "window"
  /\ UNCHANGED <<config, un_compress_, request, base, worker, p_result, map_result>>

\* pthread_create for every group.
Launch ==
  /\ pc = "window" /\ index = num + 1
  /\ wpc' = [w \in Group |-> "fetch"]
  /\ pc' = "join"
  /\ UNCHANGED <<config, pool, request, index, base, answer, i, un_compress_index,
                 vec_result, p_result, map_result>>

\* pthread_join for every group, then the results are collected: a key is in
\* one group only, so the maps of the groups do not overlap.
Join ==
  /\ pc = "join" /\ \A w \in Group : wpc[w] = "done"
  /\ map_result' =
       [k \in UNION {DOMAIN vec_result[w] : w \in Group} |->
          vec_result[CHOOSE w \in Group : k \in DOMAIN vec_result[w]][k]]
  /\ pc' = "returned"
  /\ UNCHANGED <<config, pool, request, index, base, worker, p_result>>

-----------------------------------------------------------------------------
(* mget_i_internal: the pthread of group w. *)

\* Connect, SELECT, MGET: any of them may fail, and an empty group is not sent.
FetchFails(w) ==
  /\ pc = "join" /\ wpc[w] = "fetch"
  /\ wpc' = [wpc EXCEPT ![w] = "done"]
  /\ UNCHANGED <<config, pool, pc, request, index, base, answer, i, un_compress_index,
                 vec_result, p_result, map_result>>

Fetch(w) ==
  /\ pc = "join" /\ wpc[w] = "fetch" /\ groups[w] # <<>>
  /\ wpc' = [wpc EXCEPT ![w] = "copy"]
  /\ \E a \in Answers(groups[w]) : answer' = [answer EXCEPT ![w] = a]
  /\ UNCHANGED <<config, pool, pc, request, index, base, i, un_compress_index, vec_result,
                 p_result, map_result>>

\* The next element of the reply: nil is skipped, a value is copied.
Copying(w) == pc = "join" /\ wpc[w] = "copy" /\ i[w] <= Len(groups[w])

Skip(w) ==
  /\ Copying(w) /\ answer[w][i[w]] = "nil"
  /\ i' = [i EXCEPT ![w] = @ + 1]
  /\ UNCHANGED <<config, pool, pc, request, index, base, wpc, answer, un_compress_index,
                 vec_result, p_result, map_result>>

\* Variant of Copy: the index of the window is taken for an index of the array.
CopyIgnoringBase(w) ==
  /\ Copying(w) /\ answer[w][i[w]] = "value" /\ un_compress_index[w] < step
  /\ LET b == un_compress_index[w]
         k == groups[w][i[w]]
     IN  /\ un_compress_' = [un_compress_ EXCEPT ![b] = k]
         /\ vec_result' = [vec_result EXCEPT ![w] = Insert(@, k, b)]
  /\ un_compress_index' = [un_compress_index EXCEPT ![w] = @ + 1]
  /\ i' = [i EXCEPT ![w] = @ + 1]
  /\ UNCHANGED <<config, un_compress_index_, pc, request, index, base, wpc, answer, p_result,
                 map_result>>

Copy(w) ==
  /\ Copying(w) /\ answer[w][i[w]] = "value" /\ un_compress_index[w] < step
  /\ LET b == base[w] + un_compress_index[w]
         k == groups[w][i[w]]
     IN  /\ un_compress_' = [un_compress_ EXCEPT ![b] = k]
         /\ vec_result' = [vec_result EXCEPT ![w] = Insert(@, k, b)]
  /\ un_compress_index' = [un_compress_index EXCEPT ![w] = @ + 1]
  /\ i' = [i EXCEPT ![w] = @ + 1]
  /\ UNCHANGED <<config, un_compress_index_, pc, request, index, base, wpc, answer, p_result,
                 map_result>>

\* uncompress fails: the buffer may have been written, it is used again.
Corrupt(w) ==
  /\ Copying(w) /\ answer[w][i[w]] = "corrupt" /\ un_compress_index[w] < step
  /\ un_compress_' = [un_compress_ EXCEPT ![base[w] + un_compress_index[w]] = Garbage]
  /\ i' = [i EXCEPT ![w] = @ + 1]
  /\ UNCHANGED <<config, un_compress_index_, pc, request, index, base, wpc, answer,
                 un_compress_index, vec_result, p_result, map_result>>

\* Variant of Finish: the last buffer of the window is not used.
FinishEarly(w) ==
  /\ pc = "join" /\ wpc[w] = "copy"
  /\ \/ i[w] > Len(groups[w])
     \/ Copying(w) /\ answer[w][i[w]] # "nil" /\ un_compress_index[w] >= step - 1
  /\ wpc' = [wpc EXCEPT ![w] = "done"]
  /\ UNCHANGED <<config, pool, pc, request, index, base, answer, i, un_compress_index,
                 vec_result, p_result, map_result>>

\* The reply is read, or the window is full and the rest is left out.
Finish(w) ==
  /\ pc = "join" /\ wpc[w] = "copy"
  /\ \/ i[w] > Len(groups[w])
     \/ Copying(w) /\ answer[w][i[w]] # "nil" /\ un_compress_index[w] >= step
  /\ wpc' = [wpc EXCEPT ![w] = "done"]
  /\ UNCHANGED <<config, pool, pc, request, index, base, answer, i, un_compress_index,
                 vec_result, p_result, map_result>>

-----------------------------------------------------------------------------
(* mget_i: the caller visits the groups one after the other. *)

Here == index

VisitFails ==
  /\ pc = "visit" /\ index <= num /\ wpc[Here] = "wait"
  /\ index' = index + 1
  /\ UNCHANGED <<config, pool, pc, request, base, worker, p_result, map_result>>

Visit ==
  /\ pc = "visit" /\ index <= num /\ wpc[Here] = "wait" /\ groups[Here] # <<>>
  /\ wpc' = [wpc EXCEPT ![Here] = "copy"]
  /\ \E a \in Answers(groups[Here]) : answer' = [answer EXCEPT ![Here] = a]
  /\ UNCHANGED <<config, pool, pc, request, index, base, i, un_compress_index, vec_result,
                 p_result, map_result>>

Visiting ==
  /\ pc = "visit" /\ index <= num /\ wpc[Here] = "copy" /\ i[Here] <= Len(groups[Here])

VisitSkip ==
  /\ Visiting /\ answer[Here][i[Here]] = "nil"
  /\ i' = [i EXCEPT ![Here] = @ + 1]
  /\ UNCHANGED <<config, pool, pc, request, index, base, wpc, answer, un_compress_index,
                 vec_result, p_result, map_result>>

\* The value goes to un_compress_[un_compress_index_] ...
VisitCopy ==
  /\ Visiting /\ answer[Here][i[Here]] = "value" /\ un_compress_index_ < CompressNum
  /\ un_compress_' = [un_compress_ EXCEPT ![un_compress_index_] = groups[Here][i[Here]]]
  /\ pc' = "point"
  /\ UNCHANGED <<config, un_compress_index_, request, index, base, worker, p_result,
                 map_result>>

\* ... char* p_result = un_compress_[un_compress_index_] ...
Point ==
  /\ pc = "point"
  /\ p_result' = un_compress_index_
  /\ pc' = "bump"
  /\ UNCHANGED <<config, pool, request, index, base, worker, map_result>>

\* ... un_compress_index_ ++ and the insertion.
Bump ==
  /\ pc = "bump"
  /\ un_compress_index_' = un_compress_index_ + 1
  /\ map_result' = Insert(map_result, groups[Here][i[Here]], p_result)
  /\ i' = [i EXCEPT ![Here] = @ + 1]
  /\ pc' = "visit"
  /\ UNCHANGED <<config, un_compress_, request, index, base, wpc, answer, un_compress_index,
                 vec_result, p_result>>

\* uncompress fails: here the buffer is not used again.
VisitCorrupt ==
  /\ Visiting /\ answer[Here][i[Here]] = "corrupt" /\ un_compress_index_ < CompressNum
  /\ un_compress_' = [un_compress_ EXCEPT ![un_compress_index_] = Garbage]
  /\ un_compress_index_' = un_compress_index_ + 1
  /\ i' = [i EXCEPT ![Here] = @ + 1]
  /\ UNCHANGED <<config, pc, request, index, base, wpc, answer, un_compress_index, vec_result,
                 p_result, map_result>>

\* Variant of Leave: the loop over the groups does not go on.
LeaveStays ==
  /\ pc = "visit" /\ index <= num /\ wpc[Here] = "copy"
  /\ \/ i[Here] > Len(groups[Here])
     \/ Visiting /\ answer[Here][i[Here]] # "nil" /\ un_compress_index_ >= CompressNum
  /\ wpc' = [wpc EXCEPT ![Here] = "done"]
  /\ UNCHANGED <<config, pool, pc, request, index, base, answer, i, un_compress_index,
                 vec_result, p_result, map_result>>

\* The reply is read, or the array is full and the rest of this reply is left
\* out; the other groups are still fetched.
Leave ==
  /\ pc = "visit" /\ index <= num /\ wpc[Here] = "copy"
  /\ \/ i[Here] > Len(groups[Here])
     \/ Visiting /\ answer[Here][i[Here]] # "nil" /\ un_compress_index_ >= CompressNum
  /\ wpc' = [wpc EXCEPT ![Here] = "done"]
  /\ index' = index + 1
  /\ UNCHANGED <<config, pool, pc, request, base, answer, i, un_compress_index, vec_result,
                 p_result, map_result>>

VisitReturn ==
  /\ pc = "visit" /\ index = num + 1
  /\ pc' = "returned"
  /\ UNCHANGED <<config, pool, request, index, base, worker, p_result, map_result>>

-----------------------------------------------------------------------------
Multi ==
  \/ TakeWindow \/ Advance \/ Launch \/ Join
  \/ \E w \in Group : FetchFails(w) \/ Fetch(w) \/ Skip(w) \/ Copy(w) \/ Corrupt(w) \/ Finish(w)

Serial ==
  \/ VisitFails \/ Visit \/ VisitSkip \/ VisitCopy \/ Point \/ Bump \/ VisitCorrupt
  \/ Leave \/ VisitReturn

Next == Call \/ Multi \/ Serial

Spec == Init /\ [][Next]_vars

\* The threads run and every redis command returns: TIMEOUT bounds it.
FairSpec == Spec /\ WF_vars(Multi) /\ WF_vars(Serial)

-----------------------------------------------------------------------------
\* No pthread can leave the array: every window lies inside it, at any number
\* of servers and any MGET_THREAD_NUM (hiredis_db_interface.h:355-359).
WindowsInside == pc = "join" => \A w \in Group : base[w] + step <= CompressNum

\* No pthread writes where another one does: the windows do not overlap.
WindowsApart ==
  pc = "join" =>
    \A v, w \in Group : v # w => base[v] + step <= base[w] \/ base[w] + step <= base[v]

\* Every key of the answer comes with its own value, whatever the order in
\* which the pthreads copied theirs and whatever an earlier call left behind.
OwnValue ==
  pc = "returned" => \A k \in DOMAIN map_result : un_compress_[map_result[k]] = k

\* The keys of group w that the server gave a value for.
Given(w) == {groups[w][n] : n \in {m \in DOMAIN answer[w] : answer[w][m] = "value"}}

\* Every key whose server gave a value is in the answer, as long as there is
\* room: a group is not longer than a window (parallel), all groups together
\* are not longer than the array (serial).  Nothing else loses a key.
NoKeyLost ==
  pc = "returned" =>
    /\ parallel =>
         \A w \in Group : Len(groups[w]) <= step => Given(w) \subseteq DOMAIN map_result
    /\ ~parallel /\ key_num <= CompressNum =>
         \A w \in Group : Given(w) \subseteq DOMAIN map_result

\* A call returns: the caller waits for its pthreads only.
CallReturns == (pc # "ready") ~> (pc = "returned")
=============================================================================
