------------------------------ MODULE RedisCall ------------------------------
(***************************************************************************)
(* HiRedisDbInterface: get_i, set_i and s_mget_i.  Each call makes a       *)
(* connection of its own and gives it back.  redisCommand returns a reply, *)
(* or NULL with or without err set; without it the code asks once more.    *)
(***************************************************************************)
EXTENDS DbCall

\* get_redis_raw: redisConnectWithTimeout; a connection with err set is freed.
\* (set_i does not come here with a value that is NULL, and returns the same.)
RedisConnect(d) ==
  /\ At(d, "begin")
  /\ \/ /\ Heap(d, [redis |-> 1])
        /\ Goto(d, IF d \in Selects THEN "select" ELSE "ask")
     \/ /\ Return(d, IF call[d].op = "s_mget" THEN 1 ELSE -1)
        /\ UNCHANGED heap
  /\ UNCHANGED <<iface, many, odd>>

\* SELECT db_index_: its reply is freed whatever it says.
RedisSelect(d) ==
  /\ At(d, "select")
  /\ \/ Goto(d, "ask") /\ UNCHANGED heap
     \/ /\ \E ret \in {-2, -3} : Return(d, ret)
        /\ Heap(d, [redis |-> -1])
  /\ UNCHANGED <<iface, many, odd>>

\* Variant of RedisGet: without a reply it begins again with a connection.
RedisGetAgain(d) ==
  /\ At(d, "ask") /\ call[d].op \in {"get", "s_get"}
  /\ \/ Goto(d, "reply") /\ Heap(d, [reply |-> 1])
     \/ Goto(d, "begin") /\ Heap(d, [redis |-> -1])
  /\ UNCHANGED <<iface, many, odd>>

\* GET, asked twice if there is neither a reply nor an error.
RedisGet(d) ==
  /\ At(d, "ask") /\ call[d].op \in {"get", "s_get"}
  /\ \/ Goto(d, "reply") /\ Heap(d, [reply |-> 1])
     \/ /\ \E ret \in {-2, -3} : Return(d, ret)
        /\ Heap(d, [redis |-> -1])
  /\ UNCHANGED <<iface, many, odd>>

\* Variant of RedisReply: the way out for a value that cannot be uncompressed
\* forgets the reply.
RedisReplyKept(d) ==
  /\ At(d, "reply") /\ call[d].op \in {"get", "s_get"}
  /\ \/ Return(d, -3) /\ Heap(d, [reply |-> -1, redis |-> -1]) /\ UNCHANGED iface
     \/ /\ d \in Compressed \cap Plain
        /\ Return(d, -1) /\ Heap(d, [redis |-> -1]) /\ UNCHANGED iface
     \/ /\ Heap(d, [reply |-> -1, redis |-> -1])
        /\ IF d \in Plain THEN Store(d, 1) ELSE NotStored(d, 1)
  /\ UNCHANGED <<many, odd>>

\* No string (a key that does not exist, or an error), a value that uncompress
\* rejects, or a value.  (A string reply of hiredis has a str that is not NULL,
\* so the way out that returns 0 is never taken.)
RedisReply(d) ==
  /\ At(d, "reply") /\ call[d].op \in {"get", "s_get"}
  /\ Heap(d, [reply |-> -1, redis |-> -1])
  /\ \/ Return(d, -3) /\ UNCHANGED iface
     \/ d \in Compressed \cap Plain /\ Return(d, -1) /\ UNCHANGED iface
     \/ IF d \in Plain THEN Store(d, 1) ELSE NotStored(d, 1)
  /\ UNCHANGED <<many, odd>>

\* SET: done; or no key, no reply or an error of the connection; or an error
\* reply, after which it is sent again, and the first reply is not freed.
RedisSet(d) ==
  /\ At(d, "ask") /\ call[d].op = "set"
  /\ \/ /\ \E ret \in {1, -1, -2, -3} : Return(d, ret)
        /\ Heap(d, [redis |-> -1])
        /\ UNCHANGED odd
     \/ /\ \E ret \in {1, -2, -3} : Return(d, ret)
        /\ Heap(d, [reply |-> 1, redis |-> -1])
        /\ odd' = odd \cup {<<d, "reply">>}
  /\ UNCHANGED <<iface, many>>

\* MGET of all keys to one server; without a reply the call goes on to the next
\* server, and there is none.
RedisMgetKeys(d) ==
  /\ At(d, "ask") /\ call[d].op = "s_mget"
  /\ \/ Goto(d, "reply") /\ Heap(d, [reply |-> 1])
     \/ Return(d, 1) /\ Heap(d, [redis |-> -1])
  /\ UNCHANGED <<iface, many, odd>>

\* One element of the reply: nil, a value that uncompress rejects (its buffer
\* stays unused), or a value.
Element(d) ==
  /\ At(d, "reply") /\ call[d].op = "s_mget"
  /\ many.at <= many.keys /\ iface[d].index < CompressNum
  /\ \/ Skip /\ UNCHANGED iface
     \/ /\ d \in Compressed \cap Plain
        /\ Skip /\ iface' = [iface EXCEPT ![d].index = @ + 1]
     \/ StoreMany(d, many.at, many.at)
  /\ UNCHANGED <<call, heap, odd>>

\* No element or no buffer is left.
RedisMgetEnd(d) ==
  /\ At(d, "reply") /\ call[d].op = "s_mget"
  /\ many.at > many.keys \/ iface[d].index >= CompressNum
  /\ Return(d, 1) /\ Heap(d, [reply |-> -1, redis |-> -1])
  /\ UNCHANGED <<iface, many, odd>>

RedisStep(d) ==
  /\ d \in Redis
  /\ \/ RedisConnect(d) \/ RedisSelect(d) \/ RedisGet(d) \/ RedisReply(d)
     \/ RedisSet(d) \/ RedisMgetKeys(d) \/ Element(d) \/ RedisMgetEnd(d)
=============================================================================
