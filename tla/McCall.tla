------------------------------- MODULE McCall -------------------------------
(***************************************************************************)
(* McDbInterface: get_i and the mget into an array.  The memcached client  *)
(* is made by the first call and kept (handle).                            *)
(***************************************************************************)
EXTENDS DbCall

\* get_mc_raw.
McConnect(d) ==
  /\ At(d, "begin")
  /\ \/ iface[d].handle /\ Goto(d, "ask") /\ UNCHANGED <<iface, heap>>
     \/ /\ ~iface[d].handle
        /\ Goto(d, "ask") /\ Heap(d, [memc |-> 1])
        /\ iface' = [iface EXCEPT ![d].handle = TRUE]
     \/ /\ ~iface[d].handle
        /\ Return(d, IF call[d].op = "mget" THEN 0 ELSE -1)
        /\ UNCHANGED <<iface, heap>>
  /\ UNCHANGED <<many, odd>>

\* memcached_get gives a value, whose length is returned, one that uncompress
\* rejects, or none.
McGet(d) ==
  /\ At(d, "ask") /\ call[d].op \in {"get", "s_get"}
  /\ \/ \E length \in {0, 1} :
          IF d \in Plain THEN Store(d, length) ELSE NotStored(d, length)
     \/ /\ d \in Compressed \cap Plain
        /\ Return(d, -1)
        /\ iface' = [iface EXCEPT ![d].buffer[iface[d].index] = Nothing]
     \/ Return(d, 0) /\ UNCHANGED iface
  /\ UNCHANGED <<many, heap, odd>>

\* MEMCACHED_SERVER_MARKED_DEAD: the pointer is given up, the client is not
\* freed, and the next call makes another.
McDead(d) ==
  /\ At(d, "ask") /\ call[d].op \in {"get", "s_get"}
  /\ Return(d, 0)
  /\ iface' = [iface EXCEPT ![d].handle = FALSE]
  /\ odd' = odd \cup {<<d, "memc">>}
  /\ UNCHANGED <<many, heap>>

\* The value is copied as long as it is: it is not ended (unless the buffer has
\* a '\0' just there), not uncompressed, and one longer than a buffer goes on in
\* the next ones.
McCopy(d, k) ==
  LET index == iface[d].index
  IN  \E form \in {"text", "tailed"}, last \in index .. CompressNum - 1 :
        iface' = [iface EXCEPT
          ![d].index = @ + 1,
          ![d].buffer = [b \in Buffer |->
             IF b = index THEN <<round, k, form>>
             ELSE IF b \in index .. last THEN <<round, k, "rest">>
             ELSE @[b]]]

\* memcached_fetch: the values come in any order, and the caller is told
\* neither whose they are nor how long; one that comes with an error code is
\* not freed.
McFetch(d) ==
  /\ At(d, "ask") /\ call[d].op = "mget"
  /\ \E k \in (1 .. many.keys) \ many.got :
       \/ /\ McCopy(d, k) /\ Give(d, k, Cardinality(DOMAIN many.map) + 1)
          /\ UNCHANGED <<heap, odd>>
       \/ /\ many.at <= many.keys /\ Skip
          /\ Heap(d, [value |-> 1]) /\ odd' = odd \cup {<<d, "value">>}
          /\ UNCHANGED iface
  /\ UNCHANGED call

McFetchEnd(d) ==
  /\ At(d, "ask") /\ call[d].op = "mget"
  /\ Return(d, 0)
  /\ UNCHANGED <<iface, many, heap, odd>>

McStep(d) ==
  /\ d \in Mc
  /\ McConnect(d) \/ McGet(d) \/ McDead(d) \/ McFetch(d) \/ McFetchEnd(d)
=============================================================================
