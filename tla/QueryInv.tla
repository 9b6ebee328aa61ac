------------------------------- MODULE QueryInv -------------------------------
(***************************************************************************)
(* The inductive invariant of Query: which interfaces a call is under way  *)
(* on and how far it is, what the calls hold, and what the buffers and the *)
(* pointers of the caller have been given so far.                          *)
(***************************************************************************)
EXTENDS Query

Pc == {"idle", "thread", "begin", "select", "ask", "reply", "wait", "returned"}
GetOps == {"get", "s_get"}
Op == {"none"} \cup GetOps \cup {"set", "s_mget", "mget", "smget"}

CallTypes  == [Db -> [pc : Pc, op : Op, ret : Int, result : Int, served : BOOLEAN]]
IfaceTypes == [Db -> [index : Nat, buffer : [Buffer -> Nat \X Nat \X Form], handle : BOOLEAN]]
HeapTypes  == [Db -> [Kind -> Int]]

TypesOK ==
  /\ round \in Nat
  /\ phase \in {"idle", "joining", "joined", "many", "released", "crashed"}
  /\ call \in CallTypes /\ iface \in IfaceTypes /\ heap \in HeapTypes
  /\ DOMAIN many = DOMAIN NoMany

\* Where a call may be, by backend and operation.
Places(d) ==
  CASE d \in Redis -> {"begin", "select", "ask", "reply"}
    [] d \in Mc    -> {"begin", "ask"}
    [] d \in Api   -> {"begin", "ask"}
    [] d \in Woo   -> IF call[d].op \in GetOps THEN {"begin", "ask"}
                      ELSE IF call[d].op = "smget" THEN {"begin", "wait"} ELSE {"begin"}

\* A call is under way only on the interfaces that the query thread waits for.
Active(d) ==
  \/ phase \in {"joining", "joined"} /\ d \in DOMAIN asked
  \/ phase = "many" /\ d = many.db

CallOK(d) ==
  /\ ~Active(d) => call[d] = NoCall
  /\ Active(d) => \/ call[d].pc = "returned"
                  \/ phase # "joined" /\ call[d].pc \in Places(d)
                  \/ phase = "joining" /\ call[d] = [NoCall EXCEPT !.pc = "thread"]

-----------------------------------------------------------------------------
(* The heap. *)

\* How many objects of a kind the calls of an interface hold where they are.
Owns(d, k) ==
  LET yes(c) == IF c THEN 1 ELSE 0
      at(pcs) == call[d].pc \in pcs
      kept == phase # "released" /\ iface[d].handle
  IN  CASE d \in Redis /\ k = "redis"   -> yes(at({"select", "ask", "reply"}))
        [] d \in Redis /\ k = "reply"   -> yes(at({"reply"}))
        [] d \in Mc    /\ k = "memc"    -> yes(kept)
        [] d \in Api   /\ k = "curl"    -> yes(kept)
        [] d \in Api   /\ k = "headers" -> yes(at({"ask"}) /\ d \in Tokens)
        [] d \in Woo   /\ k = "client"  -> IF call[d].op = "smget" /\ at({"begin", "wait"})
                                           THEN Len(many.sent) ELSE yes(at({"ask"}))
        [] OTHER -> 0

HeapOK(d) ==
  \A k \in Kind :
    /\ heap[d][k] >= Owns(d, k)
    /\ <<d, k>> \notin odd => heap[d][k] = Owns(d, k)

-----------------------------------------------------------------------------
(* get_multi_db. *)

AnswerOK(d) ==
  LET p == call[d].result
  IN  IF call[d].pc = "returned"
      THEN /\ call[d].served => p \in Buffer /\ iface[d].buffer[p] = <<round, 0, "text">>
           /\ ~call[d].served /\ d \notin Woo => p = Null
           /\ d \in Redis \cap Plain => (call[d].ret > 0 <=> call[d].served)
      ELSE /\ call[d].pc # "thread" => call[d].op \in GetOps
           /\ ~call[d].served
           /\ IF d \in Woo /\ call[d].pc = "ask" THEN p \in Buffer ELSE p = Null
           /\ call[d].pc # "thread" /\ ~(d \in Woo /\ call[d].pc = "ask") => iface[d].index = 0

AnswersOK == phase \in {"joining", "joined"} => \A d \in Threads : AnswerOK(d)

-----------------------------------------------------------------------------
(* The calls for many keys. *)

\* Every pointer given is to a buffer that was taken, no two to the same.
Pointers(map, index) ==
  /\ \A k \in DOMAIN map : map[k] \in Buffer /\ map[k] < index
  /\ \A j, k \in DOMAIN map : j # k => map[j] # map[k]

OwnBuffers(f) == \A k \in many.got : k \in DOMAIN many.map /\ f.buffer[many.map[k]] = <<round, k, "text">>

\* s_mget of redis takes the buffers one after the other, and leaves some unused.
RedisManyOK(f) ==
  /\ many.at \in Nat \ {0} /\ DOMAIN many.map = many.got /\ many.got \subseteq 1 .. many.at - 1
  /\ Pointers(many.map, f.index) /\ OwnBuffers(f)

\* The array of memcached: a buffer for every value, whosever it is.
Begins(content, k) == content \in {<<round, k, "text">>, <<round, k, "tailed">>}
McManyOK(f) ==
  /\ many.got \subseteq 1 .. many.keys /\ f.index = Cardinality(many.got)
  /\ DOMAIN many.map = 1 .. f.index /\ \A n \in 1 .. f.index : many.map[n] = n - 1
  /\ \A n \in 1 .. f.index : \E k \in many.got : Begins(f.buffer[n - 1], k)
  /\ \A k \in many.got : \E n \in 1 .. f.index : Begins(f.buffer[n - 1], k)

\* mget of woo: a buffer and a pointer for every key, answered or not.
WooManyOK(f) ==
  /\ many.at \in Nat \ {0} /\ many.at <= many.keys + 1
  /\ f.index = many.at - 1 /\ DOMAIN many.map = 1 .. f.index
  /\ \A n \in 1 .. f.index : many.map[n] = n - 1
  /\ many.got \subseteq 1 .. f.index /\ OwnBuffers(f)

\* smget of woo: the clients are those of the first keys; those that have
\* answered have the buffers taken so far.
SmgetOK(f) ==
  /\ many.at \in Nat /\ many.sent \in Seq(Nat) /\ Len(many.sent) < many.at /\ many.at <= many.keys + 1
  /\ \A c \in 1 .. Len(many.sent) : many.sent[c] = c
  /\ many.open \subseteq 1 .. Len(many.sent) /\ many.got \subseteq 1 .. Len(many.sent)
  /\ many.open \cap many.got = {}
  /\ DOMAIN many.map = many.got /\ f.index = Cardinality(many.got)
  /\ Pointers(many.map, f.index) /\ OwnBuffers(f)

ManyOK ==
  phase = "many" =>
    LET d == many.db
        f == iface[d]
        op == call[d].op
    IN  /\ d \in Db /\ op \in Ops(d)
        /\ many.keys \in Nat /\ (op # "s_mget" => many.keys <= CompressNum)
        /\ op = "set" => many.map = <<>> /\ many.got = {}
        /\ op = "s_mget" => RedisManyOK(f)
        /\ op = "mget" => IF d \in Mc THEN McManyOK(f) ELSE WooManyOK(f)
        /\ op = "smget" => SmgetOK(f)

IInv ==
  /\ TypesOK /\ AnswersOK /\ ManyOK
  /\ \A d \in Db : CallOK(d) /\ HeapOK(d)
=============================================================================
