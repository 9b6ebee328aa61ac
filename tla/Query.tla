------------------------------- MODULE Query --------------------------------
(***************************************************************************)
(* What a query thread asks its DbCompany: get_multi_db, which runs one    *)
(* pthread per database of a ReqResultMap, or one call of its own for many *)
(* keys or to set.  Calls to different interfaces interleave.              *)
(***************************************************************************)
EXTENDS RedisCall, McCall, ApiCall, WooCall

CONSTANTS
  Unknown,  \* a database id that has no DbInterface
  Together  \* bound on the requests of one get_multi_db

ASSUME QueryAssumption == Unknown \notin Db

\* What a request may be: by number, by string, or by a string that is NULL.
By == {"number", "string", "null"}

Init ==
  /\ round = 0 /\ phase = "idle" /\ asked = NoRequests
  /\ call = [d \in Db |-> NoCall] /\ iface = [d \in Db |-> Fresh]
  /\ many = NoMany /\ heap = [d \in Db |-> Free] /\ odd = {}

-----------------------------------------------------------------------------
(* get_multi_db *)

\* push_request_result_map: a second request to a database is refused.
Push(d, by) ==
  /\ phase = "idle" /\ round < MaxRounds /\ Cardinality(DOMAIN asked) < Together
  /\ d \notin DOMAIN asked
  /\ asked' = [x \in DOMAIN asked \cup {d} |-> IF x = d THEN by ELSE asked[x]]
  /\ UNCHANGED <<round, phase, call, iface, many, heap, odd>>

\* get_multi_db: a thread for every request whose database is known.
GetMultiDb ==
  /\ phase = "idle" /\ asked # NoRequests
  /\ phase' = "joining" /\ round' = round + 1
  /\ call' = [d \in Db |-> IF d \in DOMAIN asked THEN [NoCall EXCEPT !.pc = "thread"] ELSE NoCall]
  /\ UNCHANGED <<asked, iface, many, heap, odd>>

\* get_multi_db_pthread, up to the call.
Thread(d) ==
  /\ At(d, "thread")
  /\ \/ asked[d] = "null" /\ Return(d, 0) /\ UNCHANGED iface
     \/ asked[d] = "number" /\ Enter(d, "get")
     \/ asked[d] = "string" /\ Enter(d, "s_get")
  /\ UNCHANGED <<round, phase, asked, many, heap, odd>>

\* The requests that got a thread.
Threads == DOMAIN asked \cap Db

\* All threads have been joined; the caller may read every p_result_.
Join ==
  /\ phase = "joining"
  /\ \A d \in Threads : At(d, "returned")
  /\ phase' = "joined"
  /\ UNCHANGED <<round, asked, call, iface, many, heap, odd>>

\* release_request_result_map.
ReleaseMap ==
  /\ phase = "joined"
  /\ phase' = "idle" /\ asked' = NoRequests /\ call' = [d \in Db |-> NoCall]
  /\ UNCHANGED <<round, iface, many, heap, odd>>

-----------------------------------------------------------------------------
(* Calls of the query thread itself. *)

Ops(d) == CASE d \in Redis -> {"set", "s_mget"}
            [] d \in Mc    -> {"mget"}
            [] d \in Api   -> {}
            [] d \in Woo   -> {"mget", "smget"}

\* All of them but s_mget take a buffer per key without a look at the end of
\* the array, so no more keys are asked for than there are buffers.
CallMany(d, op, keys, null) ==
  /\ phase = "idle" /\ asked = NoRequests /\ round < MaxRounds
  /\ op = "s_mget" \/ keys <= CompressNum
  /\ op = "smget" \/ null = {}
  /\ phase' = "many" /\ round' = round + 1
  /\ Enter(d, op)
  /\ many' = [NoMany EXCEPT !.db = d, !.keys = keys, !.null = null]
  /\ UNCHANGED <<asked, heap, odd>>

\* The call has returned; its result is read, and the query thread goes on.
ReturnMany ==
  /\ phase = "many" /\ At(many.db, "returned")
  /\ phase' = "idle" /\ call' = [d \in Db |-> NoCall] /\ many' = NoMany
  /\ UNCHANGED <<round, asked, iface, heap, odd>>

-----------------------------------------------------------------------------
(* DbCompany::release deletes every interface, and with it what it has kept. *)

Kept(d) == [memc |-> IF d \in Mc /\ iface[d].handle THEN 1 ELSE 0,
            curl |-> IF d \in Api /\ iface[d].handle THEN 1 ELSE 0]

Release ==
  /\ phase = "idle" /\ asked = NoRequests
  /\ phase' = "released"
  /\ heap' = [d \in Db |-> [k \in Kind |-> heap[d][k] -
                              IF k \in DOMAIN Kept(d) THEN Kept(d)[k] ELSE 0]]
  /\ UNCHANGED <<round, asked, call, iface, many, odd>>

\* The next DbCompany, whose objects are counted anew: of the next update, or of
\* the process that is started after a crash.
Renew ==
  /\ phase \in {"released", "crashed"}
  /\ phase' = "idle" /\ round' = 0 /\ odd' = {}
  /\ iface' = [d \in Db |-> Fresh] /\ heap' = [d \in Db |-> Free]
  /\ UNCHANGED <<asked, call, many>>

-----------------------------------------------------------------------------
Backend(d) ==
  /\ RedisStep(d) \/ McStep(d) \/ ApiStep(d) \/ WooStep(d)
  /\ UNCHANGED <<round, phase, asked>>

Step(d) == Thread(d) \/ Backend(d) \/ ApiCrash(d)

Next ==
  \/ \E d \in Db \cup {Unknown}, by \in By : Push(d, by)
  \/ GetMultiDb
  \/ \E d \in Db : Step(d)
  \/ Join
  \/ ReleaseMap
  \/ \E d \in Db, keys \in 0 .. MaxKeys, null \in {{}, {1}, {2}} :
       \E op \in Ops(d) : CallMany(d, op, keys, null)
  \/ ReturnMany
  \/ Release
  \/ Renew

\* Every call of a library comes back: each is given a time limit from TIMEOUT
\* (connections, replies, curl, memcached, woo, select), so every thread goes
\* on, and the query thread goes on when its calls have returned.
Fairness ==
  /\ \A d \in Db : WF_vars(Step(d))
  /\ WF_vars(Join)
  /\ WF_vars(ReturnMany)

Spec == Init /\ [][Next]_vars /\ Fairness

-----------------------------------------------------------------------------
\* After the join, a request whose server has given a plain value has that
\* value of this very call, whatever the other threads did and earlier calls
\* left in the buffers; without one it has NULL, but from a woo server, whose
\* pointer is set whether or not an answer has come.  (woo_db_interface.h:70,
\* hiredis_db_interface.h:289-307, mc_db_interface.h:151-173,
\* api_db_interface.h:155-190, db_company.h:241-274)
OwnAnswers ==
  phase = "joined" => \A d \in Threads :
    LET p == call[d].result
    IN  /\ call[d].served => p \in Buffer /\ iface[d].buffer[p] = <<round, 0, "text">>
        /\ ~call[d].served /\ d \notin Woo => p = Null
        /\ d \in Redis \cap Plain => (call[d].ret > 0 <=> call[d].served)

\* A call for many keys gives every key whose value has come, each in a buffer
\* of its own and with its own value, and the keys it gives are those, but for
\* the mget of woo.  The results in memcached's array begin each with a value of
\* this call, in some order and each once; what follows a value in its buffer
\* may be of an earlier one, and nothing tells the caller where it ends.
\* (hiredis_db_interface.h:779-828, mc_db_interface.h:224-236,
\* woo_db_interface.h:151-174, 182-301)
ManyOwn ==
  phase = "many" /\ At(many.db, "returned") =>
    LET map == many.map
        holds(k) == iface[many.db].buffer[map[k]]
    IN  /\ \A j, k \in DOMAIN map : j # k => map[j] # map[k]
        /\ IF many.db \in Mc
           THEN /\ \A n \in DOMAIN map : holds(n)[1] = round /\ holds(n)[3] # "rest"
                /\ {holds(n)[2] : n \in DOMAIN map} = many.got
           ELSE /\ \A k \in many.got : k \in DOMAIN map /\ holds(k) = <<round, k, "text">>
                /\ call[many.db].op # "mget" => DOMAIN map = many.got

\* Between its calls an interface has only the client it keeps for the next,
\* and with the DbCompany that is freed too: nothing is freed twice, and
\* nothing is forgotten, but for the first reply of a SET that was refused, the
\* client of a memcached server marked dead, a memcached value that came with
\* an error, and a woo client that could not send.
NothingLeft ==
  \A d \in Db, k \in Kind :
    LET kept == IF k \in DOMAIN Kept(d) THEN Kept(d)[k] ELSE 0
    IN  /\ heap[d][k] >= 0
        /\ call[d].pc \in {"idle", "returned"} /\ <<d, k>> \notin odd =>
             heap[d][k] = IF phase = "released" THEN 0 ELSE kept

\* A request by number to an api that wants tokens: the one fault that ends the
\* process.
Doomed == \E d \in Threads : asked[d] = "number" /\ d \in (Api \cap Tokens) \ NoIp

\* Every call of the query thread comes back, however many threads it starts
\* and whatever the servers do, unless one of its requests is doomed
\* (api_db_interface.h:284): nothing else ends the process.
CallsReturn == phase \in {"joining", "many"} /\ ~Doomed ~> phase \in {"joined", "idle"}
=============================================================================
