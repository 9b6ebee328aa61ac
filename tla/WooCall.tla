------------------------------- MODULE WooCall -------------------------------
(***************************************************************************)
(* WooDbInterface: get_i, mget_i and smget_i.  A client is made and        *)
(* destroyed for every request; smget_i has one per server at the same     *)
(* time and waits for all with select().                                   *)
(***************************************************************************)
EXTENDS DbCall

\* get_woo_result: the caller's pointer is set before anything is asked, so
\* that without an answer it is left pointing at what the buffer held.
WooClient(d) ==
  /\ At(d, "begin") /\ call[d].op \in {"get", "s_get"}
  /\ iface' = [iface EXCEPT ![d].index = @ + 1]
  /\ \/ /\ call' = [call EXCEPT ![d].pc = "ask", ![d].result = iface[d].index]
        /\ Heap(d, [client |-> 1])
     \/ /\ call' = [call EXCEPT ![d].pc = "returned", ![d].ret = 1, ![d].result = iface[d].index]
        /\ UNCHANGED heap
  /\ UNCHANGED <<many, odd>>

\* binary_client_talk: an answer, or none; get_i does not look at it.
WooTalk(d) ==
  /\ At(d, "ask")
  /\ \/ /\ call' = [call EXCEPT ![d].pc = "returned", ![d].ret = 1, ![d].served = TRUE]
        /\ iface' = [iface EXCEPT ![d].buffer[call[d].result] = <<round, 0, "text">>]
     \/ Return(d, 1) /\ UNCHANGED iface
  /\ Heap(d, [client |-> -1])
  /\ UNCHANGED <<many, odd>>

\* mget_i: the same for one key after the other.
WooMgetKey(d) ==
  /\ At(d, "begin") /\ call[d].op = "mget" /\ many.at <= many.keys
  /\ \/ StoreMany(d, many.at, many.at)
     \/ /\ iface' = [iface EXCEPT ![d].index = @ + 1]
        /\ many' = [many EXCEPT !.at = @ + 1, !.map = Insert(@, many.at, iface[d].index)]
  /\ UNCHANGED <<call, heap, odd>>

WooMgetEnd(d) ==
  /\ At(d, "begin") /\ call[d].op = "mget" /\ many.at > many.keys
  /\ Return(d, 1)
  /\ UNCHANGED <<iface, many, heap, odd>>

\* Variant of SentKey: the key of the server's place in the list.
SentKeyByServer == many.at

\* total_i: the clients a key has been sent on; the next gets p_keys[total_i].
TotalI == Len(many.sent)
SentKey == TotalI + 1

\* smget_i's first loop, for one server: no client; a client but no key or no
\* success in sending, whose slot is used again; or one more that is waited for.
WooSend(d) ==
  /\ At(d, "begin") /\ call[d].op = "smget" /\ many.at <= many.keys
  /\ \/ Skip /\ UNCHANGED <<heap, odd>>
     \/ /\ Skip /\ Heap(d, [client |-> 1])
        /\ odd' = odd \cup {<<d, "client">>}
     \/ /\ SentKey \notin many.null
        /\ many' = [many EXCEPT !.at = @ + 1, !.sent = Append(@, SentKey),
                                !.open = @ \cup {TotalI + 1}]
        /\ Heap(d, [client |-> 1])
        /\ UNCHANGED odd
  /\ UNCHANGED <<call, iface>>

WooSent(d) ==
  /\ At(d, "begin") /\ call[d].op = "smget" /\ many.at > many.keys
  /\ Goto(d, "wait")
  /\ UNCHANGED <<iface, many, heap, odd>>

\* Variant of StillOpen: binary_client_recv with its default, long_conn.
StillOpenLong(open, ready) == open

\* binary_client_recv with long_conn = false closes the socket.
StillOpen(open, ready) == open \ ready

\* select() says which clients are ready; those of them that receive an answer
\* put it into the next buffers, in order of their number.
WooReceive(d) ==
  /\ At(d, "wait") /\ many.open # {}
  /\ \E ready \in SUBSET many.open \ {{}} : \E ok \in SUBSET ready :
       LET place(c) == iface[d].index + Cardinality({x \in ok : x < c})
           holds(b) == {c \in ok : place(c) = b}
       IN  /\ iface' = [iface EXCEPT
                ![d].index = @ + Cardinality(ok),
                ![d].buffer = [b \in Buffer |-> IF holds(b) = {} THEN @[b]
                   ELSE <<round, many.sent[CHOOSE c \in holds(b) : TRUE], "text">>]]
           /\ many' = [many EXCEPT
                !.open = StillOpen(@, ready),
                !.got = @ \cup {many.sent[c] : c \in ok},
                !.map = [c \in DOMAIN @ \cup ok |-> IF c \in DOMAIN @ THEN @[c] ELSE place(c)]]
  /\ UNCHANGED <<call, heap, odd>>

\* No client is waited for, or select() fails or times out: all are destroyed.
WooWaited(d) ==
  /\ At(d, "wait")
  /\ Return(d, 1)
  /\ Heap(d, [client |-> -TotalI])
  /\ UNCHANGED <<iface, many, odd>>

WooStep(d) ==
  /\ d \in Woo
  /\ \/ WooClient(d) \/ WooTalk(d) \/ WooMgetKey(d) \/ WooMgetEnd(d)
     \/ WooSend(d) \/ WooSent(d) \/ WooReceive(d) \/ WooWaited(d)
=============================================================================
