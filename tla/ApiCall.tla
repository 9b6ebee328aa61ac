------------------------------- MODULE ApiCall -------------------------------
(***************************************************************************)
(* ApiDbInterface: get_i by number and by string, over get_data_by_curl.   *)
(* The curl handle is made by the first call and kept (handle); the list   *)
(* of headers is made and freed by each.                                   *)
(***************************************************************************)
EXTENDS DbCall

\* get_i by number says 1 whatever curl said.
Told(d, ret) == IF call[d].op = "get" THEN 1 ELSE ret

\* Without an address there is nothing to ask.
ApiNoIp(d) ==
  /\ d \in NoIp /\ At(d, "begin")
  /\ Return(d, 0)
  /\ UNCHANGED <<iface, many, heap, odd>>

\* get_i by number has no header for the tokens, and gives NULL as one.
NullHeader(d) == d \in Tokens /\ call[d].op = "get"

\* curl_easy_init, the headers, and the buffer emptied.
ApiPrepare(d) ==
  /\ d \notin NoIp /\ At(d, "begin")
  /\ \/ /\ ~NullHeader(d) /\ Goto(d, "ask")
        /\ Heap(d, [curl    |-> IF iface[d].handle THEN 0 ELSE 1,
                    headers |-> IF d \in Tokens THEN 1 ELSE 0])
        /\ iface' = [iface EXCEPT ![d].handle = TRUE,
                                  ![d].buffer[iface[d].index] = Nothing]
     \/ ~iface[d].handle /\ Return(d, Told(d, -1)) /\ UNCHANGED <<iface, heap>>
  /\ UNCHANGED <<many, odd>>

\* curl_easy_perform: the whole answer, or an error after some or none of it.
ApiPerform(d) ==
  /\ At(d, "ask")
  /\ Heap(d, [headers |-> IF d \in Tokens THEN -1 ELSE 0])
  /\ \/ Store(d, 1)
     \/ Return(d, Told(d, -1)) /\ UNCHANGED iface
  /\ UNCHANGED <<many, odd>>

\* curl_slist_append copies the NULL as a string: the process dies, and with it
\* whatever its threads were at.
ApiCrash(d) ==
  /\ d \in Api \ NoIp /\ At(d, "begin") /\ NullHeader(d)
  /\ phase' = "crashed" /\ round' = 0 /\ asked' = NoRequests /\ many' = NoMany
  /\ call' = [e \in Db |-> NoCall] /\ iface' = [e \in Db |-> Fresh]
  /\ heap' = [e \in Db |-> Free] /\ odd' = {}

ApiStep(d) == d \in Api /\ (ApiNoIp(d) \/ ApiPrepare(d) \/ ApiPerform(d))
=============================================================================
