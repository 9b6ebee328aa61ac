------------------------------- MODULE Routing -------------------------------
(***************************************************************************)
(* Which server a key belongs to (src/program/include/db/db_interface.h,   *)
(* with the redis backend's list of servers).                              *)
(*                                                                         *)
(* A store is a grid of ip_num_ addresses and port_num_ ports.  set and    *)
(* get route one key with get_ip_port, mget splits many keys into one      *)
(* group per server with gets_ip_port.  Both follow SELECT_TYPE, but each  *)
(* has a switch of its own, and both leave it to the backend to find the   *)
(* server in its list.  Replicas are not this code's concern: a type that  *)
(* rolls dice expects the servers it chooses from to hold the same.        *)
(***************************************************************************)
EXTENDS Integers, Sequences, FiniteSets

CONSTANTS
  IpNum,       \* ip_num_
  PortNum,     \* port_num_
  Key,         \* the keys in use: uint64_t
  SelectTypes, \* the SELECT_TYPEs to look at: uint8_t
  MaxKeys,     \* bound on the number of keys of an mget
  MaxSets      \* bound on the number of calls of set

\* Types 5 and 6 compute with six addresses whatever ip_num_ is
\* (db_interface.h:443, 450): with fewer the code leaves its list of servers.
ASSUME RoutingAssumption ==
  /\ IpNum \in Nat \ {0} /\ PortNum \in Nat \ {0}
  /\ IpNum * PortNum < 65536
  /\ Key \subseteq Nat
  /\ SelectTypes \subseteq 0 .. 255
  /\ SelectTypes \cap {5, 6} # {} => IpNum >= 6
  /\ MaxKeys \in Nat /\ MaxSets \in Nat

AnyIp   == 0 .. IpNum - 1
AnyPort == 0 .. PortNum - 1
Server  == AnyIp \X AnyPort   \* SvrIpPort

VARIABLES
  select_type,  \* from the configuration
  stored,       \* the keys that each server holds
  sets,         \* number of calls of set so far
  pc,           \* the call in progress, or the one that has just returned
  keys,         \* its keys
  n,            \* loop counter of gets_ip_port
  dice,         \* the address and port that gets_ip_port draws
  map_ip_port,  \* the groups: a function from some servers to their keys
  found         \* the keys the servers had values for

vars == <<select_type, stored, sets, pc, keys, n, dice, map_ip_port, found>>

\* vec_redis_server_: for each port, for each address.
Place == 0 .. IpNum * PortNum - 1
vec_redis_server_ == [x \in Place |-> <<x % IpNum, x \div IpNum>>]

\* Variant of TotalIndex: the list taken to be in the other order.
TotalIndexByIp(s) == (s[1] * PortNum + s[2]) % 65536

\* get_redis_raw: total_index, a uint16_t ...
TotalIndex(s) == (s[1] + s[2] * IpNum) % 65536

\* ... and the server it connects to.
Connect(s) == vec_redis_server_[TotalIndex(s)]

\* The sum of the decimal digits of a key, for type 7.
DigitSum[k \in Nat] == IF k = 0 THEN 0 ELSE (k % 10) + DigitSum[k \div 10]

\* get_ip_port: the values ip_index_ can get ...
IpIndex(k) ==
  CASE select_type \in {0, 1}    -> AnyIp
    [] select_type \in {2, 3, 4} -> {k % IpNum}
    [] select_type = 5           -> {((k \div 10) % 24) \div 4}
    [] select_type = 6           -> {(k % 12) \div 2}
    [] select_type = 7           -> {DigitSum[k] % IpNum}
    [] select_type = 8           -> {(k \div 4) % IpNum}
    [] select_type = 9           -> {(k \div 10) % IpNum}
    [] OTHER                     -> {0}

\* Variant of PortIndex: type 3 draws its port.
PortIndexDrawn(k) ==
  CASE select_type \in {0, 2, 3, 5, 6, 8, 9} -> AnyPort
    [] select_type \in {1, 4}                -> {k % PortNum}
    [] select_type = 7                       -> {DigitSum[k] % PortNum}
    [] OTHER                                 -> {0}

\* Variant of PortIndex: type 3 with the key's address for its port.
PortIndexSameKey(k) ==
  CASE select_type \in {0, 2, 5, 6, 8, 9} -> AnyPort
    [] select_type \in {1, 3, 4}          -> {k % PortNum}
    [] select_type = 7                    -> {DigitSum[k] % PortNum}
    [] OTHER                              -> {0}

\* ... and those port_index_ can get.
PortIndex(k) ==
  CASE select_type \in {0, 2, 5, 6, 8, 9} -> AnyPort
    [] select_type \in {1, 4}             -> {k % PortNum}
    [] select_type = 3                    -> {(k \div IpNum) % PortNum}
    [] select_type = 7                    -> {DigitSum[k] % PortNum}
    [] OTHER                              -> {0}

GetIpPort(k) == IpIndex(k) \X PortIndex(k)

\* Variant of ServerOf: type 2 without its modulus.
ServerOfWide(k) ==
  CASE select_type = 0 -> dice
    [] select_type = 1 -> <<dice[1], k % PortNum>>
    [] select_type = 2 -> <<k, dice[2]>>
    [] select_type = 3 -> <<k % IpNum, (k \div IpNum) % PortNum>>
    [] OTHER           -> <<0, 0>>

\* gets_ip_port: the server of a key, which has only four of the types.
ServerOf(k) ==
  CASE select_type = 0 -> dice
    [] select_type = 1 -> <<dice[1], k % PortNum>>
    [] select_type = 2 -> <<k % IpNum, dice[2]>>
    [] select_type = 3 -> <<k % IpNum, (k \div IpNum) % PortNum>>
    [] OTHER           -> <<0, 0>>

TypeOK ==
  /\ select_type \in SelectTypes
  /\ stored \in [Server -> SUBSET Key]
  /\ sets \in 0 .. MaxSets
  /\ pc \in {"idle", "split", "ask", "set", "get", "mget"}
  /\ keys \in Seq(Key)
  /\ n \in 1 .. Len(keys) + 1
  /\ dice \in Server
  /\ DOMAIN map_ip_port \subseteq Server
  /\ \A s \in DOMAIN map_ip_port : map_ip_port[s] \in Seq(Key)
  /\ found \subseteq Key

Init ==
  /\ select_type \in SelectTypes
  /\ stored = [s \in Server |-> {}] /\ sets = 0
  /\ pc = "idle" /\ keys = <<>> /\ n = 1 /\ dice = <<0, 0>>
  /\ map_ip_port = <<>> /\ found = {}

Ready == pc \in {"idle", "set", "get", "mget"}

\* set_i, when the server takes the value; otherwise nothing changes.
Set ==
  /\ Ready /\ sets < MaxSets
  /\ \E k \in Key : \E s \in GetIpPort(k) :
       /\ stored' = [stored EXCEPT ![Connect(s)] = @ \cup {k}]
       /\ keys' = <<k>>
  /\ sets' = sets + 1 /\ pc' = "set"
  /\ n' = 1 /\ map_ip_port' = <<>> /\ found' = {}
  /\ UNCHANGED <<select_type, dice>>

\* get_i, when the server answers.
Get ==
  /\ Ready
  /\ \E k \in Key : \E s \in GetIpPort(k) :
       /\ keys' = <<k>>
       /\ found' = {k} \cap stored[Connect(s)]
  /\ pc' = "get"
  /\ n' = 1 /\ map_ip_port' = <<>>
  /\ UNCHANGED <<select_type, stored, sets, dice>>

\* mget calls gets_ip_port, which draws at most once for the whole call.  The
\* types that do not look at the keys have one group, even without a key.
Mget ==
  /\ Ready
  /\ \E m \in 0 .. MaxKeys : keys' \in [1 .. m -> Key]
  /\ dice' \in (IF select_type \in {0, 1} THEN AnyIp ELSE {0})
            \X (IF select_type \in {0, 2} THEN AnyPort ELSE {0})
  /\ map_ip_port' =
       [s \in IF select_type \in {1, 2, 3} THEN {} ELSE {dice'} |-> <<>>]
  /\ pc' = "split" /\ n' = 1 /\ found' = {}
  /\ UNCHANGED <<select_type, stored, sets>>

Grouped(s, opened) ==
  [x \in DOMAIN map_ip_port \cup {s} |->
     IF x # s THEN map_ip_port[x]
     ELSE IF s \in DOMAIN map_ip_port THEN Append(map_ip_port[s], keys[n])
     ELSE opened]

\* Variant of Group: a key that opens a group is also added to it.
GroupTwice ==
  /\ pc = "split" /\ n <= Len(keys)
  /\ map_ip_port' = Grouped(ServerOf(keys[n]), <<keys[n], keys[n]>>)
  /\ n' = n + 1
  /\ UNCHANGED <<select_type, stored, sets, pc, keys, dice, found>>

\* One turn of its loop: the key joins the group of its server, or opens it.
Group ==
  /\ pc = "split" /\ n <= Len(keys)
  /\ map_ip_port' = Grouped(ServerOf(keys[n]), <<keys[n]>>)
  /\ n' = n + 1
  /\ UNCHANGED <<select_type, stored, sets, pc, keys, dice, found>>

SplitDone ==
  /\ pc = "split" /\ n > Len(keys)
  /\ pc' = "ask"
  /\ UNCHANGED <<select_type, stored, sets, keys, n, dice, map_ip_port, found>>

\* Each group is asked of its server, and all answer.
Ask ==
  /\ pc = "ask"
  /\ found' = UNION {stored[Connect(s)] \cap {map_ip_port[s][j] : j \in DOMAIN map_ip_port[s]} :
                       s \in DOMAIN map_ip_port}
  /\ pc' = "mget"
  /\ UNCHANGED <<select_type, stored, sets, keys, n, dice, map_ip_port>>

Next == Set \/ Get \/ Mget \/ Group \/ SplitDone \/ Ask

Spec == Init /\ [][Next]_vars

-----------------------------------------------------------------------------
AsksByRule ==
  \A s \in DOMAIN map_ip_port : \A j \in DOMAIN map_ip_port[s] :
    s \in GetIpPort(map_ip_port[s][j])

\* The types that both switches treat alike.
Agreed == select_type \notin 4 .. 9

\* The types that draw nothing: a key has one server for good.
HashedByBoth == select_type = 3 \/ select_type > 9
HashedByGet  == HashedByBoth \/ select_type \in {4, 7}

AllStored == UNION {stored[s] : s \in Server}

\* The group has the keys at these places, one for each and in their order.
InOrder(group, places) ==
  \E place \in [DOMAIN group -> places] :
    /\ \A i, j \in DOMAIN group : i < j => place[i] < place[j]
    /\ \A p \in places : \E j \in DOMAIN group : place[j] = p
    /\ \A j \in DOMAIN group : group[j] = keys[place[j]]

\* gets_ip_port splits the keys of an mget: each group has the keys of one
\* route in the order and as often as the caller gave them, and none is left
\* out.  This is what RedisMget takes for granted of its groups (Splits).
GroupsSplitKeys ==
  pc = "ask" => \E route \in [Key -> Server] :
    /\ \A j \in DOMAIN keys : route[keys[j]] \in DOMAIN map_ip_port
    /\ \A s \in DOMAIN map_ip_port :
         InOrder(map_ip_port[s], {j \in DOMAIN keys : route[keys[j]] = s})

\* The two switches agree for the documented types 0 to 3, and for the types
\* neither knows: mget asks a server for a key only if get would ask it too.
MgetAsksWhereGetAsks == pc = "ask" /\ Agreed => AsksByRule

\* A key once set is found by get, wherever other keys went, when the type
\* draws nothing.
GetFindsWhatWasSet ==
  pc = "get" /\ HashedByGet => (found = {keys[1]} <=> keys[1] \in AllStored)

\* mget finds exactly the keys that were set, when both switches have the type
\* and draw nothing.
MgetFindsWhatWasSet ==
  pc = "mget" /\ HashedByBoth =>
    found = {keys[j] : j \in DOMAIN keys} \cap AllStored

\* The place in the list and the list's order fit together: the server the
\* backend connects to is the one that was chosen, so no value is ever on a
\* server its key's rule excludes.
StoredByRule ==
  \A s \in Server : \A k \in stored[s] : s \in GetIpPort(k)

\* "a hash rule" (db_interface.h:440): where the keys of an mget are asked
\* follows the rule of the type, for every type there is.
MgetFollowsRule == pc = "ask" => AsksByRule
=============================================================================
