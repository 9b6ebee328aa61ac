---------------------------- MODULE RoutingProofs ----------------------------
(***************************************************************************)
(* Theorems about Routing, for every number of addresses and ports and     *)
(* every set of keys.                                                      *)
(*                                                                         *)
(* Type 7 takes the sum of the digits of a key.  That it is a number, for  *)
(* every key, is proved first: by the least number for which it would not  *)
(* be (WFMin), which stands for an induction.                              *)
(***************************************************************************)
EXTENDS Routing, WellFoundedInduction, TLAPS

\* A set of numbers has a least one.
LEMMA Least ==
  ASSUME NEW T, T \subseteq Nat, T # {}
  PROVE  \E m \in T : \A k \in T : m <= k
<1> DEFINE R == OpToRel(<, Nat)
<1>1. IsWellFoundedOn(R, Nat)  BY NatLessThanWellFounded
<1>2. \A x, y \in Nat : x < y => <<x, y>> \in R  BY DEF OpToRel
<1> HIDE DEF R
<1>3. PICK m \in T : \A k \in T : ~(<<k, m>> \in R)  BY <1>1, WFMin
<1>4. ASSUME NEW k \in T PROVE m <= k
  <2>1. ~(k < m)  BY <1>2, <1>3
  <2> QED  BY <2>1
<1> QED  BY <1>4

\* What is left of a number without its last digit is smaller.
LEMMA Tenth ==
  ASSUME NEW k \in Nat, k # 0
  PROVE  k \div 10 \in 0 .. k - 1 /\ k % 10 \in Nat
OBVIOUS

\* A function that sums the digits of the numbers up to last.
Sums(g, last) ==
  /\ g \in [0 .. last -> Nat]
  /\ \A k \in 0 .. last : g[k] = IF k = 0 THEN 0 ELSE (k % 10) + g[k \div 10]

\* Two such functions agree where both are defined ...
LEMMA OneSum ==
  ASSUME NEW l \in Nat, NEW m \in Nat, NEW g, NEW h, Sums(g, l), Sums(h, m),
         NEW k \in Nat, k <= l, k <= m
  PROVE  g[k] = h[k]
<1> DEFINE T == {j \in Nat : j <= l /\ j <= m /\ g[j] # h[j]}
<1> SUFFICES ASSUME T # {} PROVE FALSE
  OBVIOUS
<1>1. PICK j \in T : \A i \in T : j <= i  BY Least
<1>2. CASE j = 0  BY <1>1, <1>2 DEF Sums
<1>3. CASE j # 0
  <2>1. j \div 10 \in Nat /\ j \div 10 < j /\ j % 10 \in Nat  BY <1>3, Tenth
  <2>2. j \div 10 \notin T  BY <1>1, <2>1
  <2>3. g[j \div 10] = h[j \div 10]  BY <2>1, <2>2
  <2> QED  BY <1>3, <2>1, <2>3 DEF Sums
<1> QED  BY <1>2, <1>3

\* ... and there is one for every last number.
LEMMA SomeSum ==
  ASSUME NEW last \in Nat
  PROVE  \E g : Sums(g, last)
<1> DEFINE T == {j \in Nat : ~ \E g : Sums(g, j)}
<1> SUFFICES ASSUME T # {} PROVE FALSE
  OBVIOUS
<1>1. PICK j \in T : \A i \in T : j <= i  BY Least
<1>2. j # 0
  <2>1. Sums([k \in 0 .. 0 |-> 0], 0)  BY DEF Sums
  <2> QED  BY <1>1, <2>1
<1>3. j - 1 \notin T /\ j - 1 \in Nat  BY <1>1, <1>2
<1>4. PICK g : Sums(g, j - 1)  BY <1>3
<1> DEFINE h == [k \in 0 .. j |-> IF k = j THEN (j % 10) + g[j \div 10] ELSE g[k]]
<1>5. Sums(h, j)
  <2>1. j \div 10 \in 0 .. j - 1 /\ j % 10 \in Nat  BY <1>2, Tenth
  <2>2. h \in [0 .. j -> Nat]  BY <1>3, <1>4, <2>1 DEF Sums
  <2>3. ASSUME NEW k \in 0 .. j, k # 0 PROVE h[k] = (k % 10) + h[k \div 10]
    <3>1. k \div 10 \in 0 .. k - 1  BY <2>3, Tenth
    <3>2. h[k \div 10] = g[k \div 10]  BY <3>1
    <3>3. CASE k = j  BY <3>2, <3>3
    <3>4. CASE k # j
      <4>1. k \in 0 .. j - 1  BY <3>4
      <4> QED  BY <1>4, <2>3, <3>2, <3>4, <4>1 DEF Sums
    <3> QED  BY <3>3, <3>4
  <2>4. h[0] = 0  BY <1>2, <1>3, <1>4 DEF Sums
  <2> QED  BY <2>2, <2>3, <2>4 DEF Sums
<1> QED  BY <1>1, <1>5

\* The sum of the digits of a number is a number.
LEMMA DigitSumType == DigitSum \in [Nat -> Nat]
<1> DEFINE S(k) == CHOOSE g : Sums(g, k)
           f == [k \in Nat |-> S(k)[k]]
<1>1. \A k \in Nat : Sums(S(k), k)  BY SomeSum
<1> HIDE DEF S
<1>2. \A k \in Nat : S(k)[k] \in Nat  BY <1>1 DEF Sums
<1>3. ASSUME NEW k \in Nat
      PROVE  S(k)[k] = IF k = 0 THEN 0 ELSE (k % 10) + f[k \div 10]
  <2>1. CASE k = 0  BY <1>1, <2>1 DEF Sums
  <2>2. CASE k # 0
    <3>1. k \div 10 \in Nat /\ k \div 10 <= k  BY <2>2, Tenth
    <3>2. S(k)[k \div 10] = S(k \div 10)[k \div 10]  BY <1>1, <3>1, OneSum
    <3>3. k \in 0 .. k  OBVIOUS
    <3>4. S(k)[k] = (k % 10) + S(k)[k \div 10]  BY <1>1, <2>2, <3>3 DEF Sums
    <3> QED  BY <2>2, <3>1, <3>2, <3>4
  <2> QED  BY <2>1, <2>2
<1>4. f = [k \in Nat |-> IF k = 0 THEN 0 ELSE (k % 10) + f[k \div 10]]  BY <1>3
<1>5. DigitSum = [k \in Nat |-> IF k = 0 THEN 0 ELSE (k % 10) + DigitSum[k \div 10]]
  BY <1>4 DEF DigitSum
<1>6. ASSUME NEW k \in Nat PROVE DigitSum[k] = f[k]
  <2> DEFINE T == {j \in Nat : DigitSum[j] # f[j]}
  <2> SUFFICES ASSUME T # {} PROVE FALSE
    OBVIOUS
  <2>1. PICK j \in T : \A i \in T : j <= i  BY Least
  <2>2. DigitSum[j] = IF j = 0 THEN 0 ELSE (j % 10) + DigitSum[j \div 10]  BY <1>5
  <2>3. f[j] = IF j = 0 THEN 0 ELSE (j % 10) + f[j \div 10]  BY <1>4
  <2>4. j # 0  BY <2>1, <2>2, <2>3
  <2>5. j \div 10 \in Nat /\ j \div 10 < j  BY <2>4, Tenth
  <2>6. DigitSum[j \div 10] = f[j \div 10]  BY <2>1, <2>5
  <2> QED  BY <2>1, <2>2, <2>3, <2>6
<1>7. f \in [Nat -> Nat]  BY <1>2
<1> DEFINE r(k) == IF k = 0 THEN 0 ELSE (k % 10) + DigitSum[k \div 10]
<1>8. DigitSum = [k \in Nat |-> r(k)]  BY <1>5
<1> HIDE DEF r
<1>9. \A k \in Nat : r(k) \in Nat  BY <1>6, <1>7, <1>8
<1> QED  BY <1>8, <1>9

-----------------------------------------------------------------------------
\* What a sequence holds after Append.
LEMMA AppendPlaces ==
  ASSUME NEW S, NEW q \in Seq(S), NEW e \in S, NEW j \in DOMAIN Append(q, e)
  PROVE  \/ j \in DOMAIN q /\ Append(q, e)[j] = q[j]
         \/ Append(q, e)[j] = e
<1>1. PICK l \in Nat : l = Len(q)  OBVIOUS
<1>2. j \in 1 .. l + 1 /\ DOMAIN q = 1 .. l  BY <1>1
<1>3. j = l + 1 \/ j \in 1 .. l  BY <1>2
<1>4. Append(q, e)[l + 1] = e  BY <1>1
<1>5. ASSUME j \in 1 .. l PROVE Append(q, e)[j] = q[j]  BY <1>1, <1>5
<1> QED  BY <1>2, <1>3, <1>4, <1>5

\* A number below IpNum * PortNum has one address and one port.
LEMMA PlaceOf ==
  ASSUME NEW a \in Nat, NEW b \in Nat, a < IpNum
  PROVE  /\ (a + b * IpNum) % IpNum = a
         /\ (a + b * IpNum) \div IpNum = b
<1>1. IpNum \in Nat \ {0} /\ b * IpNum \in Nat  BY RoutingAssumption
<1>2. PICK q \in Int, r \in 0 .. IpNum - 1 :
        /\ q = (a + b * IpNum) \div IpNum /\ r = (a + b * IpNum) % IpNum
        /\ a + b * IpNum = IpNum * q + r
  BY <1>1
<1>3. IpNum * (b - q) = r - a  BY <1>1, <1>2
<1>4. b - q < 1
  <2>1. SUFFICES ASSUME b - q >= 1 PROVE FALSE  BY <1>2
  <2>2. IpNum * (b - q) >= IpNum  BY <1>1, <2>1
  <2> QED  BY <1>1, <1>2, <1>3, <2>2
<1>5. b - q > -1
  <2>1. SUFFICES ASSUME b - q <= -1 PROVE FALSE  BY <1>2
  <2>2. IpNum * (b - q) <= -IpNum  BY <1>1, <2>1
  <2> QED  BY <1>1, <1>2, <1>3, <2>2
<1>6. b = q  BY <1>2, <1>4, <1>5
<1> QED  BY <1>1, <1>2, <1>6

\* What is below a bound that fits a uint16_t fits as well.
LEMMA Fits ==
  ASSUME NEW m \in Int, m < 65536, NEW y \in 0 .. m - 1
  PROVE  y % 65536 = y
<1>1. y \in Int /\ 0 <= y /\ y < 65536  OBVIOUS
<1> QED  BY <1>1

\* The server that a backend connects to is the one it was told: the place
\* that get_redis_raw computes fits the order of its constructor's loops.
THEOREM ConnectsToChosen ==
  ASSUME NEW s \in Server
  PROVE  Connect(s) = s
<1> DEFINE a == s[1]
           b == s[2]
           x == a + b * IpNum
<1>1. /\ IpNum \in Nat \ {0} /\ PortNum \in Nat \ {0} /\ IpNum * PortNum < 65536
      /\ a \in 0 .. IpNum - 1 /\ b \in 0 .. PortNum - 1 /\ s = <<a, b>>
  BY RoutingAssumption DEF Server, AnyIp, AnyPort
<1>2. b * IpNum <= (PortNum - 1) * IpNum  BY <1>1
<1>3. (PortNum - 1) * IpNum = IpNum * PortNum - IpNum  BY <1>1
<1>4. x \in 0 .. IpNum * PortNum - 1
  <2>1. b * IpNum \in Nat /\ IpNum * PortNum \in Nat  BY <1>1
  <2> HIDE DEF a, b
  <2> QED  BY <1>1, <1>2, <1>3, <2>1
<1>5. TotalIndex(s) = x
  <2>1. x % 65536 = x  BY <1>1, <1>4, Fits
  <2> QED  BY <2>1 DEF TotalIndex
<1>6. x % IpNum = a /\ x \div IpNum = b
  <2> HIDE DEF a, b
  <2> QED  BY <1>1, PlaceOf
<1> QED  BY <1>1, <1>4, <1>5, <1>6 DEF Connect, vec_redis_server_, Place
-----------------------------------------------------------------------------
\* get_ip_port chooses an address and a port of the configuration.
LEMMA GetIpPortServer ==
  ASSUME select_type \in SelectTypes, NEW k \in Key
  PROVE  GetIpPort(k) \subseteq Server
<1>1. /\ IpNum \in Nat \ {0} /\ PortNum \in Nat \ {0} /\ k \in Nat
      /\ DigitSum[k] \in Nat
      /\ select_type \in {5, 6} => IpNum >= 6
  BY RoutingAssumption, DigitSumType
<1>2. IpIndex(k) \subseteq AnyIp
  <2>1. (k % 12) \div 2 \in 0 .. 5 /\ ((k \div 10) % 24) \div 4 \in 0 .. 5  BY <1>1
  <2>2. \A x \in Nat : x % IpNum \in AnyIp  BY <1>1 DEF AnyIp
  <2>3. k \div 4 \in Nat /\ k \div 10 \in Nat /\ 0 \in AnyIp  BY <1>1 DEF AnyIp
  <2>4. IpNum >= 6 => 0 .. 5 \subseteq AnyIp  BY <1>1 DEF AnyIp
  <2> QED  BY <1>1, <2>1, <2>2, <2>3, <2>4 DEF IpIndex
<1>3. PortIndex(k) \subseteq AnyPort
  <2>1. \A x \in Nat : x % PortNum \in AnyPort  BY <1>1 DEF AnyPort
  <2>2. k \div IpNum \in Nat /\ 0 \in AnyPort  BY <1>1 DEF AnyPort
  <2> QED  BY <1>1, <2>1, <2>2 DEF PortIndex
<1> QED  BY <1>2, <1>3 DEF GetIpPort, Server

\* gets_ip_port chooses one as well, and for the types that both switches
\* treat alike it is one that get_ip_port may choose.
LEMMA ServerOfServer ==
  ASSUME dice \in Server, NEW k \in Key
  PROVE  ServerOf(k) \in Server /\ (Agreed => ServerOf(k) \in GetIpPort(k))
<1>1. IpNum \in Nat \ {0} /\ PortNum \in Nat \ {0} /\ k \in Nat
  BY RoutingAssumption
<1>2. /\ k % IpNum \in AnyIp /\ k % PortNum \in AnyPort
      /\ (k \div IpNum) % PortNum \in AnyPort /\ 0 \in AnyIp /\ 0 \in AnyPort
  BY <1>1 DEF AnyIp, AnyPort
<1>3. dice \in AnyIp \X AnyPort /\ dice[1] \in AnyIp /\ dice[2] \in AnyPort
  BY DEF Server
<1>4. ServerOf(k) \in Server  BY <1>2, <1>3 DEF ServerOf, Server
<1>5. ASSUME Agreed PROVE ServerOf(k) \in GetIpPort(k)
  BY <1>2, <1>3, <1>5 DEF ServerOf, GetIpPort, IpIndex, PortIndex, Agreed
<1> QED  BY <1>4, <1>5

\* Routing is type-correct: no call leaves the grid of servers.
THEOREM TypeCorrect == Spec => []TypeOK
<1>1. Init => TypeOK
  BY RoutingAssumption DEF Init, TypeOK, Server, AnyIp, AnyPort
<1>2. TypeOK /\ [Next]_vars => TypeOK'
  <2> SUFFICES ASSUME TypeOK, [Next]_vars PROVE TypeOK'
    OBVIOUS
  <2> USE DEF TypeOK
  <2>1. CASE Set
    <3>1. PICK k \in Key : \E s \in GetIpPort(k) :
            stored' = [stored EXCEPT ![Connect(s)] = @ \cup {k}] /\ keys' = <<k>>
      BY <2>1 DEF Set
    <3>2. stored' \in [Server -> SUBSET Key]  BY <3>1
    <3>3. sets' \in 0 .. MaxSets  BY <2>1, RoutingAssumption DEF Set
    <3>4. keys' \in Seq(Key) /\ Len(keys') = 1
      <4>1. keys' = <<k>>  BY <3>1
      <4> QED  BY <4>1
    <3>5. n' \in 1 .. Len(keys') + 1  BY <2>1, <3>4 DEF Set
    <3>6. /\ map_ip_port' = <<>> /\ found' = {} /\ pc' = "set"
          /\ select_type' = select_type /\ dice' = dice
      BY <2>1 DEF Set
    <3> QED  BY <3>2, <3>3, <3>4, <3>5, <3>6
  <2>2. CASE Get
    <3>1. PICK k \in Key : \E s \in GetIpPort(k) :
            keys' = <<k>> /\ found' = {k} \cap stored[Connect(s)]
      BY <2>2 DEF Get
    <3>2. found' \subseteq Key /\ keys' \in Seq(Key) /\ Len(keys') = 1
      <4>1. PICK s \in GetIpPort(k) : keys' = <<k>> /\ found' = {k} \cap stored[Connect(s)]
        BY <3>1
      <4> QED  BY <4>1
    <3>3. n' \in 1 .. Len(keys') + 1  BY <2>2, <3>2 DEF Get
    <3> QED  BY <2>2, <3>2, <3>3 DEF Get
  <2>3. CASE Mget
    <3>1. keys' \in Seq(Key) /\ dice' \in Server
      <4>1. PICK m \in 0 .. MaxKeys : keys' \in [1 .. m -> Key]  BY <2>3 DEF Mget
      <4>2. 0 \in AnyIp /\ 0 \in AnyPort  BY RoutingAssumption DEF AnyIp, AnyPort
      <4>3. dice' \in Server  BY <2>3, <4>2 DEF Mget, Server
      <4> QED  BY <4>1, <4>3, RoutingAssumption
    <3>2. DOMAIN map_ip_port' \subseteq {dice'} /\ \A s \in DOMAIN map_ip_port' : map_ip_port'[s] = <<>>
      BY <2>3 DEF Mget
    <3>3. n' \in 1 .. Len(keys') + 1  BY <2>3, <3>1 DEF Mget
    <3> QED  BY <2>3, <3>1, <3>2, <3>3 DEF Mget
  <2>4. CASE Group
    <3> DEFINE s == ServerOf(keys[n])
    <3>1. n \in DOMAIN keys /\ keys[n] \in Key  BY <2>4 DEF Group
    <3>2. s \in Server  BY <3>1, ServerOfServer
    <3> HIDE DEF s
    <3>3. DOMAIN map_ip_port' = DOMAIN map_ip_port \cup {s}
      BY <2>4 DEF Group, Grouped, s
    <3>4. \A x \in DOMAIN map_ip_port' : map_ip_port'[x] \in Seq(Key)
      <4> SUFFICES ASSUME NEW x \in DOMAIN map_ip_port' PROVE map_ip_port'[x] \in Seq(Key)
        OBVIOUS
      <4>1. CASE x # s
        <5>1. map_ip_port'[x] = map_ip_port[x] /\ x \in DOMAIN map_ip_port
          BY <2>4, <3>3, <4>1 DEF Group, Grouped, s
        <5> QED  BY <5>1
      <4>2. CASE x = s /\ s \in DOMAIN map_ip_port
        <5>1. map_ip_port'[x] = Append(map_ip_port[s], keys[n])
          BY <2>4, <4>2 DEF Group, Grouped, s
        <5>2. map_ip_port[s] \in Seq(Key)  BY <4>2
        <5> QED  BY <3>1, <5>1, <5>2
      <4>3. CASE x = s /\ s \notin DOMAIN map_ip_port
        <5>1. map_ip_port'[x] = <<keys[n]>>
          BY <2>4, <4>3 DEF Group, Grouped, s
        <5> QED  BY <3>1, <5>1
      <4> QED  BY <4>1, <4>2, <4>3
    <3>5. n' \in 1 .. Len(keys') + 1  BY <2>4 DEF Group
    <3> QED  BY <2>4, <3>2, <3>3, <3>4, <3>5 DEF Group
  <2>5. CASE SplitDone  BY <2>5 DEF SplitDone
  <2>6. CASE Ask
    <3>1. \A s \in DOMAIN map_ip_port : \A j \in DOMAIN map_ip_port[s] : map_ip_port[s][j] \in Key
      OBVIOUS
    <3>2. found' \subseteq Key  BY <2>6, <3>1 DEF Ask
    <3> QED  BY <2>6, <3>2 DEF Ask
  <2>7. CASE UNCHANGED vars  BY <2>7 DEF vars
  <2> QED  BY <2>1, <2>2, <2>3, <2>4, <2>5, <2>6, <2>7 DEF Next
<1> QED  BY <1>1, <1>2, PTL DEF Spec

\* No value is on a server that the rule of its key excludes.
THEOREM Stored == Spec => []StoredByRule
<1>1. Init => StoredByRule  BY DEF Init, StoredByRule
<1>2. TypeOK /\ StoredByRule /\ [Next]_vars => StoredByRule'
  <2> SUFFICES ASSUME TypeOK, StoredByRule, [Next]_vars PROVE StoredByRule'
    OBVIOUS
  <2>1. select_type' = select_type
    BY DEF Next, Set, Get, Mget, Group, SplitDone, Ask, vars
  <2>2. \A k : GetIpPort(k)' = GetIpPort(k)
    BY <2>1 DEF GetIpPort, IpIndex, PortIndex
  <2>3. CASE Set
    <3>1. PICK k \in Key : \E s \in GetIpPort(k) :
            stored' = [stored EXCEPT ![Connect(s)] = @ \cup {k}]
      BY <2>3 DEF Set
    <3>4. PICK s \in GetIpPort(k) : stored' = [stored EXCEPT ![Connect(s)] = @ \cup {k}]
      BY <3>1
    <3>2. s \in Server  BY <3>4, GetIpPortServer DEF TypeOK
    <3>3. Connect(s) = s  BY <3>2, ConnectsToChosen
    <3> QED  BY <2>2, <3>4, <3>2, <3>3 DEF TypeOK, StoredByRule
  <2>4. CASE UNCHANGED stored  BY <2>2, <2>4 DEF StoredByRule
  <2> QED  BY <2>3, <2>4 DEF Next, Get, Mget, Group, SplitDone, Ask, vars
<1> QED  BY <1>1, <1>2, TypeCorrect, PTL DEF Spec

\* mget asks a server for a key only if get would ask it too, for the types
\* that both switches treat alike.
THEOREM MgetAgrees == Spec => []MgetAsksWhereGetAsks
<1> DEFINE Inv == Agreed => AsksByRule
<1>1. Init => Inv  BY DEF Init, AsksByRule
<1>2. TypeOK /\ Inv /\ [Next]_vars => Inv'
  <2> SUFFICES ASSUME TypeOK, Inv, [Next]_vars, Agreed' PROVE AsksByRule'
    OBVIOUS
  <2>1. select_type' = select_type
    BY DEF Next, Set, Get, Mget, Group, SplitDone, Ask, vars
  <2>2. \A k : GetIpPort(k)' = GetIpPort(k)
    BY <2>1 DEF GetIpPort, IpIndex, PortIndex
  <2>3. Agreed /\ AsksByRule  BY <2>1 DEF Agreed
  <2>4. CASE Set \/ Get  BY <2>4 DEF Set, Get, AsksByRule
  <2>5. CASE Mget  BY <2>5 DEF Mget, AsksByRule
  <2>6. CASE Group
    <3> DEFINE s == ServerOf(keys[n])
    <3>1. n \in DOMAIN keys /\ keys[n] \in Key  BY <2>6 DEF Group, TypeOK
    <3>2. s \in GetIpPort(keys[n])  BY <2>3, <3>1, ServerOfServer DEF TypeOK
    <3> HIDE DEF s
    <3>3. SUFFICES ASSUME NEW x \in DOMAIN map_ip_port', NEW j \in DOMAIN map_ip_port'[x]
                   PROVE  x \in GetIpPort(map_ip_port'[x][j])
      BY <2>2, <3>3 DEF AsksByRule
    <3>4. CASE x # s
      BY <2>3, <2>6, <3>3, <3>4 DEF Group, Grouped, AsksByRule, s
    <3>5. CASE x = s /\ s \in DOMAIN map_ip_port
      <4>1. map_ip_port'[x] = Append(map_ip_port[s], keys[n])
        BY <2>6, <3>5 DEF Group, Grouped, s
      <4>2. map_ip_port[s] \in Seq(Key)  BY <3>5 DEF TypeOK
      <4>3. \/ j \in DOMAIN map_ip_port[s] /\ map_ip_port'[x][j] = map_ip_port[s][j]
            \/ map_ip_port'[x][j] = keys[n]
        <5>1. PICK q \in Seq(Key) : q = map_ip_port[s]  BY <4>2
        <5>2. PICK e \in Key : e = keys[n]  BY <3>1
        <5>3. map_ip_port'[x] = Append(q, e)  BY <4>1, <5>1, <5>2
        <5>4. j \in DOMAIN Append(q, e)  BY <3>3, <5>3
        <5>5. \/ j \in DOMAIN q /\ Append(q, e)[j] = q[j]
              \/ Append(q, e)[j] = e
          BY <5>4, AppendPlaces
        <5> QED  BY <5>1, <5>2, <5>3, <5>5
      <4> QED  BY <2>3, <3>2, <3>5, <4>3 DEF AsksByRule
    <3>6. CASE x = s /\ s \notin DOMAIN map_ip_port
      BY <2>6, <3>2, <3>3, <3>6 DEF Group, Grouped, s
    <3> QED  BY <3>4, <3>5, <3>6
  <2>7. CASE UNCHANGED map_ip_port  BY <2>2, <2>3, <2>7 DEF AsksByRule
  <2> QED  BY <2>4, <2>5, <2>6, <2>7 DEF Next, SplitDone, Ask, vars
<1>3. Inv => MgetAsksWhereGetAsks  BY DEF MgetAsksWhereGetAsks
<1> QED  BY <1>1, <1>2, <1>3, TypeCorrect, PTL DEF Spec
-----------------------------------------------------------------------------
\* What get_ip_port chooses is settled, for the types that draw nothing.
LEMMA HashedOnce ==
  ASSUME HashedByGet, NEW k \in Key, NEW s \in GetIpPort(k), NEW r \in GetIpPort(k)
  PROVE  s = r
<1>1. select_type = 3 \/ select_type > 9 \/ select_type \in {4, 7}
  BY DEF HashedByGet, HashedByBoth
<1>2. s[1] \in IpIndex(k) /\ r[1] \in IpIndex(k) /\ s[2] \in PortIndex(k) /\ r[2] \in PortIndex(k)
  BY DEF GetIpPort
<1>3. s = <<s[1], s[2]>> /\ r = <<r[1], r[2]>>  BY DEF GetIpPort
<1>4. s[1] = r[1]  BY <1>1, <1>2 DEF IpIndex
<1>5. s[2] = r[2]  BY <1>1, <1>2 DEF PortIndex
<1> QED  BY <1>3, <1>4, <1>5

\* get finds a key if and only if it was set, whatever else was, for the types
\* that draw nothing.
THEOREM GetFinds == Spec => []GetFindsWhatWasSet
<1>1. Init => GetFindsWhatWasSet  BY DEF Init, GetFindsWhatWasSet
<1>2. TypeOK /\ StoredByRule /\ GetFindsWhatWasSet /\ [Next]_vars => GetFindsWhatWasSet'
  <2> SUFFICES ASSUME TypeOK, StoredByRule, GetFindsWhatWasSet, [Next]_vars,
                      pc' = "get", HashedByGet'
               PROVE  (found = {keys[1]} <=> keys[1] \in AllStored)'
    BY DEF GetFindsWhatWasSet
  <2>1. select_type' = select_type
    BY DEF Next, Set, Get, Mget, Group, SplitDone, Ask, vars
  <2>2. HashedByGet  BY <2>1 DEF HashedByGet, HashedByBoth
  <2>3. CASE Get
    <3>1. PICK k \in Key : \E s \in GetIpPort(k) :
            keys' = <<k>> /\ found' = {k} \cap stored[Connect(s)]
      BY <2>3 DEF Get
    <3>2. PICK s \in GetIpPort(k) : keys' = <<k>> /\ found' = {k} \cap stored[Connect(s)]
      BY <3>1
    <3>3. s \in Server /\ Connect(s) = s  BY GetIpPortServer, ConnectsToChosen DEF TypeOK
    <3>4. stored' = stored /\ keys'[1] = k  BY <2>3, <3>2 DEF Get
    <3>5. \A r \in Server : k \in stored[r] => r = s
      BY <2>2, HashedOnce DEF StoredByRule
    <3>6. k \in AllStored <=> k \in stored[s]  BY <3>3, <3>5 DEF AllStored
    <3> QED  BY <3>2, <3>3, <3>4, <3>6 DEF AllStored
  <2>4. CASE UNCHANGED vars
    <3>1. pc = "get" /\ UNCHANGED <<found, keys, stored>>  BY <2>4 DEF vars
    <3> QED  BY <2>2, <3>1 DEF GetFindsWhatWasSet, AllStored
  <2> QED  BY <2>3, <2>4 DEF Next, Set, Mget, Group, SplitDone, Ask
<1> QED  BY <1>1, <1>2, TypeCorrect, Stored, PTL DEF Spec

\* One more key at the end of a group, from a place behind the others.
LEMMA InOrderAppend ==
  ASSUME NEW group \in Seq(Key), NEW places \in SUBSET (1 .. n - 1), n \in Nat,
         keys[n] \in Key, InOrder(group, places)
  PROVE  InOrder(Append(group, keys[n]), places \cup {n})
<1>1. PICK place \in [DOMAIN group -> places] :
        /\ \A i, j \in DOMAIN group : i < j => place[i] < place[j]
        /\ \A p \in places : \E j \in DOMAIN group : place[j] = p
        /\ \A j \in DOMAIN group : group[j] = keys[place[j]]
  BY DEF InOrder
<1>2. PICK l \in Nat : l = Len(group)  OBVIOUS
<1> DEFINE longer == Append(group, keys[n])
           reach  == [j \in 1 .. l + 1 |-> IF j = l + 1 THEN n ELSE place[j]]
<1>3. DOMAIN group = 1 .. l /\ DOMAIN longer = 1 .. l + 1  BY <1>2
<1>4. longer[l + 1] = keys[n] /\ \A j \in 1 .. l : longer[j] = group[j]  BY <1>2
<1>5. \A j \in 1 .. l + 1 : j = l + 1 \/ j \in 1 .. l  BY <1>2
<1>6. l + 1 \notin 1 .. l /\ l + 1 \in 1 .. l + 1 /\ \A j \in 1 .. l : j \in 1 .. l + 1
  BY <1>2
<1> HIDE DEF longer
<1>7. reach \in [DOMAIN longer -> places \cup {n}]  BY <1>1, <1>3, <1>5
<1>8. \A p \in places : p \in Int /\ p < n  OBVIOUS
<1>9. ASSUME NEW i \in DOMAIN longer, NEW j \in DOMAIN longer, i < j
      PROVE  reach[i] < reach[j]
  <2>1. i \in 1 .. l  BY <1>2, <1>3, <1>9
  <2>2. CASE j = l + 1  BY <1>1, <1>3, <1>6, <1>8, <2>1, <2>2
  <2>3. CASE j \in 1 .. l  BY <1>1, <1>3, <1>6, <1>9, <2>1, <2>3
  <2> QED  BY <1>3, <1>5, <2>2, <2>3
<1>10. \A p \in places \cup {n} : \E j \in DOMAIN longer : reach[j] = p
  BY <1>1, <1>3, <1>6
<1>11. \A j \in DOMAIN longer : longer[j] = keys[reach[j]]
  BY <1>1, <1>3, <1>4, <1>5, <1>6
<1> HIDE DEF reach
<1>12. InOrder(longer, places \cup {n})
  BY <1>7, <1>9, <1>10, <1>11 DEF InOrder
<1> QED  BY <1>12 DEF longer

\* The groups of the keys that the loop has passed.
SplitSoFar ==
  pc \in {"split", "ask"} =>
    /\ pc = "ask" => n = Len(keys) + 1
    /\ \A j \in 1 .. n - 1 : ServerOf(keys[j]) \in DOMAIN map_ip_port
    /\ \A s \in DOMAIN map_ip_port :
         InOrder(map_ip_port[s], {j \in 1 .. n - 1 : ServerOf(keys[j]) = s})

\* The loop adds each key to the end of the one group it belongs to.
LEMMA GroupKeeps ==
  ASSUME TypeOK, SplitSoFar, Group
  PROVE  SplitSoFar'
<1> DEFINE s == ServerOf(keys[n])
           passed(x) == {j \in 1 .. n - 1 : ServerOf(keys[j]) = x}
<1>1. /\ pc = "split" /\ n <= Len(keys) /\ n' = n + 1
      /\ map_ip_port' = Grouped(s, <<keys[n]>>)
      /\ UNCHANGED <<select_type, pc, keys, dice>>
  BY DEF Group
<1>2. /\ n \in Nat \ {0} /\ keys[n] \in Key
      /\ \A x \in DOMAIN map_ip_port : map_ip_port[x] \in Seq(Key)
  BY <1>1 DEF TypeOK
<1>3. /\ \A j \in 1 .. n - 1 : ServerOf(keys[j]) \in DOMAIN map_ip_port
      /\ \A x \in DOMAIN map_ip_port : InOrder(map_ip_port[x], passed(x))
  BY <1>1 DEF SplitSoFar
<1>4. /\ \A k : ServerOf(k)' = ServerOf(k)
      /\ \A group, places : InOrder(group, places)' = InOrder(group, places)
  BY <1>1 DEF ServerOf, InOrder
<1>5. 1 .. n' - 1 = (1 .. n - 1) \cup {n}  BY <1>1, <1>2
<1> HIDE DEF s
<1>6. DOMAIN map_ip_port' = DOMAIN map_ip_port \cup {s}  BY <1>1 DEF Grouped
<1>7. \A j \in 1 .. n' - 1 : ServerOf(keys[j]) \in DOMAIN map_ip_port'
  BY <1>3, <1>5, <1>6 DEF s
<1>8. ASSUME NEW x \in DOMAIN map_ip_port'
      PROVE  InOrder(map_ip_port'[x], {j \in 1 .. n' - 1 : ServerOf(keys[j]) = x})
  <2>1. CASE x # s
    <3>1. x \in DOMAIN map_ip_port /\ map_ip_port'[x] = map_ip_port[x]
      BY <1>1, <1>6, <2>1 DEF Grouped
    <3>2. {j \in 1 .. n' - 1 : ServerOf(keys[j]) = x} = passed(x)
      BY <1>5, <2>1 DEF s
    <3> QED  BY <1>3, <3>1, <3>2
  <2>2. CASE x = s
    <3>1. {j \in 1 .. n' - 1 : ServerOf(keys[j]) = x} = passed(x) \cup {n}
      BY <1>5, <2>2 DEF s
    <3>2. passed(x) \in SUBSET (1 .. n - 1)  OBVIOUS
    <3>3. CASE s \in DOMAIN map_ip_port
      <4>1. map_ip_port'[x] = Append(map_ip_port[s], keys[n])
        BY <1>1, <2>2, <3>3 DEF Grouped
      <4>2. map_ip_port[s] \in Seq(Key) /\ InOrder(map_ip_port[s], passed(x))
        BY <1>2, <1>3, <2>2, <3>3
      <4> HIDE DEF passed
      <4>3. InOrder(Append(map_ip_port[s], keys[n]), passed(x) \cup {n})
        BY <1>2, <3>2, <4>2, InOrderAppend
      <4> QED  BY <3>1, <4>1, <4>3
    <3>4. CASE s \notin DOMAIN map_ip_port
      <4>1. map_ip_port'[x] = <<keys[n]>>
        BY <1>1, <2>2, <3>4 DEF Grouped
      <4>2. passed(x) = {}  BY <1>3, <2>2, <3>4
      <4>3. InOrder(<<keys[n]>>, {n})
        <5> DEFINE q     == <<keys[n]>>
                   reach == [j \in {1} |-> n]
        <5>1. DOMAIN q = {1} /\ q[1] = keys[n]  OBVIOUS
        <5> HIDE DEF q
        <5>2. reach \in [DOMAIN q -> {n}]  BY <5>1
        <5>3. /\ \A i, j \in DOMAIN q : i < j => reach[i] < reach[j]
              /\ \A p \in {n} : \E j \in DOMAIN q : reach[j] = p
              /\ \A j \in DOMAIN q : q[j] = keys[reach[j]]
          BY <5>1
        <5> HIDE DEF reach
        <5>4. InOrder(q, {n})  BY <5>2, <5>3 DEF InOrder
        <5> QED  BY <5>4 DEF q
      <4> QED  BY <3>1, <4>1, <4>2, <4>3
    <3> QED  BY <3>3, <3>4
  <2> QED  BY <2>1, <2>2
<1> QED  BY <1>1, <1>4, <1>7, <1>8 DEF SplitSoFar

\* gets_ip_port splits the keys of an mget into the groups of one route, with
\* nothing left out and nothing out of order, whatever the keys and the type.
THEOREM Splitting == Spec => []GroupsSplitKeys
<1>1. Init => SplitSoFar  BY DEF Init, SplitSoFar
<1>2. TypeOK /\ SplitSoFar /\ [Next]_vars => SplitSoFar'
  <2> SUFFICES ASSUME TypeOK, SplitSoFar, [Next]_vars PROVE SplitSoFar'
    OBVIOUS
  <2>1. CASE Set \/ Get \/ Ask  BY <2>1 DEF Set, Get, Ask, SplitSoFar
  <2>2. CASE Mget
    <3>1. pc' = "split" /\ 1 .. n' - 1 = {}  BY <2>2 DEF Mget
    <3>2. \A s \in DOMAIN map_ip_port' : map_ip_port'[s] = <<>>  BY <2>2 DEF Mget
    <3>3. InOrder(<<>>, {})'
      <4>1. <<>> \in [DOMAIN <<>> -> {}] /\ DOMAIN <<>> = {}  OBVIOUS
      <4> QED  BY <4>1 DEF InOrder
    <3>4. \A s \in DOMAIN map_ip_port' :
            InOrder(map_ip_port[s], {j \in 1 .. n - 1 : ServerOf(keys[j]) = s})'
      BY <3>1, <3>2, <3>3
    <3> QED  BY <3>1, <3>4 DEF SplitSoFar
  <2>3. CASE Group  BY <2>3, GroupKeeps
  <2>4. ASSUME UNCHANGED <<select_type, keys, dice>>
        PROVE  /\ \A k : ServerOf(k)' = ServerOf(k)
               /\ \A group, places : InOrder(group, places)' = InOrder(group, places)
    BY <2>4 DEF ServerOf, InOrder
  <2>5. CASE SplitDone
    <3>1. /\ pc = "split" /\ pc' = "ask"
          /\ UNCHANGED <<select_type, keys, n, dice, map_ip_port>>
      BY <2>5 DEF SplitDone
    <3>2. n = Len(keys) + 1
      <4>1. PICK l \in Nat : l = Len(keys)  BY DEF TypeOK
      <4>2. n \in 1 .. l + 1 /\ n > l  BY <2>5, <4>1 DEF SplitDone, TypeOK
      <4>3. n = l + 1  BY <4>2
      <4> QED  BY <4>1, <4>3
    <3> QED  BY <2>4, <3>1, <3>2 DEF SplitSoFar
  <2>6. CASE UNCHANGED vars
    <3>1. UNCHANGED <<select_type, pc, keys, n, dice, map_ip_port>>  BY <2>6 DEF vars
    <3> QED  BY <2>4, <3>1 DEF SplitSoFar
  <2> QED  BY <2>1, <2>2, <2>3, <2>5, <2>6 DEF Next
<1>3. TypeOK /\ SplitSoFar => GroupsSplitKeys
  <2> SUFFICES ASSUME TypeOK, SplitSoFar, pc = "ask"
               PROVE  \E route \in [Key -> Server] :
                        /\ \A j \in DOMAIN keys : route[keys[j]] \in DOMAIN map_ip_port
                        /\ \A s \in DOMAIN map_ip_port :
                             InOrder(map_ip_port[s], {j \in DOMAIN keys : route[keys[j]] = s})
    BY DEF GroupsSplitKeys
  <2> DEFINE route == [k \in Key |-> ServerOf(k)]
  <2>1. route \in [Key -> Server]  BY ServerOfServer DEF TypeOK
  <2>2. DOMAIN keys = 1 .. n - 1 /\ \A j \in DOMAIN keys : keys[j] \in Key
    BY DEF TypeOK, SplitSoFar
  <2>3. \A j \in DOMAIN keys : route[keys[j]] = ServerOf(keys[j])  BY <2>2
  <2> HIDE DEF route
  <2>4. \A s : {j \in DOMAIN keys : route[keys[j]] = s} = {j \in 1 .. n - 1 : ServerOf(keys[j]) = s}
    BY <2>2, <2>3
  <2>5. \A j \in DOMAIN keys : route[keys[j]] \in DOMAIN map_ip_port
    BY <2>2, <2>3 DEF SplitSoFar
  <2>6. \A s \in DOMAIN map_ip_port : InOrder(map_ip_port[s], {j \in DOMAIN keys : route[keys[j]] = s})
    BY <2>4 DEF SplitSoFar
  <2> QED  BY <2>1, <2>5, <2>6
<1> QED  BY <1>1, <1>2, <1>3, TypeCorrect, PTL DEF Spec
=============================================================================
