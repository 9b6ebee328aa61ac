--------------------------- MODULE RedisMgetProofs ---------------------------
(***************************************************************************)
(* Proofs about RedisMget, for any number of buffers, servers and keys.    *)
(* Any key may be routed to any server, and any answer may come back.      *)
(***************************************************************************)
EXTENDS RedisMget, WellFoundedInduction, TLAPS

\* All windows together fit into the array.
Fits ==
  /\ num \in Nat /\ step \in Nat /\ index \in Nat \ {0}
  /\ num > 0 => num * step <= CompressNum

\* The loop over the groups, and window w begins after w - 1 whole windows.
Placed ==
  /\ DOMAIN base = Group
  /\ pc = "window" => index <= num + 1
  /\ pc = "advance" => index <= num
  /\ pc = "join" => index = num + 1
  /\ pc \in {"window", "advance"} => un_compress_index_ = (index - 1) * step
  /\ pc \in {"window", "advance", "join"} =>
       \A w \in Group :
         w < index \/ (pc = "advance" /\ w = index) => base[w] = (w - 1) * step

WindowInv == Fits /\ Placed

\* The limit of mget_i_multi is right: the windows of all groups fit.
LEMMA StepFits ==
  ASSUME NEW n \in Nat \ {0}
  PROVE  Step(n) \in Nat /\ n * Step(n) <= CompressNum
<1> USE RedisMgetAssumption DEF Step
<1>1. CompressNum \div n \in Nat /\ n * (CompressNum \div n) <= CompressNum
  OBVIOUS
<1>2. ASSUME ThreadNum <= CompressNum \div n
      PROVE  n * ThreadNum <= n * (CompressNum \div n)
  BY <1>2
<1>3. CASE CompressNum \div n < ThreadNum
  BY <1>1, <1>3
<1>4. CASE ~(CompressNum \div n < ThreadNum)
  <2>1. ThreadNum <= CompressNum \div n
    BY <1>1, <1>4
  <2>2. n * ThreadNum <= CompressNum
    BY <1>1, <1>2, <2>1
  <2> QED BY <1>4, <2>2
<1> QED BY <1>3, <1>4

\* Consecutive windows of the same size do not overlap.
LEMMA InOrder ==
  ASSUME NEW v \in Nat, NEW w \in Nat, NEW s \in Nat, v < w
  PROVE  (v - 1) * s + s <= (w - 1) * s
<1>1. (v - 1) * s + s = v * s
  OBVIOUS
<1>2. v <= w - 1
  OBVIOUS
<1>3. v * s <= (w - 1) * s
  BY <1>2
<1> QED BY <1>1, <1>3

LEMMA WindowInit == Init => WindowInv
BY RedisMgetAssumption DEF Init, WindowInv, Fits, Placed, Group

LEMMA WindowStep == WindowInv /\ [Next]_vars => WindowInv'
<1> SUFFICES ASSUME WindowInv, [Next]_vars PROVE WindowInv'
  OBVIOUS
<1> USE DEF WindowInv, Fits, Placed, Group
<1>1. CASE Call
  <2>1. PICK n \in 0 .. MaxServers :
          num' = n /\ step' = Step(n) /\ base' = [w \in 1 .. n |-> 0]
    BY <1>1 DEF Call
  <2>2. n \in Nat
    BY RedisMgetAssumption
  <2>3. step' \in Nat /\ (n > 0 => n * step' <= CompressNum)
    BY <2>1, <2>2, StepFits, RedisMgetAssumption DEF Step
  <2>4. pc' \in {"window", "visit"} /\ index' = 1 /\ un_compress_index_' = 0
    BY <1>1 DEF Call
  <2>5. un_compress_index_' = (index' - 1) * step'
    <3>1. \A s \in Nat : 0 = (1 - 1) * s
      OBVIOUS
    <3> HIDE DEF WindowInv
    <3> QED BY <2>3, <2>4, <3>1
  <2>6. num' \in Nat /\ (num' > 0 => num' * step' <= CompressNum)
    BY <2>1, <2>2, <2>3
  <2>7. DOMAIN base' = 1 .. num' /\ (\A w \in 1 .. num' : ~(w < index'))
    BY <2>1, <2>2, <2>4
  <2>8. Fits'
    BY <2>3, <2>4, <2>6
  <2>9. Placed'
    <3> HIDE DEF WindowInv, Fits
    <3>1. DOMAIN base' = Group' /\ \A w \in Group' : ~(w < index')
      BY <2>7
    <3>2. pc' # "advance" /\ pc' # "join" /\ index' <= num' + 1
      BY <2>1, <2>2, <2>4
    <3> QED BY <2>5, <3>1, <3>2
  <2> QED BY <2>8, <2>9
<1>2. CASE TakeWindow
  BY <1>2 DEF TakeWindow, pool, request
<1>3. CASE Advance
  <2>1. un_compress_index_' = (index - 1) * step + step
    BY <1>3 DEF Advance
  <2>2. (index - 1) * step + step = (index + 1 - 1) * step
    OBVIOUS
  <2>3. un_compress_index_' = (index' - 1) * step
    BY <1>3, <2>1, <2>2 DEF Advance
  <2>4. /\ pc = "advance" /\ pc' = "window" /\ index' = index + 1
        /\ UNCHANGED <<num, step, base>>
    BY <1>3 DEF Advance, request
  <2>5. \A w \in Group : w < index + 1 => base[w] = (w - 1) * step
    <3> SUFFICES ASSUME NEW w \in Group, w < index + 1
                 PROVE  base[w] = (w - 1) * step
      OBVIOUS
    <3>1. w < index \/ w = index
      OBVIOUS
    <3> QED BY <2>4, <3>1
  <2> QED BY <2>3, <2>4, <2>5
<1>4. CASE Launch
  BY <1>4 DEF Launch, pool, request
<1>5. CASE Join
  BY <1>5 DEF Join, pool, request
<1>6. ASSUME NEW w \in Group,
             FetchFails(w) \/ Fetch(w) \/ Skip(w) \/ Copy(w) \/ Corrupt(w) \/ Finish(w)
      PROVE  WindowInv'
  <2>1. UNCHANGED <<un_compress_index_, pc, request, index, base>>
    BY <1>6 DEF FetchFails, Fetch, Skip, Copy, Corrupt, Finish, pool
  <2> QED BY <2>1 DEF request
<1>7. CASE Serial
  <2>1. pc \in {"visit", "point", "bump"} /\ pc' \in {"visit", "point", "bump", "returned"}
    BY <1>7 DEF Serial, VisitFails, Visit, VisitSkip, VisitCopy, Point, Bump, VisitCorrupt,
       Leave, VisitReturn, Visiting
  <2>2. UNCHANGED <<request, base>> /\ (index' = index \/ index' = index + 1)
    BY <1>7 DEF Serial, VisitFails, Visit, VisitSkip, VisitCopy, Point, Bump, VisitCorrupt,
       Leave, VisitReturn
  <2> QED BY <2>1, <2>2 DEF request
<1>8. CASE UNCHANGED vars
  BY <1>8 DEF vars, pool, request
<1> QED BY <1>1, <1>2, <1>3, <1>4, <1>5, <1>6, <1>7, <1>8 DEF Next, Multi

LEMMA WindowInvApart == WindowInv => WindowsApart
<1> SUFFICES ASSUME WindowInv, pc = "join", NEW v \in Group, NEW w \in Group, v # w
             PROVE  base[v] + step <= base[w] \/ base[w] + step <= base[v]
  BY DEF WindowsApart
<1>1. v \in Nat /\ w \in Nat /\ step \in Nat
  BY DEF WindowInv, Fits, Placed, Group
<1>2. base[v] = (v - 1) * step /\ base[w] = (w - 1) * step
  BY DEF WindowInv, Fits, Placed, Group
<1>3. CASE v < w
  BY <1>1, <1>2, <1>3, InOrder
<1>4. CASE w < v
  BY <1>1, <1>2, <1>4, InOrder
<1> QED BY <1>1, <1>3, <1>4

LEMMA WindowInvInside == WindowInv => WindowsInside
<1> SUFFICES ASSUME WindowInv, pc = "join", NEW w \in Group
             PROVE  base[w] + step <= CompressNum
  BY DEF WindowsInside
<1>1. w \in Nat /\ num \in Nat /\ step \in Nat /\ w <= num /\ num > 0
  BY DEF WindowInv, Fits, Placed, Group
<1>2. base[w] = (w - 1) * step /\ num * step <= CompressNum
  BY <1>1 DEF WindowInv, Fits, Placed, Group
<1>3. (w - 1) * step + step <= (num + 1 - 1) * step
  BY <1>1, InOrder
<1> QED BY <1>1, <1>2, <1>3, RedisMgetAssumption

\* For every size of the array, of MGET_THREAD_NUM and of the request: the
\* windows of the pthreads do not overlap.
THEOREM Apart == Spec => []WindowsApart
BY WindowInit, WindowStep, WindowInvApart, PTL DEF Spec

\* ... and lie inside the array: no pthread writes outside un_compress_.
THEOREM Inside == Spec => []WindowsInside
BY WindowInit, WindowStep, WindowInvInside, PTL DEF Spec

-----------------------------------------------------------------------------
(* The values. *)

\* What the pthreads have copied stays in their windows: a value found in
\* window w is behind everything w still writes.
WorkersOK ==
  /\ DOMAIN vec_result = Group /\ DOMAIN un_compress_index = Group
  /\ \A w \in Group : un_compress_index[w] \in 0 .. step
  /\ pc \in {"window", "advance"} => \A w \in Group : DOMAIN vec_result[w] = {}
  /\ pc = "join" =>
       \A w \in Group : \A k \in DOMAIN vec_result[w] :
         /\ vec_result[w][k] \in Nat
         /\ base[w] <= vec_result[w][k]
         /\ vec_result[w][k] < base[w] + un_compress_index[w]
         /\ un_compress_[vec_result[w][k]] = k

\* What mget_i has copied is below un_compress_index_.
VisitOK ==
  /\ pc \in {"visit", "point", "bump"} =>
       /\ un_compress_index_ \in Nat
       /\ \A k \in DOMAIN map_result :
            /\ map_result[k] \in Nat /\ map_result[k] < un_compress_index_
            /\ un_compress_[map_result[k]] = k
  /\ pc \in {"point", "bump"} => un_compress_[un_compress_index_] = groups[Here][i[Here]]
  /\ pc = "bump" => p_result = un_compress_index_

ValueInv ==
  /\ WindowInv
  /\ DOMAIN un_compress_ = Buffer
  /\ pc = "ready" => DOMAIN map_result = {}
  /\ WorkersOK /\ VisitOK /\ OwnValue

LEMMA ValueInit == Init => ValueInv
BY WindowInit, RedisMgetAssumption DEF Init, ValueInv, WorkersOK, VisitOK, OwnValue, Group,
   NoResult, Buffer

\* A step of the pthread of group w.
LEMMA ValueWorker ==
  ASSUME ValueInv, NEW w \in Group,
         FetchFails(w) \/ Fetch(w) \/ Skip(w) \/ Copy(w) \/ Corrupt(w) \/ Finish(w)
  PROVE  ValueInv'
<1>1. /\ UNCHANGED <<un_compress_index_, pc, num, groups, step, index, base, map_result>>
      /\ Group' = Group /\ pc = "join"
  BY DEF FetchFails, Fetch, Skip, Copy, Corrupt, Finish, Copying, pool, request, Group
<1>2. WindowInv'
  BY WindowStep DEF ValueInv, Next, Multi
<1>3. VisitOK' /\ OwnValue' /\ (pc = "ready" => DOMAIN map_result = {})'
  BY <1>1 DEF VisitOK, OwnValue
<1>4. WorkersOK /\ DOMAIN un_compress_ = Buffer /\ WindowsApart /\ step \in Nat
      /\ (\A v \in Group : base[v] \in Nat) /\ pc = "join"
  <2>1. WorkersOK /\ DOMAIN un_compress_ = Buffer /\ WindowInv
    BY DEF ValueInv
  <2>2. WindowsApart
    BY <2>1, WindowInvApart
  <2>3. \A v \in Group : base[v] \in Nat
    <3> SUFFICES ASSUME NEW v \in Group PROVE base[v] \in Nat
      OBVIOUS
    <3>1. v - 1 \in Nat /\ step \in Nat /\ base[v] = (v - 1) * step
      BY <1>1, <2>1 DEF WindowInv, Fits, Placed, Group
    <3> QED BY <3>1
  <2> QED BY <1>1, <2>1, <2>2, <2>3 DEF WindowInv, Fits
<1>5. CASE UNCHANGED <<un_compress_, un_compress_index, vec_result>>
  BY <1>1, <1>2, <1>3, <1>4, <1>5 DEF ValueInv, WorkersOK
<1>6. CASE Copy(w)
  <2> DEFINE b == base[w] + un_compress_index[w]
             k == groups[w][i[w]]
  <2>1. /\ un_compress_' = [un_compress_ EXCEPT ![b] = k]
        /\ vec_result' = [vec_result EXCEPT ![w] = Insert(vec_result[w], k, b)]
        /\ un_compress_index' = [un_compress_index EXCEPT ![w] = un_compress_index[w] + 1]
        /\ un_compress_index[w] < step
    BY <1>6 DEF Copy
  <2>2. un_compress_index[w] \in Nat /\ b \in Nat /\ b < base[w] + step /\ b < CompressNum
    <3>1. un_compress_index[w] \in Nat /\ b \in Nat /\ b < base[w] + step
      BY <1>4, <2>1 DEF WorkersOK
    <3>2. base[w] + step <= CompressNum
      BY <1>4, WindowInvInside DEF ValueInv, WindowsInside
    <3> QED BY <1>4, <3>1, <3>2, RedisMgetAssumption
  <2>3. b \in Buffer
    BY <2>2, RedisMgetAssumption DEF Buffer
  <2>4. un_compress_'[b] = k /\ (\A c \in Buffer : c # b => un_compress_'[c] = un_compress_[c])
        /\ DOMAIN un_compress_' = Buffer
    BY <1>4, <2>1, <2>3
  <2>5. ASSUME NEW v \in Group, NEW l \in DOMAIN vec_result[v]
        PROVE  /\ vec_result[v][l] # b
               /\ un_compress_'[vec_result[v][l]] = l
    <3>1. /\ vec_result[v][l] \in Nat /\ base[v] <= vec_result[v][l]
          /\ vec_result[v][l] < base[v] + un_compress_index[v]
          /\ un_compress_[vec_result[v][l]] = l
          /\ un_compress_index[v] \in Nat /\ un_compress_index[v] <= step
      BY <1>4 DEF WorkersOK
    <3>2. vec_result[v][l] # b
      <4>1. CASE v = w
        BY <1>4, <2>2, <3>1, <4>1
      <4>2. CASE v # w
        <5>1. base[v] + step <= base[w] \/ base[w] + step <= base[v]
          BY <1>4, <4>2 DEF WindowsApart
        <5> QED BY <1>4, <2>2, <3>1, <5>1
      <4> QED BY <4>1, <4>2
    <3>3. vec_result[v][l] \in Buffer
      <4>1. base[v] + step <= CompressNum
        BY <1>4, WindowInvInside DEF ValueInv, WindowsInside
      <4> QED BY <1>4, <3>1, <4>1, RedisMgetAssumption DEF Buffer
    <3> QED BY <2>4, <3>1, <3>2, <3>3
  <2>6. ASSUME NEW v \in Group, NEW l \in DOMAIN vec_result'[v]
        PROVE  /\ vec_result'[v][l] \in Nat /\ base[v] <= vec_result'[v][l]
               /\ vec_result'[v][l] < base[v] + un_compress_index'[v]
               /\ un_compress_'[vec_result'[v][l]] = l
    <3>1. CASE v = w
      <4>1. vec_result'[v] = Insert(vec_result[w], k, b)
        BY <1>4, <2>1, <3>1 DEF WorkersOK
      <4>2. un_compress_index'[v] = un_compress_index[w] + 1
        BY <1>4, <2>1, <3>1 DEF WorkersOK
      <4>3. CASE l \in DOMAIN vec_result[w]
        <5>1. vec_result'[v][l] = vec_result[w][l]
          BY <4>1, <4>3 DEF Insert
        <5>2. /\ vec_result[w][l] \in Nat /\ base[w] <= vec_result[w][l]
              /\ vec_result[w][l] < base[w] + un_compress_index[w]
          BY <1>4, <4>3 DEF WorkersOK
        <5>3. un_compress_'[vec_result[w][l]] = l
          BY <2>5, <4>3
        <5> QED BY <1>4, <2>2, <3>1, <4>2, <5>1, <5>2, <5>3
      <4>4. CASE l \notin DOMAIN vec_result[w]
        <5>1. l = k /\ vec_result'[v][l] = b
          BY <4>1, <4>4 DEF Insert
        <5> QED BY <1>4, <2>2, <2>4, <3>1, <4>2, <5>1
      <4> QED BY <4>3, <4>4
    <3>2. CASE v # w
      <4>1. vec_result'[v] = vec_result[v] /\ un_compress_index'[v] = un_compress_index[v]
        BY <1>4, <2>1, <3>2 DEF WorkersOK
      <4>2. un_compress_'[vec_result[v][l]] = l
        BY <2>5, <4>1
      <4> QED BY <1>4, <4>1, <4>2 DEF WorkersOK
    <3> QED BY <3>1, <3>2
  <2>7. DOMAIN vec_result' = Group /\ DOMAIN un_compress_index' = Group
    BY <1>4, <2>1 DEF WorkersOK
  <2>8. \A v \in Group : un_compress_index'[v] \in 0 .. step
    BY <1>4, <2>1, <2>2 DEF WorkersOK
  <2> HIDE DEF b, k
  <2>9. WorkersOK'
    BY <1>1, <2>6, <2>7, <2>8 DEF WorkersOK
  <2> QED BY <1>2, <1>3, <2>4, <2>9 DEF ValueInv
<1>7. CASE Corrupt(w)
  <2> DEFINE b == base[w] + un_compress_index[w]
  <2>1. /\ un_compress_' = [un_compress_ EXCEPT ![b] = Garbage]
        /\ UNCHANGED <<vec_result, un_compress_index>>
        /\ un_compress_index[w] < step
    BY <1>7 DEF Corrupt
  <2>2. un_compress_index[w] \in Nat /\ b \in Nat /\ b < base[w] + step
    BY <1>4, <2>1 DEF WorkersOK
  <2>3. ASSUME NEW v \in Group, NEW l \in DOMAIN vec_result[v]
        PROVE  un_compress_'[vec_result[v][l]] = l
    <3>1. /\ vec_result[v][l] \in Nat /\ base[v] <= vec_result[v][l]
          /\ vec_result[v][l] < base[v] + un_compress_index[v]
          /\ un_compress_[vec_result[v][l]] = l
          /\ un_compress_index[v] \in Nat /\ un_compress_index[v] <= step
      BY <1>4 DEF WorkersOK
    <3>2. vec_result[v][l] # b
      <4>1. CASE v = w
        BY <1>4, <2>2, <3>1, <4>1
      <4>2. CASE v # w
        <5>1. base[v] + step <= base[w] \/ base[w] + step <= base[v]
          BY <1>4, <4>2 DEF WindowsApart
        <5> QED BY <1>4, <2>2, <3>1, <5>1
      <4> QED BY <4>1, <4>2
    <3>3. vec_result[v][l] \in Buffer
      <4>1. base[v] + step <= CompressNum
        BY <1>4, WindowInvInside DEF ValueInv, WindowsInside
      <4> QED BY <1>4, <3>1, <4>1, RedisMgetAssumption DEF Buffer
    <3> QED BY <1>4, <2>1, <3>1, <3>2, <3>3
  <2>4. DOMAIN un_compress_' = Buffer
    BY <1>4, <2>1
  <2>5. WorkersOK'
    BY <1>1, <1>4, <2>1, <2>3 DEF WorkersOK
  <2> QED BY <1>2, <1>3, <2>4, <2>5 DEF ValueInv
<1> QED
  BY <1>5, <1>6, <1>7 DEF FetchFails, Fetch, Skip, Finish, pool

\* A step of mget_i.
LEMMA ValueSerial ==
  ASSUME ValueInv, Serial
  PROVE  ValueInv'
<1>1. WindowInv'
  BY WindowStep DEF ValueInv, Next
<1>2. /\ pc \in {"visit", "point", "bump"} /\ pc' \in {"visit", "point", "bump", "returned"}
      /\ UNCHANGED <<num, groups, step, vec_result, un_compress_index>>
  BY DEF Serial, VisitFails, Visit, VisitSkip, VisitCopy, Point, Bump, VisitCorrupt, Leave,
     VisitReturn, Visiting, request, worker
<1>3. /\ DOMAIN un_compress_ = Buffer /\ un_compress_index_ \in Nat
      /\ \A k \in DOMAIN map_result :
           /\ map_result[k] \in Nat /\ map_result[k] < un_compress_index_
           /\ un_compress_[map_result[k]] = k
  BY <1>2 DEF ValueInv, VisitOK
<1>4. WorkersOK'
  BY <1>2 DEF ValueInv, WorkersOK, Group
<1>5. CASE VisitFails \/ Visit \/ VisitSkip \/ Leave \/ VisitReturn
  <2>1. UNCHANGED <<un_compress_index_, un_compress_, map_result>> /\ pc = "visit"
        /\ pc' \in {"visit", "returned"}
    BY <1>5 DEF VisitFails, Visit, VisitSkip, Leave, VisitReturn, Visiting, pool
  <2> QED BY <1>1, <1>3, <1>4, <2>1 DEF ValueInv, VisitOK, OwnValue
<1>6. CASE VisitCopy
  <2>1. /\ un_compress_' = [un_compress_ EXCEPT ![un_compress_index_] = groups[Here][i[Here]]]
        /\ pc' = "point" /\ un_compress_index_ < CompressNum
        /\ UNCHANGED <<un_compress_index_, groups, index, i, map_result>>
    BY <1>6 DEF VisitCopy, request, worker
  <2>2. un_compress_index_ \in Buffer
    BY <1>3, <2>1, RedisMgetAssumption DEF Buffer
  <2>3. \A k \in DOMAIN map_result : un_compress_'[map_result[k]] = k
    <3> SUFFICES ASSUME NEW k \in DOMAIN map_result PROVE un_compress_'[map_result[k]] = k
      OBVIOUS
    <3>1. map_result[k] \in Buffer /\ map_result[k] # un_compress_index_
      BY <1>3, <2>1, RedisMgetAssumption DEF Buffer
    <3> QED BY <1>3, <2>1, <3>1
  <2>4. un_compress_'[un_compress_index_] = groups[Here][i[Here]] /\ DOMAIN un_compress_' = Buffer
    BY <1>3, <2>1, <2>2
  <2>5. VisitOK'
    BY <1>3, <2>1, <2>3, <2>4 DEF VisitOK, Here
  <2> QED BY <1>1, <1>4, <2>1, <2>4, <2>5 DEF ValueInv, OwnValue
<1>7. CASE Point
  <2>1. /\ pc = "point" /\ pc' = "bump" /\ p_result' = un_compress_index_
        /\ UNCHANGED <<un_compress_index_, un_compress_, groups, index, i, map_result>>
    BY <1>7 DEF Point, pool, request, worker
  <2>2. VisitOK'
    BY <2>1 DEF ValueInv, VisitOK, Here
  <2> QED BY <1>1, <1>3, <1>4, <2>1, <2>2 DEF ValueInv, OwnValue
<1>8. CASE Bump
  <2> DEFINE k == groups[Here][i[Here]]
  <2>1. /\ pc = "bump" /\ pc' = "visit" /\ un_compress_index_' = un_compress_index_ + 1
        /\ map_result' = Insert(map_result, k, p_result) /\ un_compress_' = un_compress_
    BY <1>8 DEF Bump
  <2>2. p_result = un_compress_index_ /\ un_compress_[p_result] = k
    BY <2>1 DEF ValueInv, VisitOK
  <2>3. \A l \in DOMAIN map_result' :
          /\ map_result'[l] \in Nat /\ map_result'[l] < un_compress_index_ + 1
          /\ un_compress_[map_result'[l]] = l
    <3> HIDE DEF k
    <3>1. CASE k \in DOMAIN map_result
      BY <1>3, <2>1, <3>1 DEF Insert
    <3>2. CASE k \notin DOMAIN map_result
      BY <1>3, <2>1, <2>2, <3>2 DEF Insert
    <3> QED BY <3>1, <3>2
  <2>4. VisitOK'
    BY <1>3, <2>1, <2>3 DEF VisitOK
  <2> QED BY <1>1, <1>3, <1>4, <2>1, <2>4 DEF ValueInv, OwnValue
<1>9. CASE VisitCorrupt
  <2>1. /\ un_compress_' = [un_compress_ EXCEPT ![un_compress_index_] = Garbage]
        /\ un_compress_index_' = un_compress_index_ + 1 /\ pc' = "visit"
        /\ map_result' = map_result /\ un_compress_index_ < CompressNum
    BY <1>9 DEF VisitCorrupt, Visiting
  <2>2. \A k \in DOMAIN map_result :
          map_result[k] < un_compress_index_ + 1 /\ un_compress_'[map_result[k]] = k
    <3> SUFFICES ASSUME NEW k \in DOMAIN map_result
                 PROVE  map_result[k] < un_compress_index_ + 1 /\ un_compress_'[map_result[k]] = k
      OBVIOUS
    <3>1. map_result[k] \in Buffer /\ map_result[k] # un_compress_index_
      BY <1>3, <2>1, RedisMgetAssumption DEF Buffer
    <3> QED BY <1>3, <2>1, <3>1
  <2>3. VisitOK' /\ DOMAIN un_compress_' = Buffer
    BY <1>3, <2>1, <2>2 DEF VisitOK
  <2> QED BY <1>1, <1>4, <2>1, <2>3 DEF ValueInv, OwnValue
<1> QED BY <1>5, <1>6, <1>7, <1>8, <1>9 DEF Serial

LEMMA ValueStep == ValueInv /\ [Next]_vars => ValueInv'
<1> SUFFICES ASSUME ValueInv, [Next]_vars PROVE ValueInv'
  OBVIOUS
<1>1. WindowInv'
  BY WindowStep DEF ValueInv
<1>2. CASE Call
  <2>1. PICK n \in 0 .. MaxServers :
          /\ num' = n
          /\ vec_result' = [w \in 1 .. n |-> NoResult]
          /\ un_compress_index' = [w \in 1 .. n |-> 0]
    BY <1>2 DEF Call
  <2>2. /\ pc' \in {"window", "visit"} /\ un_compress_index_' = 0 /\ map_result' = NoResult
        /\ un_compress_' = un_compress_
    BY <1>2 DEF Call
  <2>3. step' \in Nat
    BY <1>1 DEF WindowInv, Fits
  <2>4. WorkersOK' /\ VisitOK'
    BY <2>1, <2>2, <2>3 DEF WorkersOK, VisitOK, Group, NoResult
  <2> QED BY <1>1, <2>2, <2>4 DEF ValueInv, OwnValue
<1>3. CASE TakeWindow \/ Advance
  <2>1. /\ pc \in {"window", "advance"} /\ pc' \in {"window", "advance"}
        /\ UNCHANGED <<un_compress_, num, step, un_compress_index, vec_result, map_result>>
    BY <1>3 DEF TakeWindow, Advance, pool, request, worker
  <2>2. WorkersOK' /\ VisitOK'
    BY <2>1 DEF ValueInv, WorkersOK, VisitOK, Group
  <2> QED BY <1>1, <2>1, <2>2 DEF ValueInv, OwnValue
<1>4. CASE Launch
  <2>1. /\ pc = "window" /\ pc' = "join"
        /\ UNCHANGED <<un_compress_, num, step, un_compress_index, vec_result, map_result>>
    BY <1>4 DEF Launch, pool, request
  <2>2. WorkersOK' /\ VisitOK'
    BY <2>1 DEF ValueInv, WorkersOK, VisitOK, Group
  <2> QED BY <1>1, <2>1, <2>2 DEF ValueInv, OwnValue
<1>5. CASE Join
  <2>1. /\ pc = "join" /\ pc' = "returned"
        /\ UNCHANGED <<un_compress_, num, step, un_compress_index, vec_result>>
        /\ map_result' =
             [k \in UNION {DOMAIN vec_result[w] : w \in Group} |->
                vec_result[CHOOSE w \in Group : k \in DOMAIN vec_result[w]][k]]
    BY <1>5 DEF Join, pool, request, worker
  <2>2. WorkersOK' /\ VisitOK'
    BY <2>1 DEF ValueInv, WorkersOK, VisitOK, Group
  <2>3. OwnValue'
    <3> SUFFICES ASSUME NEW k \in DOMAIN map_result'
                 PROVE  un_compress_[map_result'[k]] = k
      BY <2>1 DEF OwnValue
    <3> DEFINE c == CHOOSE w \in Group : k \in DOMAIN vec_result[w]
    <3>1. c \in Group /\ k \in DOMAIN vec_result[c]
      BY <2>1
    <3>2. map_result'[k] = vec_result[c][k]
      BY <2>1
    <3> HIDE DEF c
    <3> QED BY <2>1, <3>1, <3>2 DEF ValueInv, WorkersOK
  <2> QED BY <1>1, <2>1, <2>2, <2>3 DEF ValueInv
<1>6. CASE UNCHANGED vars
  BY <1>1, <1>6 DEF vars, pool, request, worker, ValueInv, WorkersOK, VisitOK, OwnValue,
     Group, Here
<1> QED BY <1>2, <1>3, <1>4, <1>5, <1>6, ValueSerial, ValueWorker DEF Next, Multi

\* The answer of mget is right: a key comes with its own value, in either mode,
\* for every number of buffers, servers and keys and every order of the copies,
\* as long as nobody else resets the index (see MgetReload).
THEOREM Faithful == Spec => []OwnValue
<1>1. ValueInv => OwnValue
  BY DEF ValueInv
<1> QED BY ValueInit, ValueStep, <1>1, PTL DEF Spec

-----------------------------------------------------------------------------
(* The groups have as many keys as the call. *)

\* A set of numbers has a least one.
LEMMA Least ==
  ASSUME NEW T, T \subseteq Nat, T # {}
  PROVE  \E m \in T : \A k \in T : m <= k
<1> DEFINE R == OpToRel(<, Nat)
<1>1. IsWellFoundedOn(R, Nat)
  BY NatLessThanWellFounded
<1>2. \A x, y \in Nat : x < y => <<x, y>> \in R
  BY DEF OpToRel
<1> HIDE DEF R
<1>3. PICK m \in T : \A k \in T : ~(<<k, m>> \in R)
  BY <1>1, WFMin
<1>4. ASSUME NEW k \in T PROVE m <= k
  <2>1. ~(k < m)
    BY <1>2, <1>3
  <2> QED BY <2>1
<1> QED BY <1>4

\* The loop over the keys up to the mth.
Loop(after, m, keys, n, route) ==
  after = [j \in 0 .. m |->
             IF j = 0 THEN [w \in 1 .. n |-> <<>>]
             ELSE [after[j - 1] EXCEPT ![route[keys[j]]] = Append(@, keys[j])]]

LEMMA SomeLoop ==
  ASSUME NEW keys, NEW n, NEW route, NEW l \in Nat
  PROVE  \E after : Loop(after, l, keys, n, route)
<1> DEFINE T == {m \in Nat : ~ \E after : Loop(after, m, keys, n, route)}
<1> SUFFICES ASSUME T # {} PROVE FALSE
  OBVIOUS
<1>1. PICK m \in T : \A k \in T : m <= k
  BY Least
<1> DEFINE start == [w \in 1 .. n |-> <<>>]
<1>2. CASE m = 0
  <2>1. Loop([j \in 0 .. 0 |-> start], 0, keys, n, route)
    BY DEF Loop
  <2> QED BY <1>1, <1>2, <2>1
<1>3. CASE m # 0
  <2>1. m - 1 \in Nat /\ m - 1 \notin T
    BY <1>1, <1>3
  <2>2. PICK a : Loop(a, m - 1, keys, n, route)
    BY <2>1
  <2> DEFINE b == [j \in 0 .. m |->
                     IF j = m THEN [a[m - 1] EXCEPT ![route[keys[m]]] = Append(@, keys[m])]
                     ELSE a[j]]
  <2>3. ASSUME NEW j \in 0 .. m
        PROVE  b[j] = IF j = 0 THEN start
                      ELSE [b[j - 1] EXCEPT ![route[keys[j]]] = Append(@, keys[j])]
    <3>1. CASE j = m
      <4>1. b[j - 1] = a[m - 1] /\ j # 0
        BY <1>3, <3>1
      <4> QED BY <3>1, <4>1
    <3>2. CASE j # m
      <4>1. j \in 0 .. m - 1 /\ b[j] = a[j]
        BY <3>2
      <4>2. a[j] = IF j = 0 THEN start
                   ELSE [a[j - 1] EXCEPT ![route[keys[j]]] = Append(@, keys[j])]
        BY <2>2, <4>1 DEF Loop
      <4>3. j # 0 => b[j - 1] = a[j - 1]
        BY <4>1
      <4> HIDE DEF b, start
      <4> QED BY <4>1, <4>2, <4>3
    <3> QED BY <3>1, <3>2
  <2>4. b = [j \in 0 .. m |->
               IF j = 0 THEN start
               ELSE [b[j - 1] EXCEPT ![route[keys[j]]] = Append(@, keys[j])]]
    <3>1. b = [j \in 0 .. m |-> b[j]]
      OBVIOUS
    <3> HIDE DEF b, start
    <3> QED BY <2>3, <3>1
  <2>5. Loop(b, m, keys, n, route)
    <3> HIDE DEF b
    <3> QED BY <2>4 DEF Loop
  <2> QED BY <1>1, <2>5
<1> QED BY <1>2, <1>3

\* f[w]: how many keys the first w of n groups have; all together have m.
Counts(f, g, n, m) ==
  /\ f \in [0 .. n -> Nat] /\ f[0] = 0 /\ f[n] = m
  /\ \A w \in 1 .. n : f[w] = f[w - 1] + Len(g[w])
  /\ \A w \in 0 .. n : f[w] <= f[n]

\* One more key in one group is one more key in all of them.
LEMMA OneMore ==
  ASSUME NEW n \in Nat, NEW m \in Nat, NEW g \in [1 .. n -> Seq(Key)], NEW k \in Key,
         NEW v \in 1 .. n, NEW f, Counts(f, g, n, m)
  PROVE  /\ [g EXCEPT ![v] = Append(@, k)] \in [1 .. n -> Seq(Key)]
         /\ \E e : Counts(e, [g EXCEPT ![v] = Append(@, k)], n, m + 1)
<1> DEFINE h == [g EXCEPT ![v] = Append(@, k)]
           e == [w \in 0 .. n |-> IF w >= v THEN f[w] + 1 ELSE f[w]]
<1>1. Append(g[v], k) \in Seq(Key) /\ Len(Append(g[v], k)) = Len(g[v]) + 1
  OBVIOUS
<1>2. h \in [1 .. n -> Seq(Key)] /\ Len(h[v]) = Len(g[v]) + 1
      /\ \A w \in 1 .. n : w # v => h[w] = g[w]
  BY <1>1
<1>3. /\ f \in [0 .. n -> Nat] /\ f[0] = 0 /\ f[n] = m
      /\ \A w \in 1 .. n : f[w] = f[w - 1] + Len(g[w])
      /\ \A w \in 0 .. n : f[w] <= f[n]
  BY DEF Counts
<1>4. e \in [0 .. n -> Nat] /\ e[0] = 0 /\ e[n] = m + 1
  BY <1>3
<1>5. ASSUME NEW w \in 0 .. n PROVE e[w] <= e[n]
  BY <1>3
<1> HIDE DEF h
<1>6. ASSUME NEW w \in 1 .. n PROVE e[w] = e[w - 1] + Len(h[w])
  <2>1. w \in 0 .. n /\ w - 1 \in 0 .. n /\ f[w] \in Nat /\ f[w - 1] \in Nat /\ Len(g[w]) \in Nat
    BY <1>3
  <2>2. f[w] = f[w - 1] + Len(g[w])
    BY <1>3
  <2>3. CASE w = v
    <3>1. e[w] = f[w] + 1 /\ e[w - 1] = f[w - 1]
      BY <2>1, <2>3
    <3>2. Len(h[w]) = Len(g[w]) + 1
      BY <1>2, <2>3
    <3> HIDE DEF e
    <3> QED BY <2>1, <2>2, <3>1, <3>2, SMTT(20)
  <2>4. CASE w # v
    <3>1. Len(h[w]) = Len(g[w])
      BY <1>2, <2>4
    <3>2. CASE w > v
      <4>1. e[w] = f[w] + 1 /\ e[w - 1] = f[w - 1] + 1
        BY <2>1, <3>2
      <4> HIDE DEF e
      <4> QED BY <2>1, <2>2, <3>1, <4>1
    <3>3. CASE w < v
      <4>1. e[w] = f[w] /\ e[w - 1] = f[w - 1]
        BY <2>1, <3>3
      <4> HIDE DEF e
      <4> QED BY <2>1, <2>2, <3>1, <4>1
    <3> QED BY <2>4, <3>2, <3>3
  <2> QED BY <2>3, <2>4
<1>7. Counts(e, h, n, m + 1)
  <2> HIDE DEF e
  <2> QED BY <1>4, <1>5, <1>6 DEF Counts
<1> QED BY <1>2, <1>7 DEF h

\* gets_ip_port loses no key and makes none: the groups are sequences of keys,
\* and together they are as long as the request.
LEMMA GroupedCounts ==
  ASSUME NEW l \in Nat, NEW keys \in [1 .. l -> Key], NEW n \in Nat \ {0},
         NEW route \in [Key -> 1 .. n], Len(keys) = l
  PROVE  /\ Grouped(keys, n, route) \in [1 .. n -> Seq(Key)]
         /\ \E f : Counts(f, Grouped(keys, n, route), n, l)
<1> DEFINE A == CHOOSE after : Loop(after, l, keys, n, route)
<1>1. Grouped(keys, n, route) = A[l]
  BY DEF Grouped, Loop
<1>2. Loop(A, l, keys, n, route)
  BY SomeLoop
<1> HIDE DEF A
<1> DEFINE Right(m) == A[m] \in [1 .. n -> Seq(Key)] /\ \E f : Counts(f, A[m], n, m)
           T == {m \in 0 .. l : ~Right(m)}
<1>3. T = {}
  <2> SUFFICES ASSUME T # {} PROVE FALSE
    OBVIOUS
  <2>1. PICK m \in T : \A k \in T : m <= k
    <3>1. T \subseteq Nat
      OBVIOUS
    <3> HIDE DEF T
    <3> QED BY <3>1, Least
  <2>2. CASE m = 0
    <3>1. A[0] = [w \in 1 .. n |-> <<>>]
      <4>1. 0 \in 0 .. l
        OBVIOUS
      <4> QED BY <1>2, <4>1 DEF Loop
    <3>2. Counts([w \in 0 .. n |-> 0], A[0], n, 0)
      BY <3>1 DEF Counts
    <3>3. Right(0)
      BY <3>1, <3>2
    <3> QED BY <2>1, <2>2, <3>3
  <2>3. CASE m # 0
    <3>1. m - 1 \in 0 .. l /\ m - 1 \notin T /\ m - 1 \in Nat /\ m \in 1 .. l
      BY <2>1, <2>3
    <3>2. Right(m - 1)
      BY <3>1
    <3>3. keys[m] \in Key /\ route[keys[m]] \in 1 .. n
      BY <3>1
    <3>4. A[m] = [A[m - 1] EXCEPT ![route[keys[m]]] = Append(@, keys[m])]
      BY <1>2, <2>1, <2>3 DEF Loop
    <3>5. PICK f : Counts(f, A[m - 1], n, m - 1)
      BY <3>2
    <3>6. A[m] \in [1 .. n -> Seq(Key)] /\ \E e : Counts(e, A[m], n, m - 1 + 1)
      <4> DEFINE g == A[m - 1]
                 k == keys[m]
                 v == route[keys[m]]
      <4>1. g \in [1 .. n -> Seq(Key)] /\ k \in Key /\ v \in 1 .. n /\ Counts(f, g, n, m - 1)
        BY <3>2, <3>3, <3>5
      <4>2. A[m] = [g EXCEPT ![v] = Append(@, k)]
        BY <3>4
      <4> HIDE DEF g, k, v
      <4>3. \E e : Counts(e, [g EXCEPT ![v] = Append(@, k)], n, m - 1 + 1)
        BY <3>1, <4>1, OneMore
      <4>4. [g EXCEPT ![v] = Append(@, k)] \in [1 .. n -> Seq(Key)]
        BY <3>1, <4>1, OneMore
      <4> QED BY <4>2, <4>3, <4>4
    <3>7. Right(m)
      BY <3>1, <3>6
    <3> QED BY <2>1, <3>7
  <2> QED BY <2>2, <2>3
<1>4. Right(l)
  <2>1. l \in 0 .. l
    OBVIOUS
  <2> HIDE DEF Right
  <2> QED BY <1>3, <2>1
<1> QED BY <1>1, <1>4

LEMMA SplitsCount ==
  ASSUME NEW keys \in KeySeq, NEW n \in Nat \ {0}, NEW g \in Splits(keys, n)
  PROVE  /\ g \in [1 .. n -> Seq(Key)]
         /\ \E f : Counts(f, g, n, Len(keys))
<1>1. PICK l \in 0 .. MaxKeys : keys \in [1 .. l -> Key]
  BY DEF KeySeq
<1>2. l \in Nat /\ Len(keys) = l
  BY <1>1, RedisMgetAssumption
<1>3. PICK route \in [Key -> 1 .. n] : g = Grouped(keys, n, route)
  BY DEF Splits
<1> QED BY <1>1, <1>2, <1>3, GroupedCounts

-----------------------------------------------------------------------------
(* No key is lost. *)

\* What pthread w has copied of the reply: the elements before i[w], as long as
\* the window had room.
LossOK(w) ==
  /\ i[w] \in Nat \ {0} /\ un_compress_index[w] \in Nat /\ un_compress_index[w] < i[w]
  /\ DOMAIN answer[w] \subseteq 1 .. Len(groups[w])
  /\ pc \in {"window", "advance"} => wpc[w] = "wait"
  /\ wpc[w] \in {"wait", "fetch"} => i[w] = 1 /\ DOMAIN answer[w] = {}
  /\ wpc[w] # "done" \/ Len(groups[w]) <= step =>
       \A m \in DOMAIN answer[w] :
         answer[w][m] = "value" /\ (wpc[w] = "done" \/ m < i[w]) =>
           groups[w][m] \in DOMAIN vec_result[w]

GroupsOK ==
  /\ num \in Nat /\ step \in Nat /\ DOMAIN groups = Group
  /\ \A w \in Group : Len(groups[w]) \in Nat /\ DOMAIN groups[w] = 1 .. Len(groups[w])

LossInv ==
  parallel =>
    /\ GroupsOK /\ pc \in {"ready", "window", "advance", "join", "returned"}
    /\ DOMAIN wpc = Group /\ DOMAIN answer = Group /\ DOMAIN i = Group
    /\ DOMAIN un_compress_index = Group /\ DOMAIN vec_result = Group
    /\ pc \in {"window", "advance", "join"} => \A w \in Group : LossOK(w)
    /\ NoKeyLost

LEMMA LossInit == Init => LossInv
BY RedisMgetAssumption DEF Init, LossInv, GroupsOK, Group, NoKeyLost

LEMMA LossCall ==
  ASSUME WindowInv', Call
  PROVE  LossInv'
<1> SUFFICES ASSUME parallel PROVE LossInv'
  BY DEF Call, config, LossInv
<1>1. PICK n \in 0 .. MaxServers, keys \in KeySeq :
        /\ num' = n
        /\ IF n = 0 THEN keys = <<>> /\ groups' = <<>> ELSE groups' \in Splits(keys, n)
        /\ wpc' = [w \in 1 .. n |-> "wait"] /\ answer' = [w \in 1 .. n |-> <<>>]
        /\ i' = [w \in 1 .. n |-> 1] /\ un_compress_index' = [w \in 1 .. n |-> 0]
        /\ vec_result' = [w \in 1 .. n |-> NoResult]
  BY DEF Call
<1>2. n \in Nat /\ MaxKeys \in Nat
  BY RedisMgetAssumption
<1>3. groups' \in [1 .. n -> Seq(Key)]
  <2>1. CASE n = 0
    BY <1>1, <2>1
  <2>2. CASE n # 0
    BY <1>1, <1>2, <2>2, SplitsCount
  <2> QED BY <2>1, <2>2
<1>4. \A s \in Seq(Key) : Len(s) \in Nat /\ DOMAIN s = 1 .. Len(s)
  OBVIOUS
<1>5. GroupsOK'
  <2>1. num' \in Nat /\ step' \in Nat /\ Group' = 1 .. n
    BY <1>1 DEF WindowInv, Fits, Group
  <2> QED BY <1>3, <1>4, <2>1 DEF GroupsOK
<1>6. pc' = "window" /\ parallel' = parallel
  BY DEF Call, config
<1>7. ASSUME NEW w \in Group' PROVE LossOK(w)'
  <2>1. w \in 1 .. n
    BY <1>1, <1>7 DEF Group
  <2>2. Len(groups[w])' \in Nat
    BY <1>5, <1>7 DEF GroupsOK
  <2>3. /\ wpc'[w] = "wait" /\ answer'[w] = <<>> /\ i'[w] = 1 /\ un_compress_index'[w] = 0
        /\ DOMAIN answer'[w] = {}
    BY <1>1, <2>1
  <2> QED BY <1>6, <2>2, <2>3 DEF LossOK
<1> QED BY <1>1, <1>5, <1>6, <1>7 DEF LossInv, Group, NoKeyLost

\* A step of the pthread of group w.
LEMMA LossWorker ==
  ASSUME LossInv, parallel, NEW w \in Group,
         FetchFails(w) \/ Fetch(w) \/ Skip(w) \/ Copy(w) \/ Corrupt(w) \/ Finish(w)
  PROVE  LossInv'
<1>1. /\ UNCHANGED <<parallel, pc, num, groups, step, index, base, map_result>>
      /\ Group' = Group /\ pc = "join"
  BY DEF FetchFails, Fetch, Skip, Copy, Corrupt, Finish, Copying, pool, request, Group, config
<1>2. /\ GroupsOK /\ (\A v \in Group : LossOK(v))
      /\ DOMAIN wpc = Group /\ DOMAIN answer = Group /\ DOMAIN i = Group
      /\ DOMAIN un_compress_index = Group /\ DOMAIN vec_result = Group
  BY <1>1 DEF LossInv
<1>3. Len(groups[w]) \in Nat /\ DOMAIN groups[w] = 1 .. Len(groups[w]) /\ step \in Nat
  BY <1>2 DEF GroupsOK
<1>4. ASSUME /\ DOMAIN wpc' = Group /\ DOMAIN answer' = Group /\ DOMAIN i' = Group
             /\ DOMAIN un_compress_index' = Group /\ DOMAIN vec_result' = Group
             /\ LossOK(w)'
             /\ \A v \in Group \ {w} : /\ wpc'[v] = wpc[v] /\ answer'[v] = answer[v] /\ i'[v] = i[v]
                                       /\ un_compress_index'[v] = un_compress_index[v]
                                       /\ vec_result'[v] = vec_result[v]
      PROVE  LossInv'
  <2>1. \A v \in Group : LossOK(v)'
    BY <1>1, <1>2, <1>4 DEF LossOK
  <2>2. GroupsOK'
    BY <1>1, <1>2 DEF GroupsOK
  <2> QED BY <1>1, <1>4, <2>1, <2>2 DEF LossInv, NoKeyLost
<1>5. LossOK(w)
  BY <1>2
<1>6. CASE FetchFails(w)
  <2>1. /\ wpc[w] = "fetch" /\ wpc' = [wpc EXCEPT ![w] = "done"]
        /\ UNCHANGED <<answer, i, un_compress_index, vec_result>>
    BY <1>6 DEF FetchFails
  <2>2. LossOK(w)'
    BY <1>1, <1>2, <1>5, <2>1 DEF LossOK
  <2> QED BY <1>2, <1>4, <2>1, <2>2
<1>7. CASE Fetch(w)
  <2>1. PICK a \in Answers(groups[w]) :
          /\ wpc[w] = "fetch" /\ wpc' = [wpc EXCEPT ![w] = "copy"]
          /\ answer' = [answer EXCEPT ![w] = a]
          /\ UNCHANGED <<i, un_compress_index, vec_result>>
    BY <1>7 DEF Fetch
  <2>2. DOMAIN a = 1 .. Len(groups[w])
    BY <1>3 DEF Answers
  <2>3. \A m \in 1 .. Len(groups[w]) : ~(m < i[w])
    BY <1>3, <1>5, <2>1 DEF LossOK
  <2>4. LossOK(w)'
    BY <1>1, <1>2, <1>5, <2>1, <2>2, <2>3 DEF LossOK
  <2> QED BY <1>2, <1>4, <2>1, <2>4
<1>8. CASE Skip(w) \/ Corrupt(w)
  <2>1. /\ wpc[w] = "copy" /\ answer[w][i[w]] # "value" /\ i' = [i EXCEPT ![w] = @ + 1]
        /\ UNCHANGED <<wpc, answer, un_compress_index, vec_result>>
    BY <1>8 DEF Skip, Corrupt, Copying
  <2>2. \A m \in DOMAIN answer[w] : m < i[w] + 1 => m = i[w] \/ m < i[w]
    BY <1>3, <1>5 DEF LossOK
  <2>3. LossOK(w)'
    BY <1>1, <1>2, <1>5, <2>1, <2>2 DEF LossOK
  <2> QED BY <1>2, <1>4, <2>1, <2>3
<1>9. CASE Copy(w)
  <2> DEFINE b == base[w] + un_compress_index[w]
             k == groups[w][i[w]]
  <2>1. /\ wpc[w] = "copy" /\ i' = [i EXCEPT ![w] = @ + 1]
        /\ un_compress_index' = [un_compress_index EXCEPT ![w] = @ + 1]
        /\ vec_result' = [vec_result EXCEPT ![w] = Insert(@, k, b)]
        /\ UNCHANGED <<wpc, answer>>
    BY <1>9 DEF Copy, Copying
  <2>2. DOMAIN vec_result'[w] = DOMAIN vec_result[w] \cup {k}
    BY <1>2, <2>1 DEF Insert
  <2>3. \A m \in DOMAIN answer[w] : m < i[w] + 1 => m = i[w] \/ m < i[w]
    BY <1>3, <1>5 DEF LossOK
  <2>4. LossOK(w)'
    <3> HIDE DEF b
    <3> QED BY <1>1, <1>2, <1>5, <2>1, <2>2, <2>3 DEF LossOK
  <2> QED BY <1>2, <1>4, <2>1, <2>4
<1>10. CASE Finish(w)
  <2>1. /\ wpc[w] = "copy" /\ wpc' = [wpc EXCEPT ![w] = "done"]
        /\ i[w] > Len(groups[w]) \/ (i[w] <= Len(groups[w]) /\ un_compress_index[w] >= step)
        /\ UNCHANGED <<answer, i, un_compress_index, vec_result>>
    BY <1>10 DEF Finish, Copying
  <2>2. CASE i[w] > Len(groups[w])
    <3>1. \A m \in DOMAIN answer[w] : m < i[w]
      BY <1>3, <1>5, <2>2 DEF LossOK
    <3>2. LossOK(w)'
      BY <1>1, <1>2, <1>5, <2>1, <3>1 DEF LossOK
    <3> QED BY <1>2, <1>4, <2>1, <3>2
  <2>3. CASE i[w] <= Len(groups[w]) /\ un_compress_index[w] >= step
    <3>1. ~(Len(groups[w]) <= step)
      BY <1>3, <1>5, <2>3 DEF LossOK
    <3>2. LossOK(w)'
      BY <1>1, <1>2, <1>5, <2>1, <3>1 DEF LossOK
    <3> QED BY <1>2, <1>4, <2>1, <3>2
  <2> QED BY <2>1, <2>2, <2>3
<1> QED BY <1>6, <1>7, <1>8, <1>9, <1>10

LEMMA LossStep == LossInv /\ WindowInv' /\ [Next]_vars => LossInv'
<1> SUFFICES ASSUME LossInv, WindowInv', [Next]_vars PROVE LossInv'
  OBVIOUS
<1>1. CASE Call
  BY <1>1, LossCall
<1>2. CASE ~parallel /\ ~Call
  BY <1>2 DEF LossInv, Next, Multi, Serial, TakeWindow, Advance, Launch, Join, FetchFails, Fetch,
     Skip, Copy, Corrupt, Finish, VisitFails, Visit, VisitSkip, VisitCopy, Point, Bump, VisitCorrupt,
     Leave, VisitReturn, config, vars
<1>3. ASSUME parallel, TakeWindow \/ Advance PROVE LossInv'
  <2>1. /\ pc \in {"window", "advance"} /\ pc' \in {"window", "advance"}
        /\ UNCHANGED <<parallel, num, groups, step, worker>>
    BY <1>3 DEF TakeWindow, Advance, pool, request, config
  <2>2. Group' = Group /\ GroupsOK'
    BY <1>3, <2>1 DEF LossInv, GroupsOK, Group
  <2>3. \A w \in Group : LossOK(w)'
    BY <1>3, <2>1 DEF LossInv, LossOK, worker
  <2> QED BY <1>3, <2>1, <2>2, <2>3 DEF LossInv, worker, NoKeyLost
<1>4. ASSUME parallel, Launch PROVE LossInv'
  <2>1. /\ pc = "window" /\ pc' = "join" /\ wpc' = [w \in Group |-> "fetch"]
        /\ UNCHANGED <<parallel, num, groups, step, answer, i, un_compress_index, vec_result>>
    BY <1>4 DEF Launch, pool, request, config
  <2>2. Group' = Group /\ GroupsOK'
    BY <1>4, <2>1 DEF LossInv, GroupsOK, Group
  <2>3. \A w \in Group : LossOK(w)'
    BY <1>4, <2>1 DEF LossInv, LossOK
  <2> QED BY <1>4, <2>1, <2>2, <2>3 DEF LossInv, NoKeyLost
<1>5. ASSUME parallel, Join PROVE LossInv'
  <2>1. /\ pc = "join" /\ pc' = "returned" /\ \A w \in Group : wpc[w] = "done"
        /\ DOMAIN map_result' = UNION {DOMAIN vec_result[w] : w \in Group}
        /\ UNCHANGED <<parallel, num, groups, step, worker>>
    BY <1>5 DEF Join, pool, request, config
  <2>2. Group' = Group /\ GroupsOK'
    BY <1>5, <2>1 DEF LossInv, GroupsOK, Group
  <2>3. ASSUME NEW w \in Group, Len(groups[w]) <= step
        PROVE  Given(w) \subseteq DOMAIN map_result'
    <3>1. \A m \in DOMAIN answer[w] : answer[w][m] = "value" => groups[w][m] \in DOMAIN vec_result[w]
      BY <1>5, <2>1, <2>3 DEF LossInv, LossOK
    <3> QED BY <2>1, <3>1 DEF Given
  <2>4. NoKeyLost'
    BY <1>5, <2>1, <2>2, <2>3 DEF NoKeyLost, Given, worker
  <2> QED BY <1>5, <2>1, <2>2, <2>4 DEF LossInv, worker
<1>6. CASE UNCHANGED vars
  BY <1>6 DEF vars, config, pool, request, worker, LossInv, GroupsOK, LossOK, NoKeyLost, Given, Group
<1>7. ASSUME parallel, Serial PROVE LossInv'
  BY <1>7 DEF LossInv, Serial, VisitFails, Visit, VisitSkip, VisitCopy, Point, Bump, VisitCorrupt,
     Leave, VisitReturn, Visiting
<1> QED BY <1>1, <1>2, <1>3, <1>4, <1>5, <1>6, <1>7, LossWorker DEF Next, Multi

\* What mget_i has copied of the reply of group w, as long as there was room.
VisitLossOK(w) ==
  /\ i[w] \in Nat \ {0} /\ i[w] <= Len(groups[w]) + 1
  /\ DOMAIN answer[w] \subseteq 1 .. Len(groups[w])
  /\ index < w => wpc[w] = "wait"
  /\ wpc[w] = "wait" => i[w] = 1 /\ DOMAIN answer[w] = {}
  /\ key_num <= CompressNum =>
       \A m \in DOMAIN answer[w] :
         answer[w][m] = "value" /\ (w < index \/ m < i[w]) => groups[w][m] \in DOMAIN map_result

\* mget_i has not filled more buffers than it has passed keys.
Passed(f) == IF index <= num THEN f[index - 1] + i[index] - 1 ELSE f[num]
Room == \E f : Counts(f, groups, num, key_num) /\ un_compress_index_ <= Passed(f)

SerialInv ==
  ~parallel =>
    /\ GroupsOK /\ pc \in {"ready", "visit", "point", "bump", "returned"}
    /\ DOMAIN wpc = Group /\ DOMAIN answer = Group /\ DOMAIN i = Group
    /\ key_num \in Nat /\ index \in Nat \ {0} /\ un_compress_index_ \in Nat
    /\ pc \in {"visit", "point", "bump"} =>
         index <= num + 1 /\ Room /\ \A w \in Group : VisitLossOK(w)
    /\ pc \in {"point", "bump"} =>
         index <= num /\ wpc[index] = "copy" /\ i[index] <= Len(groups[index])
    /\ NoKeyLost

LEMMA SerialInit == Init => SerialInv
BY RedisMgetAssumption DEF Init, SerialInv, GroupsOK, Group, NoKeyLost

LEMMA SerialCall ==
  ASSUME WindowInv', Call
  PROVE  SerialInv'
<1> SUFFICES ASSUME ~parallel PROVE SerialInv'
  BY DEF Call, config, SerialInv
<1>1. PICK n \in 0 .. MaxServers, keys \in KeySeq :
        /\ key_num' = Len(keys) /\ num' = n
        /\ IF n = 0 THEN keys = <<>> /\ groups' = <<>> ELSE groups' \in Splits(keys, n)
        /\ wpc' = [w \in 1 .. n |-> "wait"] /\ answer' = [w \in 1 .. n |-> <<>>]
        /\ i' = [w \in 1 .. n |-> 1]
  BY DEF Call
<1>2. n \in Nat
  BY RedisMgetAssumption
<1>3. groups' \in [1 .. n -> Seq(Key)] /\ \E f : Counts(f, groups', n, key_num')
  <2>1. CASE n = 0
    <3>1. groups' = <<>> /\ key_num' = 0
      BY <1>1, <2>1
    <3>2. Counts([w \in 0 .. 0 |-> 0], groups', n, 0)
      BY <2>1 DEF Counts
    <3> QED BY <2>1, <3>1, <3>2
  <2>2. CASE n # 0
    BY <1>1, <1>2, <2>2, SplitsCount
  <2> QED BY <2>1, <2>2
<1>4. \A s \in Seq(Key) : Len(s) \in Nat /\ DOMAIN s = 1 .. Len(s)
  OBVIOUS
<1>5. GroupsOK' /\ key_num' \in Nat
  <2>1. num' \in Nat /\ step' \in Nat /\ Group' = 1 .. n
    BY <1>1 DEF WindowInv, Fits, Group
  <2>2. key_num' \in Nat
    BY <1>1, RedisMgetAssumption DEF KeySeq
  <2> QED BY <1>3, <1>4, <2>1, <2>2 DEF GroupsOK
<1>6. pc' = "visit" /\ parallel' = parallel /\ index' = 1 /\ un_compress_index_' = 0
  BY DEF Call, config
<1>7. ASSUME NEW w \in Group' PROVE VisitLossOK(w)'
  <2>1. w \in 1 .. n
    BY <1>1, <1>7 DEF Group
  <2>2. Len(groups[w])' \in Nat
    BY <1>5, <1>7 DEF GroupsOK
  <2>3. wpc'[w] = "wait" /\ i'[w] = 1 /\ DOMAIN answer'[w] = {}
    BY <1>1, <2>1
  <2> QED BY <1>6, <2>2, <2>3 DEF VisitLossOK
<1>8. Room'
  <2>1. PICK f : Counts(f, groups', n, key_num')
    BY <1>3
  <2>2. f[0] = 0 /\ f[n] \in Nat
    BY <1>5, <2>1 DEF Counts
  <2>3. 1 <= n => i'[1] = 1
    BY <1>1, <1>2
  <2>4. (un_compress_index_ <= Passed(f))'
    BY <1>1, <1>6, <2>2, <2>3 DEF Passed
  <2> QED BY <1>1, <2>1, <2>4 DEF Room
<1> QED BY <1>1, <1>2, <1>5, <1>6, <1>7, <1>8 DEF SerialInv, Group, NoKeyLost

\* A step of mget_i.
LEMMA SerialVisit ==
  ASSUME SerialInv, ~parallel, Serial
  PROVE  SerialInv'
<1>1. /\ UNCHANGED <<parallel, key_num, num, groups, step>> /\ Group' = Group
      /\ pc \in {"visit", "point", "bump"} /\ pc' \in {"visit", "point", "bump", "returned"}
  BY DEF Serial, VisitFails, Visit, VisitSkip, VisitCopy, Point, Bump, VisitCorrupt, Leave,
     VisitReturn, Visiting, request, config, Group
<1>2. /\ GroupsOK /\ DOMAIN wpc = Group /\ DOMAIN answer = Group /\ DOMAIN i = Group
      /\ key_num \in Nat /\ index \in Nat \ {0} /\ un_compress_index_ \in Nat
      /\ index <= num + 1 /\ Room /\ \A w \in Group : VisitLossOK(w)
      /\ pc \in {"point", "bump"} =>
           index <= num /\ wpc[index] = "copy" /\ i[index] <= Len(groups[index])
  BY <1>1 DEF SerialInv
<1>3. GroupsOK' /\ num \in Nat
  BY <1>1, <1>2 DEF GroupsOK
<1>4. PICK f : Counts(f, groups, num, key_num) /\ un_compress_index_ <= Passed(f)
  BY <1>2 DEF Room
<1>5. /\ f \in [0 .. num -> Nat] /\ f[num] = key_num
      /\ \A w \in Group : f[w] = f[w - 1] + Len(groups[w]) /\ f[w - 1] \in Nat /\ f[w] <= key_num
  <2>1. /\ f \in [0 .. num -> Nat] /\ f[num] = key_num
        /\ \A w \in 1 .. num : f[w] = f[w - 1] + Len(groups[w])
        /\ \A w \in 0 .. num : f[w] <= f[num]
    BY <1>4 DEF Counts
  <2>2. \A w \in 1 .. num : w \in 0 .. num /\ w - 1 \in 0 .. num
    BY <1>3
  <2> QED BY <2>1, <2>2 DEF Group
<1>6. index <= num =>
        /\ index \in Group /\ VisitLossOK(index)
        /\ Len(groups[index]) \in Nat /\ DOMAIN groups[index] = 1 .. Len(groups[index])
        /\ un_compress_index_ <= f[index - 1] + i[index] - 1
        /\ f[index] = f[index - 1] + Len(groups[index]) /\ f[index - 1] \in Nat
        /\ f[index] <= key_num /\ i[index] \in Nat \ {0}
  <2> SUFFICES ASSUME index <= num
               PROVE  /\ index \in Group /\ VisitLossOK(index)
                      /\ Len(groups[index]) \in Nat /\ DOMAIN groups[index] = 1 .. Len(groups[index])
                      /\ un_compress_index_ <= f[index - 1] + i[index] - 1
                      /\ f[index] = f[index - 1] + Len(groups[index]) /\ f[index - 1] \in Nat
                      /\ f[index] <= key_num /\ i[index] \in Nat \ {0}
    OBVIOUS
  <2>1. index \in Group
    BY <1>2, <1>3 DEF Group
  <2>2. un_compress_index_ <= f[index - 1] + i[index] - 1
    BY <1>4 DEF Passed
  <2>3. VisitLossOK(index) /\ i[index] \in Nat \ {0}
    BY <1>2, <2>1 DEF VisitLossOK
  <2>4. Len(groups[index]) \in Nat /\ DOMAIN groups[index] = 1 .. Len(groups[index])
    BY <1>2, <2>1 DEF GroupsOK
  <2> QED BY <1>5, <2>1, <2>2, <2>3, <2>4

\* The loop goes on to the next group.
<1>7. ASSUME index <= num, index' = index + 1, i' = i, un_compress_index_' = un_compress_index_
      PROVE  Room'
  <2>1. un_compress_index_ <= f[index]
    BY <1>2, <1>6, <1>7 DEF VisitLossOK
  <2>2. CASE index + 1 <= num
    <3>1. index + 1 \in Group /\ i[index + 1] = 1
      <4>1. index + 1 \in Group /\ index < index + 1
        BY <1>2, <1>3, <2>2 DEF Group
      <4> QED BY <1>2, <4>1 DEF VisitLossOK
    <3>2. index' - 1 = index /\ i'[index'] = 1 /\ index' <= num
      BY <1>2, <1>7, <2>2, <3>1
    <3>3. Passed(f)' = f[index] + 1 - 1
      BY <1>1, <3>2 DEF Passed
    <3>4. f[index] \in Nat
      BY <1>2, <1>3, <1>5, <1>7
    <3>5. un_compress_index_' <= Passed(f)'
      BY <1>7, <2>1, <3>3, <3>4
    <3> QED BY <1>1, <1>4, <3>5 DEF Room
  <2>3. CASE ~(index + 1 <= num)
    <3>1. index = num /\ ~(index' <= num')
      BY <1>1, <1>2, <1>3, <1>7, <2>3
    <3>2. Passed(f)' = f[index]
      BY <1>1, <3>1 DEF Passed
    <3> QED BY <1>1, <1>4, <1>7, <2>1, <3>2 DEF Room
  <2> QED BY <2>2, <2>3

\* An element of the reply has been looked at, and perhaps copied.
<1>8. ASSUME index <= num, index' = index, i' = [i EXCEPT ![index] = @ + 1],
             un_compress_index_' \in {un_compress_index_, un_compress_index_ + 1}
      PROVE  Room'
  <2>1. i'[index'] = i[index] + 1
    BY <1>2, <1>6, <1>8
  <2>2. Passed(f)' = f[index - 1] + (i[index] + 1) - 1
    BY <1>1, <1>8, <2>1 DEF Passed
  <2>3. un_compress_index_' <= Passed(f)'
    BY <1>2, <1>6, <1>8, <2>2
  <2> QED BY <1>1, <1>4, <2>3 DEF Room

\* Nothing the count depends on has changed.
<1>9. ASSUME index' = index, i' = i, un_compress_index_' = un_compress_index_
      PROVE  Room'
  BY <1>1, <1>4, <1>9 DEF Room, Passed

<1>10. CASE VisitFails
  <2>1. /\ pc = "visit" /\ pc' = "visit" /\ index <= num /\ wpc[index] = "wait"
        /\ index' = index + 1
        /\ UNCHANGED <<un_compress_index_, wpc, answer, i, map_result>>
    BY <1>10 DEF VisitFails, Here, pool, worker
  <2>2. ASSUME NEW w \in Group PROVE VisitLossOK(w)'
    <3>1. VisitLossOK(w)
      BY <1>2
    <3>2. w < index + 1 => w < index \/ w = index
      BY <1>2, <1>3 DEF Group
    <3> QED BY <1>1, <1>2, <1>3, <2>1, <3>1, <3>2 DEF VisitLossOK, Group
  <2> QED BY <1>1, <1>2, <1>3, <1>7, <2>1, <2>2 DEF SerialInv, NoKeyLost
<1>11. CASE Visit
  <2>1. PICK a \in Answers(groups[index]) :
          /\ wpc[index] = "wait" /\ wpc' = [wpc EXCEPT ![index] = "copy"]
          /\ answer' = [answer EXCEPT ![index] = a]
    BY <1>11 DEF Visit, Here
  <2>2. /\ pc = "visit" /\ pc' = "visit" /\ index <= num
        /\ UNCHANGED <<un_compress_index_, index, i, map_result>>
    BY <1>11 DEF Visit, Here, pool
  <2>3. DOMAIN a = 1 .. Len(groups[index])
    BY <1>6, <2>2 DEF Answers
  <2>4. ASSUME NEW w \in Group PROVE VisitLossOK(w)'
    <3>1. VisitLossOK(w)
      BY <1>2
    <3>2. CASE w = index
      <4>1. answer'[w] = a /\ wpc'[w] = "copy" /\ i'[w] = 1 /\ ~(w < index)
        BY <1>2, <2>1, <2>2, <3>1, <3>2 DEF VisitLossOK
      <4>2. \A m \in DOMAIN a : ~(m < 1)
        BY <2>3
      <4> QED BY <1>1, <1>2, <2>2, <2>3, <3>1, <3>2, <4>1, <4>2 DEF VisitLossOK
    <3>3. CASE w # index
      <4>1. answer'[w] = answer[w] /\ wpc'[w] = wpc[w]
        BY <1>2, <2>1, <3>3
      <4> QED BY <1>1, <2>2, <3>1, <4>1 DEF VisitLossOK
    <3> QED BY <3>2, <3>3
  <2>5. DOMAIN wpc' = Group /\ DOMAIN answer' = Group
    BY <1>2, <2>1
  <2> QED BY <1>1, <1>2, <1>3, <1>9, <2>2, <2>4, <2>5 DEF SerialInv, NoKeyLost
<1>12. CASE VisitSkip \/ VisitCorrupt
  <2>1. /\ pc = "visit" /\ pc' = "visit" /\ index <= num /\ i[index] <= Len(groups[index])
        /\ wpc[index] = "copy" /\ answer[index][i[index]] # "value"
        /\ i' = [i EXCEPT ![index] = @ + 1]
        /\ un_compress_index_' \in {un_compress_index_, un_compress_index_ + 1}
        /\ UNCHANGED <<index, wpc, answer, map_result>>
    BY <1>12 DEF VisitSkip, VisitCorrupt, Visiting, Here, pool
  <2>2. ASSUME NEW w \in Group PROVE VisitLossOK(w)'
    <3>1. VisitLossOK(w)
      BY <1>2
    <3>2. CASE w = index
      <4>1. i'[w] = i[w] + 1
        BY <1>2, <2>1, <3>2
      <4>2. \A m \in DOMAIN answer[w] : m < i[w] + 1 => m = i[w] \/ m < i[w]
        BY <1>6, <2>1, <3>1, <3>2 DEF VisitLossOK
      <4> QED BY <1>1, <1>6, <2>1, <3>1, <3>2, <4>1, <4>2 DEF VisitLossOK
    <3>3. CASE w # index
      <4>1. i'[w] = i[w]
        BY <1>2, <2>1, <3>3
      <4> QED BY <1>1, <2>1, <3>1, <4>1 DEF VisitLossOK
    <3> QED BY <3>2, <3>3
  <2>3. DOMAIN i' = Group /\ un_compress_index_' \in Nat
    BY <1>2, <2>1
  <2> QED BY <1>1, <1>2, <1>3, <1>8, <2>1, <2>2, <2>3 DEF SerialInv, NoKeyLost
<1>13. CASE VisitCopy \/ Point
  <2>1. /\ pc' \in {"point", "bump"} /\ UNCHANGED <<un_compress_index_, index, wpc, answer, i, map_result>>
        /\ index <= num /\ wpc[index] = "copy" /\ i[index] <= Len(groups[index])
    BY <1>2, <1>13 DEF VisitCopy, Point, Visiting, Here, pool, request, worker
  <2>2. \A w \in Group : VisitLossOK(w)'
    BY <1>1, <1>2, <2>1 DEF VisitLossOK
  <2> QED BY <1>1, <1>2, <1>3, <1>9, <2>1, <2>2 DEF SerialInv, NoKeyLost
<1>14. CASE Bump
  <2> DEFINE k == groups[index][i[index]]
  <2>1. /\ pc = "bump" /\ pc' = "visit" /\ un_compress_index_' = un_compress_index_ + 1
        /\ map_result' = Insert(map_result, k, p_result)
        /\ i' = [i EXCEPT ![index] = @ + 1] /\ UNCHANGED <<index, wpc, answer>>
    BY <1>14 DEF Bump, Here
  <2>2. index <= num /\ wpc[index] = "copy" /\ i[index] <= Len(groups[index])
    BY <1>2, <2>1
  <2>3. DOMAIN map_result' = DOMAIN map_result \cup {k}
    BY <2>1 DEF Insert
  <2>4. ASSUME NEW w \in Group PROVE VisitLossOK(w)'
    <3>1. VisitLossOK(w)
      BY <1>2
    <3>2. CASE w = index
      <4>1. i'[w] = i[w] + 1
        BY <1>2, <2>1, <3>2
      <4>2. \A m \in DOMAIN answer[w] : m < i[w] + 1 => m = i[w] \/ m < i[w]
        BY <1>6, <2>2, <3>1, <3>2 DEF VisitLossOK
      <4>3. groups[w][i[w]] \in DOMAIN map_result'
        BY <2>3, <3>2
      <4>4. DOMAIN map_result \subseteq DOMAIN map_result'
        BY <2>3
      <4> HIDE DEF k
      <4> QED
        BY <1>1, <1>6, <2>1, <2>2, <3>1, <3>2, <4>1, <4>2, <4>3, <4>4 DEF VisitLossOK
    <3>3. CASE w # index
      <4>1. i'[w] = i[w]
        BY <1>2, <2>1, <3>3
      <4> QED BY <1>1, <2>1, <2>3, <3>1, <4>1 DEF VisitLossOK
    <3> QED BY <3>2, <3>3
  <2>5. DOMAIN i' = Group /\ un_compress_index_' \in Nat
    BY <1>2, <2>1
  <2> QED BY <1>1, <1>2, <1>3, <1>8, <2>1, <2>2, <2>4, <2>5 DEF SerialInv, NoKeyLost
<1>15. CASE Leave
  <2>1. /\ pc = "visit" /\ pc' = "visit" /\ index <= num /\ wpc[index] = "copy"
        /\ \/ i[index] > Len(groups[index])
           \/ i[index] <= Len(groups[index]) /\ un_compress_index_ >= CompressNum
        /\ wpc' = [wpc EXCEPT ![index] = "done"] /\ index' = index + 1
        /\ UNCHANGED <<un_compress_index_, answer, i, map_result>>
    BY <1>15 DEF Leave, Visiting, Here, pool
  <2>2. key_num <= CompressNum => i[index] > Len(groups[index])
    BY <1>2, <1>6, <2>1, RedisMgetAssumption
  <2>3. ASSUME NEW w \in Group PROVE VisitLossOK(w)'
    <3>1. VisitLossOK(w) /\ w \in Nat
      BY <1>2 DEF Group
    <3>2. CASE w = index
      <4>1. key_num <= CompressNum => \A m \in DOMAIN answer[w] : m < i[w]
        BY <1>6, <2>1, <2>2, <3>1, <3>2 DEF VisitLossOK
      <4>2. wpc'[w] = "done" /\ ~(index' < w)
        BY <1>2, <2>1, <3>2
      <4> QED BY <1>1, <2>1, <3>1, <4>1, <4>2 DEF VisitLossOK
    <3>3. CASE w # index
      <4>1. wpc'[w] = wpc[w] /\ (w < index' => w < index) /\ (index' < w => index < w)
        BY <1>2, <2>1, <3>1, <3>3
      <4> QED BY <1>1, <2>1, <3>1, <4>1 DEF VisitLossOK
    <3> QED BY <3>2, <3>3
  <2>4. DOMAIN wpc' = Group /\ index' <= num + 1 /\ index' \in Nat \ {0}
    BY <1>2, <1>3, <2>1
  <2> QED BY <1>1, <1>2, <1>3, <1>7, <2>1, <2>3, <2>4 DEF SerialInv, NoKeyLost
<1>16. CASE VisitReturn
  <2>1. /\ pc' = "returned" /\ index = num + 1
        /\ UNCHANGED <<un_compress_index_, index, wpc, answer, i, map_result>>
    BY <1>16 DEF VisitReturn, pool, worker
  <2>2. ASSUME key_num <= CompressNum, NEW w \in Group PROVE Given(w) \subseteq DOMAIN map_result
    <3>1. VisitLossOK(w) /\ w < index
      BY <1>2, <1>3, <2>1 DEF Group
    <3> QED BY <2>2, <3>1 DEF VisitLossOK, Given
  <2>3. NoKeyLost'
    BY <1>1, <2>1, <2>2 DEF NoKeyLost, Given
  <2> QED BY <1>1, <1>2, <1>3, <2>1, <2>3 DEF SerialInv
<1> QED
  BY <1>10, <1>11, <1>12, <1>13, <1>14, <1>15, <1>16 DEF Serial

LEMMA SerialStep == SerialInv /\ WindowInv' /\ [Next]_vars => SerialInv'
<1> SUFFICES ASSUME SerialInv, WindowInv', [Next]_vars PROVE SerialInv'
  OBVIOUS
<1>1. CASE Call
  BY <1>1, SerialCall
<1>2. CASE parallel /\ ~Call
  BY <1>2 DEF SerialInv, Next, Multi, Serial, TakeWindow, Advance, Launch, Join, FetchFails, Fetch,
     Skip, Copy, Corrupt, Finish, VisitFails, Visit, VisitSkip, VisitCopy, Point, Bump, VisitCorrupt,
     Leave, VisitReturn, config, vars
<1>3. ASSUME ~parallel PROVE ~Multi
  BY <1>3 DEF SerialInv, Multi, TakeWindow, Advance, Launch, Join, FetchFails, Fetch, Skip, Copy,
     Corrupt, Finish, Copying
<1>4. CASE UNCHANGED vars
  BY <1>4 DEF vars, config, pool, request, worker, SerialInv, GroupsOK, VisitLossOK, Room, Passed,
     NoKeyLost, Given, Group
<1> QED BY <1>1, <1>2, <1>3, <1>4, SerialVisit DEF Next

\* A key whose server gave a value is left out only when there is no room: with
\* one pthread per server when the server's reply is longer than the window,
\* otherwise when the request is longer than the array.  This holds for every
\* size of the array, of MGET_THREAD_NUM and of the request, every grouping of
\* the keys and every order of the copies (hiredis_db_interface.h:346-560).
THEOREM NoneLost == Spec => []NoKeyLost
<1>1. LossInv /\ SerialInv => NoKeyLost
  BY DEF LossInv, SerialInv
<1> QED
  BY LossInit, LossStep, SerialInit, SerialStep, WindowInit, WindowStep, <1>1, PTL DEF Spec
=============================================================================
