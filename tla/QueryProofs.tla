------------------------------ MODULE QueryProofs ------------------------------
(***************************************************************************)
(* Theorems about Query, for every number of interfaces of each backend,   *)
(* buffers, keys and calls: the invariant of QueryInv is inductive, and    *)
(* from it what the callers of get_multi_db and mget rely on.              *)
(***************************************************************************)
EXTENDS QueryInv, FiniteSetTheorems, TLAPS

\* An interface has one backend.
LEMMA OneBackend ==
  ASSUME NEW d \in Db
  PROVE  \/ d \in Redis /\ d \notin Mc /\ d \notin Api /\ d \notin Woo
         \/ d \notin Redis /\ d \in Mc /\ d \notin Api /\ d \notin Woo
         \/ d \notin Redis /\ d \notin Mc /\ d \in Api /\ d \notin Woo
         \/ d \notin Redis /\ d \notin Mc /\ d \notin Api /\ d \in Woo
BY DbCallAssumption

-----------------------------------------------------------------------------
(* What the updates of the backends come to. *)

\* The call on d is now there, with these results.
CallIs(d, pc, ret, result, served) ==
  /\ call' \in CallTypes /\ \A e \in Db \ {d} : call'[e] = call[e]
  /\ call'[d].op = call[d].op /\ call'[d].pc = pc /\ call'[d].ret = ret
  /\ call'[d].result = result /\ call'[d].served = served

IfaceIs(d, index, handle) ==
  /\ iface' \in IfaceTypes /\ \A e \in Db \ {d} : iface'[e] = iface[e]
  /\ iface'[d].index = index /\ iface'[d].handle = handle

HeapIs(d, more) ==
  /\ heap' \in HeapTypes /\ \A e \in Db \ {d} : heap'[e] = heap[e]
  /\ \A k \in Kind : heap'[d][k] = heap[d][k] + more[k]

\* So many more of two kinds.
Two(k1, n1, k2, n2) == [k \in Kind |-> IF k = k1 THEN n1 ELSE IF k = k2 THEN n2 ELSE 0]

LEMMA GotoIs ==
  ASSUME TypesOK, NEW d \in Db, NEW pc \in Pc, Goto(d, pc)
  PROVE  CallIs(d, pc, call[d].ret, call[d].result, call[d].served)
BY DEF TypesOK, CallTypes, Goto, CallIs

LEMMA ReturnIs ==
  ASSUME TypesOK, NEW d \in Db, NEW ret \in Int, Return(d, ret)
  PROVE  CallIs(d, "returned", ret, call[d].result, call[d].served)
BY DEF TypesOK, CallTypes, Return, CallIs, Pc

LEMMA CallSame ==
  ASSUME TypesOK, NEW d \in Db, UNCHANGED call
  PROVE  CallIs(d, call[d].pc, call[d].ret, call[d].result, call[d].served)
BY DEF TypesOK, CallIs

LEMMA StoreIs ==
  ASSUME TypesOK, NEW d \in Db, NEW ret \in Int, Store(d, ret)
  PROVE  /\ CallIs(d, "returned", ret, iface[d].index, TRUE)
         /\ IfaceIs(d, iface[d].index + 1, iface[d].handle)
         /\ iface[d].index \in Buffer => iface'[d].buffer[iface[d].index] = <<round, 0, "text">>
<1>1. CallIs(d, "returned", ret, iface[d].index, TRUE)
  BY DEF TypesOK, CallTypes, IfaceTypes, Store, CallIs, Pc
<1>2. <<round, 0, "text">> \in Nat \X Nat \X Form
  BY DEF TypesOK, Form
<1>3. IfaceIs(d, iface[d].index + 1, iface[d].handle)
  BY <1>2 DEF TypesOK, IfaceTypes, Store, IfaceIs
<1>4. iface[d].index \in Buffer => iface'[d].buffer[iface[d].index] = <<round, 0, "text">>
  BY DEF TypesOK, IfaceTypes, Store
<1> QED BY <1>1, <1>3, <1>4

LEMMA IfaceSame ==
  ASSUME TypesOK, NEW d \in Db, UNCHANGED iface
  PROVE  IfaceIs(d, iface[d].index, iface[d].handle)
BY DEF TypesOK, IfaceIs

LEMMA HeapChanges ==
  ASSUME TypesOK, NEW d \in Db, NEW change, Heap(d, change),
         NEW more \in [Kind -> Int],
         \A k \in Kind : more[k] = IF k \in DOMAIN change THEN change[k] ELSE 0
  PROVE  HeapIs(d, more)
<1>1. heap' = [heap EXCEPT ![d] = [k \in Kind |-> @[k] + more[k]]]
  BY DEF Heap
<1> QED BY <1>1 DEF TypesOK, HeapIs, HeapTypes

LEMMA HeapTwo ==
  ASSUME TypesOK, NEW d \in Db, NEW k1, NEW k2, k1 # k2, NEW n1 \in Int, NEW n2 \in Int,
         NEW change, Heap(d, change), DOMAIN change \subseteq {k1, k2},
         k1 \in DOMAIN change => change[k1] = n1, k1 \notin DOMAIN change => n1 = 0,
         k2 \in DOMAIN change => change[k2] = n2, k2 \notin DOMAIN change => n2 = 0
  PROVE  HeapIs(d, Two(k1, n1, k2, n2))
<1> DEFINE more == Two(k1, n1, k2, n2)
<1>1. \A k \in Kind : more[k] = IF k \in DOMAIN change THEN change[k] ELSE 0
  BY DEF Two
<1>2. more \in [Kind -> Int]
  BY DEF Two
<1> HIDE DEF more
<1> QED BY <1>1, <1>2, HeapChanges DEF more

LEMMA HeapSame ==
  ASSUME TypesOK, NEW d \in Db, UNCHANGED heap, NEW k1, NEW k2
  PROVE  HeapIs(d, Two(k1, 0, k2, 0))
BY DEF TypesOK, HeapIs, HeapTypes, Two

-----------------------------------------------------------------------------
(* One step of an interface. *)

\* What it leaves alone.
Alone(d) ==
  /\ \A e \in Db \ {d} : call'[e] = call[e] /\ iface'[e] = iface[e] /\ heap'[e] = heap[e]
  /\ \A e \in Db \ {d} : \A k \in Kind : <<e, k>> \in odd' <=> <<e, k>> \in odd
  /\ many' = many \/ (phase = "many" /\ many.db = d /\ many'.db = d)
  /\ UNCHANGED <<round, phase, asked>>

\* Where it leads.
Leads(d) ==
  /\ TypesOK' /\ Alone(d) /\ CallOK(d)' /\ HeapOK(d)'
  /\ phase = "joining" => AnswerOK(d)'
  /\ phase = "many" => ManyOK'

\* Where it comes from, after the thread has made the call.
Busy(d) ==
  /\ TypesOK /\ CallOK(d) /\ HeapOK(d) /\ ManyOK /\ d \in Db
  /\ call[d].pc \in Places(d)
  /\ \/ phase = "joining" /\ d \in DOMAIN asked /\ AnswerOK(d) /\ call[d].op \in GetOps
     \/ phase = "many" /\ d = many.db /\ call[d].op \in Ops(d)

LEMMA BusyIs ==
  ASSUME IInv, NEW d \in Db, call[d].pc \in {"begin", "select", "ask", "reply", "wait"}
  PROVE  Busy(d)
<1>1. call[d].pc # "idle" /\ call[d].pc # "thread" /\ call[d].pc # "returned" /\ call[d] # NoCall
      /\ call[d] # [NoCall EXCEPT !.pc = "thread"]
  BY DEF NoCall
<1>2. CallOK(d) /\ HeapOK(d) /\ ManyOK /\ TypesOK /\ AnswersOK
  BY DEF IInv
<1>3. Active(d) /\ phase # "joined" /\ call[d].pc \in Places(d)
  BY <1>1, <1>2 DEF CallOK
<1>4. CASE phase = "joining"
  BY <1>1, <1>2, <1>3, <1>4 DEF Active, AnswersOK, Threads, AnswerOK, Busy
<1>5. CASE phase = "many"
  BY <1>2, <1>3, <1>5 DEF Active, ManyOK, Busy
<1> QED BY <1>3, <1>4, <1>5 DEF Active

LEMMA BusyPc ==
  ASSUME NEW d \in Db, Busy(d)
  PROVE  call[d].pc \in {"begin", "select", "ask", "reply", "wait"}
BY OneBackend DEF Busy, Places

\* get and s_get are calls of get_multi_db, the others are not.
LEMMA WhichOps ==
  ASSUME NEW d \in Db, Busy(d)
  PROVE  (call[d].op \in GetOps <=> phase = "joining") /\ (call[d].op \notin GetOps <=> phase = "many")
BY OneBackend DEF Busy, Ops, GetOps

LEMMA LeadsIf ==
  ASSUME NEW d \in Db, Busy(d), UNCHANGED <<round, phase, asked>>,
         NEW pc, NEW ret, NEW result, NEW served, CallIs(d, pc, ret, result, served),
         NEW index, NEW handle, IfaceIs(d, index, handle),
         NEW more, HeapIs(d, more),
         \A e \in Db \ {d} : \A k \in Kind : <<e, k>> \in odd' <=> <<e, k>> \in odd,
         many' = many \/ (phase = "many" /\ many'.db = d /\ DOMAIN many' = DOMAIN NoMany),
         pc \in Places(d) \cup {"returned"},
         HeapOK(d)', phase = "joining" => AnswerOK(d)', phase = "many" => ManyOK'
  PROVE  Leads(d)
<1>1. TypesOK'
  BY DEF Busy, TypesOK, CallIs, IfaceIs, HeapIs
<1>2. Alone(d)
  <2>1. phase = "many" => many.db = d
    BY DEF Busy
  <2>2. \A e \in Db \ {d} : call'[e] = call[e] /\ iface'[e] = iface[e] /\ heap'[e] = heap[e]
    BY DEF CallIs, IfaceIs, HeapIs
  <2> QED BY <2>1, <2>2 DEF Alone
<1>3. Places(d)' = Places(d) /\ call'[d].pc = pc
  BY DEF Places, CallIs
<1>4. Active(d) /\ Active(d)' /\ phase' = phase /\ phase # "joined"
  BY DEF Busy, Active
<1>5. CallOK(d)'
  BY <1>3, <1>4 DEF CallOK
<1> QED BY <1>1, <1>2, <1>5 DEF Leads

\* A step that touches neither the keys nor what has been stored.
LEMMA ManyKept ==
  ASSUME NEW d \in Db, Busy(d), UNCHANGED <<round, phase, many>>, phase = "many",
         call'[d].op = call[d].op,
         iface'[d].index = iface[d].index, iface'[d].buffer = iface[d].buffer
  PROVE  ManyOK'
<1>1. d = many.db /\ ManyOK
  BY DEF Busy
<1>2. /\ RedisManyOK(iface[d]) => RedisManyOK(iface[d])'
      /\ McManyOK(iface[d]) => McManyOK(iface[d])'
      /\ WooManyOK(iface[d]) => WooManyOK(iface[d])'
      /\ SmgetOK(iface[d]) => SmgetOK(iface[d])'
  BY ZenonT(40) DEF RedisManyOK, McManyOK, WooManyOK, SmgetOK, OwnBuffers, Begins
<1> QED BY <1>1, <1>2 DEF ManyOK

\* A get that goes on without a value.
LEMMA GetGoesOn ==
  ASSUME NEW d \in Db, Busy(d), phase = "joining", NEW pc \in {"begin", "select", "ask", "reply"},
         NEW ret, CallIs(d, pc, ret, call[d].result, call[d].served), d \notin Woo,
         iface'[d].index = iface[d].index
  PROVE  AnswerOK(d)'
<1>1. call[d].pc # "returned" /\ call[d].pc # "thread" /\ AnswerOK(d) /\ call[d].op \in GetOps
  BY BusyPc DEF Busy
<1>2. pc # "returned" /\ pc # "thread"
  OBVIOUS
<1> QED BY <1>1, <1>2 DEF AnswerOK, CallIs

\* A get that ends without a value.
LEMMA GetEnds ==
  ASSUME NEW d \in Db, Busy(d), phase = "joining", d \notin Woo,
         NEW ret \in Int, CallIs(d, "returned", ret, call[d].result, call[d].served),
         d \in Redis \cap Plain => ret <= 0
  PROVE  AnswerOK(d)'
<1>1. call[d].pc # "returned" /\ call[d].pc # "thread" /\ AnswerOK(d)
  BY BusyPc DEF Busy
<1>2. call[d].served = FALSE /\ call[d].result = Null
  BY <1>1 DEF AnswerOK, Busy, TypesOK, CallTypes
<1> QED BY <1>2 DEF AnswerOK, CallIs

\* A get that stores its value.
LEMMA GetStores ==
  ASSUME NEW d \in Db, Busy(d), phase = "joining", d \notin Woo, UNCHANGED round,
         NEW ret \in Int, Store(d, ret), d \in Redis \cap Plain => ret > 0
  PROVE  AnswerOK(d)'
<1>1. call[d].pc # "returned" /\ call[d].pc # "thread" /\ AnswerOK(d) /\ TypesOK
  BY BusyPc DEF Busy
<1>2. iface[d].index = 0 /\ 0 \in Buffer
  BY <1>1, DbCallAssumption DEF AnswerOK, Buffer
<1>3. CallIs(d, "returned", ret, 0, TRUE) /\ iface'[d].buffer[0] = <<round, 0, "text">>
  BY <1>1, <1>2, StoreIs
<1> QED BY <1>2, <1>3 DEF AnswerOK, CallIs

-----------------------------------------------------------------------------
(* The ways on of a call that are common to the backends but woo. *)

OddKept(d) == \A e \in Db \ {d} : \A k \in Kind : <<e, k>> \in odd' <=> <<e, k>> \in odd

LEMMA GoesOn ==
  ASSUME NEW d \in Db, d \notin Woo, Busy(d), UNCHANGED <<round, phase, asked, many>>, OddKept(d),
         NEW pc \in {"begin", "select", "ask", "reply"}, pc \in Places(d), Goto(d, pc),
         NEW handle, IfaceIs(d, iface[d].index, handle),
         phase = "many" => iface'[d].buffer = iface[d].buffer,
         NEW more, HeapIs(d, more), HeapOK(d)'
  PROVE  Leads(d)
<1>1. CallIs(d, pc, call[d].ret, call[d].result, call[d].served)
  BY GotoIs DEF Busy, Pc
<1>2. phase = "joining" => AnswerOK(d)'
  BY <1>1, GetGoesOn DEF IfaceIs
<1>3. phase = "many" => ManyOK'
  BY <1>1, ManyKept DEF CallIs, IfaceIs
<1> QED BY <1>1, <1>2, <1>3, LeadsIf DEF OddKept

LEMMA Ends ==
  ASSUME NEW d \in Db, d \notin Woo, Busy(d), UNCHANGED <<round, phase, asked, many>>, OddKept(d),
         NEW ret \in Int, Return(d, ret), phase = "joining" /\ d \in Redis => ret <= 0 \/ d \notin Plain,
         NEW handle, IfaceIs(d, iface[d].index, handle),
         phase = "many" => iface'[d].buffer = iface[d].buffer,
         NEW more, HeapIs(d, more), HeapOK(d)'
  PROVE  Leads(d)
<1>1. CallIs(d, "returned", ret, call[d].result, call[d].served)
  BY ReturnIs DEF Busy
<1>2. phase = "joining" => AnswerOK(d)'
  BY <1>1, GetEnds
<1>3. phase = "many" => ManyOK'
  BY <1>1, ManyKept DEF CallIs, IfaceIs
<1> QED BY <1>1, <1>2, <1>3, LeadsIf DEF OddKept

LEMMA Stores ==
  ASSUME NEW d \in Db, d \notin Woo, Busy(d), UNCHANGED <<round, phase, asked, many, odd>>,
         call[d].op \in GetOps,
         NEW ret \in Int, Store(d, ret), d \in Redis \cap Plain => ret > 0,
         NEW more, HeapIs(d, more), HeapOK(d)'
  PROVE  Leads(d)
<1>1. /\ CallIs(d, "returned", ret, iface[d].index, TRUE)
      /\ IfaceIs(d, iface[d].index + 1, iface[d].handle)
  BY StoreIs DEF Busy
<1>2. phase = "joining" /\ phase # "many"
  BY WhichOps
<1>3. AnswerOK(d)'
  BY <1>2, GetStores
<1> QED BY <1>1, <1>2, <1>3, LeadsIf

\* What an interface holds and what it should hold change alike.
LEMMA HeapGoes ==
  ASSUME NEW d \in Db, TypesOK, HeapOK(d), NEW more \in [Kind -> Int], HeapIs(d, more),
         \A k \in Kind : Owns(d, k) \in Int /\ Owns(d, k)' \in Int,
         \A k \in Kind : <<d, k>> \in odd => <<d, k>> \in odd',
         \A k \in Kind : \/ Owns(d, k)' = Owns(d, k) + more[k]
                         \/ <<d, k>> \in odd' /\ Owns(d, k)' <= Owns(d, k) + more[k]
  PROVE  HeapOK(d)'
<1> SUFFICES ASSUME NEW k \in Kind
             PROVE  /\ heap'[d][k] >= Owns(d, k)'
                    /\ <<d, k>> \notin odd' => heap'[d][k] = Owns(d, k)'
  BY DEF HeapOK
<1> DEFINE before == Owns(d, k)
           after == Owns(d, k)'
<1>1. before \in Int /\ after \in Int /\ more[k] \in Int /\ heap[d][k] \in Int
  BY DEF TypesOK, HeapTypes
<1>2. /\ heap[d][k] >= before /\ (<<d, k>> \notin odd => heap[d][k] = before)
      /\ heap'[d][k] = heap[d][k] + more[k]
      /\ <<d, k>> \in odd => <<d, k>> \in odd'
      /\ after = before + more[k] \/ (<<d, k>> \in odd' /\ after <= before + more[k])
  BY DEF HeapOK, HeapIs
<1> HIDE DEF before, after
<1>3. heap'[d][k] >= after /\ (<<d, k>> \notin odd' => heap'[d][k] = after)
  BY <1>1, <1>2
<1> QED BY <1>3 DEF after

-----------------------------------------------------------------------------
(* The calls for many keys. *)

LEMMA InsertIs ==
  ASSUME NEW map, NEW k, NEW b
  PROVE  /\ DOMAIN Insert(map, k, b) = DOMAIN map \cup {k}
         /\ \A x \in DOMAIN map : Insert(map, k, b)[x] = map[x]
         /\ k \notin DOMAIN map => Insert(map, k, b)[k] = b
BY DEF Insert

\* What keeps pointers apart, for a loop that puts value k into buffer b.
LEMMA PointersNext ==
  ASSUME NEW map, NEW b \in Buffer, NEW name, name \notin DOMAIN map, Pointers(map, b)
  PROVE  Pointers(Insert(map, name, b), b + 1)
<1> DEFINE map2 == Insert(map, name, b)
<1>1. /\ DOMAIN map2 = DOMAIN map \cup {name}
      /\ \A x \in DOMAIN map : map2[x] = map[x]
      /\ map2[name] = b
  BY InsertIs
<1> HIDE DEF map2
<1>2. b \in Int /\ \A x \in DOMAIN map : map[x] \in Buffer /\ map[x] < b /\ map[x] \in Int
  BY DEF Buffer, Pointers
<1>3. \A x \in DOMAIN map2 : map2[x] \in Buffer /\ map2[x] < b + 1
  BY <1>1, <1>2
<1>4. \A j, k \in DOMAIN map2 : j # k => map2[j] # map2[k]
  BY <1>1, <1>2 DEF Pointers
<1> QED BY <1>3, <1>4 DEF Pointers, map2

LEMMA PointersStay ==
  ASSUME NEW map, NEW index \in Int, Pointers(map, index)
  PROVE  Pointers(map, index + 1)
<1>1. \A k \in DOMAIN map : map[k] \in Int
  BY DEF Pointers, Buffer
<1> QED BY <1>1 DEF Pointers

\* The fields of many that the loops change.
ManyIs(at, got, map) ==
  /\ DOMAIN many' = DOMAIN NoMany
  /\ many'.at = at /\ many'.got = got /\ many'.map = map
  /\ many'.db = many.db /\ many'.keys = many.keys /\ many'.null = many.null
  /\ many'.sent = many.sent /\ many'.open = many.open

LEMMA SkipIs ==
  ASSUME TypesOK, Skip
  PROVE  ManyIs(many.at + 1, many.got, many.map)
BY DEF TypesOK, NoMany, Skip, ManyIs

LEMMA StoreManyIs ==
  ASSUME TypesOK, NEW d \in Db, NEW k \in Nat, NEW name, StoreMany(d, k, name)
  PROVE  /\ IfaceIs(d, iface[d].index + 1, iface[d].handle)
         /\ iface'[d].buffer = [iface[d].buffer EXCEPT ![iface[d].index] = <<round, k, "text">>]
         /\ ManyIs(many.at + 1, many.got \cup {k}, Insert(many.map, name, iface[d].index))
<1>1. <<round, k, "text">> \in Nat \X Nat \X Form
  BY DEF TypesOK, Form
<1>2. /\ IfaceIs(d, iface[d].index + 1, iface[d].handle)
      /\ iface'[d].buffer = [iface[d].buffer EXCEPT ![iface[d].index] = <<round, k, "text">>]
  <2>1. PICK content \in Nat \X Nat \X Form : content = <<round, k, "text">>
    BY <1>1
  <2>2. iface' = [iface EXCEPT ![d].buffer[iface[d].index] = content, ![d].index = @ + 1]
    BY <2>1 DEF StoreMany
  <2>3. IfaceIs(d, iface[d].index + 1, iface[d].handle)
    BY <2>2 DEF TypesOK, IfaceTypes, IfaceIs
  <2>4. iface'[d].buffer = [iface[d].buffer EXCEPT ![iface[d].index] = content]
    BY <2>2 DEF TypesOK, IfaceTypes
  <2> QED BY <2>1, <2>3, <2>4
<1>3. ManyIs(many.at + 1, many.got \cup {k}, Insert(many.map, name, iface[d].index))
  BY DEF TypesOK, NoMany, StoreMany, Give, ManyIs
<1> QED BY <1>2, <1>3

\* Storing a value spoils no other.
LEMMA StoredIsOwn ==
  ASSUME TypesOK, NEW d \in Db, UNCHANGED round, NEW k, NEW b \in Buffer, k \notin DOMAIN many.map,
         iface'[d].buffer = [iface[d].buffer EXCEPT ![b] = <<round, k, "text">>],
         many'.got = many.got \cup {k}, many'.map = Insert(many.map, k, b),
         Pointers(many.map, b), OwnBuffers(iface[d])
  PROVE  OwnBuffers(iface[d])'
<1>1. iface[d].buffer \in [Buffer -> Nat \X Nat \X Form]
  BY DEF TypesOK, IfaceTypes
<1>2. /\ iface'[d].buffer[b] = <<round, k, "text">>
      /\ \A x \in Buffer : x # b => iface'[d].buffer[x] = iface[d].buffer[x]
  BY <1>1
<1>3. \A x \in DOMAIN many.map : many.map[x] \in Buffer /\ many.map[x] # b
  BY DEF Pointers, Buffer
<1>4. /\ DOMAIN many'.map = DOMAIN many.map \cup {k} /\ many'.map[k] = b
      /\ \A x \in DOMAIN many.map : many'.map[x] = many.map[x]
  <2>1. PICK map : map = many.map
    OBVIOUS
  <2>2. /\ DOMAIN Insert(map, k, b) = DOMAIN map \cup {k} /\ (k \notin DOMAIN map => Insert(map, k, b)[k] = b)
        /\ \A x \in DOMAIN map : Insert(map, k, b)[x] = map[x]
    BY DEF Insert
  <2> QED BY <2>1, <2>2
<1> QED BY <1>2, <1>3, <1>4 DEF OwnBuffers

\* A buffer is passed over.
LEMMA IndexIs ==
  ASSUME TypesOK, NEW d \in Db, iface' = [iface EXCEPT ![d].index = @ + 1]
  PROVE  IfaceIs(d, iface[d].index + 1, iface[d].handle) /\ iface'[d].buffer = iface[d].buffer
BY DEF TypesOK, IfaceTypes, IfaceIs

\* A step of a loop over the keys.
LEMMA ManyGoesOn ==
  ASSUME NEW d \in Db, Busy(d), phase = "many", UNCHANGED <<round, phase, asked, call>>, OddKept(d),
         NEW index, NEW handle, IfaceIs(d, index, handle), NEW more, HeapIs(d, more),
         many'.db = many.db, DOMAIN many' = DOMAIN NoMany, HeapOK(d)', ManyOK'
  PROVE  Leads(d)
<1>1. CallIs(d, call[d].pc, call[d].ret, call[d].result, call[d].served)
  BY CallSame DEF Busy
<1>2. call[d].pc \in Places(d) /\ many.db = d /\ phase # "joining"
  BY DEF Busy
<1> QED BY <1>1, <1>2, LeadsIf DEF OddKept

-----------------------------------------------------------------------------
(* redis *)

Connected(pc) == IF pc \in {"select", "ask", "reply"} THEN 1 ELSE 0
Replied(pc) == IF pc = "reply" THEN 1 ELSE 0

LEMMA RedisOwns ==
  ASSUME NEW d \in Redis, NEW k \in Kind
  PROVE  /\ Owns(d, k) = IF k = "redis" THEN Connected(call[d].pc)
                         ELSE IF k = "reply" THEN Replied(call[d].pc) ELSE 0
         /\ Owns(d, k)' = IF k = "redis" THEN Connected(call'[d].pc)
                          ELSE IF k = "reply" THEN Replied(call'[d].pc) ELSE 0
<1>1. d \notin Mc /\ d \notin Api /\ d \notin Woo
  BY DbCallAssumption
<1>2. CASE k = "redis"
  BY <1>1, <1>2 DEF Owns, Connected
<1>3. CASE k = "reply"
  BY <1>1, <1>3 DEF Owns, Replied
<1>4. CASE k # "redis" /\ k # "reply"
  BY <1>1, <1>4 DEF Owns
<1> QED BY <1>2, <1>3, <1>4

\* Connections and replies come and go with the place of the call.
RedisMoves(d, r, p) ==
  /\ HeapIs(d, Two("redis", r, "reply", p))
  /\ \A k \in Kind : <<d, k>> \in odd => <<d, k>> \in odd'
  /\ Connected(call'[d].pc) = Connected(call[d].pc) + r
  /\ \/ Replied(call'[d].pc) = Replied(call[d].pc) + p
     \/ <<d, "reply">> \in odd' /\ Replied(call'[d].pc) <= Replied(call[d].pc) + p

LEMMA RedisHeap ==
  ASSUME NEW d \in Redis, d \in Db, TypesOK, HeapOK(d), NEW r \in Int, NEW p \in Int,
         RedisMoves(d, r, p)
  PROVE  HeapOK(d)'
<1>1. \A k \in Kind : Owns(d, k) \in Int /\ Owns(d, k)' \in Int
  BY RedisOwns DEF Connected, Replied
<1> DEFINE more == Two("redis", r, "reply", p)
<1>2. more \in [Kind -> Int]
  BY DEF Two
<1>3. ASSUME NEW k \in Kind
      PROVE  \/ Owns(d, k)' = Owns(d, k) + more[k]
             \/ <<d, k>> \in odd' /\ Owns(d, k)' <= Owns(d, k) + more[k]
  <2>1. CASE k = "redis"
    BY <2>1, RedisOwns DEF Two, RedisMoves
  <2>2. CASE k = "reply"
    BY <2>2, RedisOwns DEF Two, RedisMoves
  <2>3. CASE k # "redis" /\ k # "reply"
    BY <2>3, RedisOwns DEF Two
  <2> QED BY <2>1, <2>2, <2>3
<1> HIDE DEF more
<1> QED BY <1>1, <1>2, <1>3, HeapGoes DEF RedisMoves, more

LEMMA HeapRedis ==
  ASSUME TypesOK, NEW d \in Db
  PROVE  /\ UNCHANGED heap => HeapIs(d, Two("redis", 0, "reply", 0))
         /\ Heap(d, [redis |-> 1]) => HeapIs(d, Two("redis", 1, "reply", 0))
         /\ Heap(d, [redis |-> -1]) => HeapIs(d, Two("redis", -1, "reply", 0))
         /\ Heap(d, [reply |-> 1]) => HeapIs(d, Two("redis", 0, "reply", 1))
         /\ Heap(d, [reply |-> 1, redis |-> -1]) => HeapIs(d, Two("redis", -1, "reply", 1))
         /\ Heap(d, [reply |-> -1, redis |-> -1]) => HeapIs(d, Two("redis", -1, "reply", -1))
<1>1. ASSUME NEW r \in Int, NEW p \in Int, NEW change, Heap(d, change),
             DOMAIN change \subseteq {"redis", "reply"},
             "redis" \in DOMAIN change => change["redis"] = r, "redis" \notin DOMAIN change => r = 0,
             "reply" \in DOMAIN change => change["reply"] = p, "reply" \notin DOMAIN change => p = 0
      PROVE  HeapIs(d, Two("redis", r, "reply", p))
  <2>1. "redis" # "reply"
    OBVIOUS
  <2> QED BY <1>1, <2>1, HeapTwo
<1>2. /\ Heap(d, [redis |-> 1]) => HeapIs(d, Two("redis", 1, "reply", 0))
      /\ Heap(d, [redis |-> -1]) => HeapIs(d, Two("redis", -1, "reply", 0))
      /\ Heap(d, [reply |-> 1]) => HeapIs(d, Two("redis", 0, "reply", 1))
  BY <1>1
<1>3. /\ Heap(d, [reply |-> 1, redis |-> -1]) => HeapIs(d, Two("redis", -1, "reply", 1))
      /\ Heap(d, [reply |-> -1, redis |-> -1]) => HeapIs(d, Two("redis", -1, "reply", -1))
  BY <1>1
<1> QED BY <1>2, <1>3, HeapSame

LEMMA RedisGoesOn ==
  ASSUME NEW d \in Redis, Busy(d), UNCHANGED <<round, phase, asked, iface, many, odd>>,
         NEW pc \in {"select", "ask", "reply"}, Goto(d, pc), NEW r \in Int, NEW p \in Int,
         HeapIs(d, Two("redis", r, "reply", p)),
         Connected(pc) = Connected(call[d].pc) + r, Replied(pc) = Replied(call[d].pc) + p
  PROVE  Leads(d)
<1>1. d \in Db /\ d \notin Mc /\ d \notin Api /\ d \notin Woo /\ TypesOK /\ HeapOK(d)
  BY DbCallAssumption DEF Busy
<1>2. call'[d].pc = pc
  BY <1>1, GotoIs DEF CallIs, Pc
<1>3. HeapOK(d)'
  BY <1>1, <1>2, RedisHeap DEF RedisMoves
<1>4. pc \in Places(d) /\ OddKept(d) /\ IfaceIs(d, iface[d].index, iface[d].handle)
  BY <1>1, IfaceSame DEF Places, OddKept
<1> QED BY <1>1, <1>3, <1>4, GoesOn

LEMMA RedisEnds ==
  ASSUME NEW d \in Redis, Busy(d), UNCHANGED <<round, phase, asked, iface, many>>,
         odd' = odd \/ odd' = odd \cup {<<d, "reply">>},
         NEW ret \in Int, Return(d, ret), phase = "joining" => ret <= 0 \/ d \notin Plain,
         NEW r \in Int, NEW p \in Int, HeapIs(d, Two("redis", r, "reply", p)),
         0 = Connected(call[d].pc) + r,
         \/ 0 = Replied(call[d].pc) + p
         \/ odd' = odd \cup {<<d, "reply">>} /\ 0 <= Replied(call[d].pc) + p
  PROVE  Leads(d)
<1>1. d \in Db /\ d \notin Mc /\ d \notin Api /\ d \notin Woo /\ TypesOK /\ HeapOK(d)
  BY DbCallAssumption DEF Busy
<1>2. call'[d].pc = "returned"
  BY <1>1, ReturnIs DEF CallIs
<1>3. Connected("returned") = 0 /\ Replied("returned") = 0
  BY DEF Connected, Replied
<1>4. RedisMoves(d, r, p)
  <2>1. \A k \in Kind : <<d, k>> \in odd => <<d, k>> \in odd'
    OBVIOUS
  <2>2. \/ 0 = Replied(call[d].pc) + p
        \/ <<d, "reply">> \in odd' /\ 0 <= Replied(call[d].pc) + p
    OBVIOUS
  <2> QED BY <1>2, <1>3, <2>1, <2>2 DEF RedisMoves
<1>5. HeapOK(d)'
  BY <1>1, <1>4, RedisHeap
<1>6. OddKept(d) /\ IfaceIs(d, iface[d].index, iface[d].handle)
  BY <1>1, IfaceSame DEF OddKept
<1> QED BY <1>1, <1>5, <1>6, Ends

LEMMA ElementOK ==
  ASSUME NEW d \in Redis, Busy(d), Element(d), UNCHANGED <<round, phase, asked>>
  PROVE  Leads(d)
<1>1. d \in Db /\ TypesOK /\ HeapOK(d) /\ ManyOK
  BY DEF Busy
<1>2. /\ UNCHANGED <<call, heap, odd>> /\ call[d].op = "s_mget"
      /\ many.at <= many.keys /\ iface[d].index < CompressNum
  BY DEF Element
<1>3. phase = "many" /\ many.db = d
  BY <1>1, <1>2 DEF Busy, GetOps
<1>4. RedisManyOK(iface[d]) /\ many.keys \in Nat /\ iface[d].index \in Nat /\ iface[d].index \in Buffer
  BY <1>1, <1>2, <1>3, DbCallAssumption DEF ManyOK, TypesOK, IfaceTypes, Buffer
<1>5. HeapIs(d, Two("redis", 0, "reply", 0)) /\ HeapOK(d)' /\ OddKept(d)
  <2>1. HeapIs(d, Two("redis", 0, "reply", 0))
    BY <1>1, <1>2, HeapRedis
  <2>2. RedisMoves(d, 0, 0)
    BY <1>2, <2>1 DEF RedisMoves, Connected, Replied
  <2> QED BY <1>1, <1>2, <2>1, <2>2, RedisHeap DEF OddKept
<1>6. ASSUME NEW index \in Nat, IfaceIs(d, index, iface[d].handle), RedisManyOK(iface[d])',
             many'.db = d, many'.keys = many.keys, DOMAIN many' = DOMAIN NoMany
      PROVE  Leads(d)
  <2>1. ManyOK'
    BY <1>1, <1>2, <1>3, <1>4, <1>6 DEF ManyOK, Ops
  <2> QED BY <1>1, <1>2, <1>3, <1>5, <1>6, <2>1, ManyGoesOn
<1>7. CASE Skip /\ UNCHANGED iface
  <2>1. ManyIs(many.at + 1, many.got, many.map)
    BY <1>1, <1>7, SkipIs
  <2>2. RedisManyOK(iface[d])'
    <3>1. many'.at \in Nat \ {0} /\ many.got \subseteq 1 .. many'.at - 1
      BY <1>4, <2>1 DEF RedisManyOK, ManyIs
    <3> QED BY <1>4, <1>7, <2>1, <3>1 DEF RedisManyOK, OwnBuffers, ManyIs
  <2> QED BY <1>1, <1>3, <1>4, <1>6, <1>7, <2>1, <2>2, IfaceSame DEF ManyIs
<1>8. CASE Skip /\ iface' = [iface EXCEPT ![d].index = @ + 1]
  <2>1. /\ ManyIs(many.at + 1, many.got, many.map)
        /\ IfaceIs(d, iface[d].index + 1, iface[d].handle) /\ iface'[d].buffer = iface[d].buffer
    BY <1>1, <1>8, SkipIs, IndexIs
  <2>2. RedisManyOK(iface[d])'
    <3>1. many'.at \in Nat \ {0} /\ many.got \subseteq 1 .. many'.at - 1
      BY <1>4, <2>1 DEF RedisManyOK, ManyIs
    <3>2. Pointers(many.map, iface[d].index + 1)
      BY <1>4, PointersStay DEF RedisManyOK
    <3> QED BY <1>4, <2>1, <3>1, <3>2 DEF RedisManyOK, OwnBuffers, ManyIs, IfaceIs
  <2>3. iface[d].index + 1 \in Nat
    BY <1>4
  <2> QED BY <1>3, <1>6, <2>1, <2>2, <2>3 DEF ManyIs
<1>9. CASE StoreMany(d, many.at, many.at)
  <2> DEFINE k == many.at
             b == iface[d].index
             map == many.map
  <2>1. k \in Nat \ {0} /\ b \in Nat /\ DOMAIN map = many.got /\ many.got \subseteq 1 .. k - 1
        /\ k \notin DOMAIN map
    BY <1>4 DEF RedisManyOK
  <2>2. /\ IfaceIs(d, b + 1, iface[d].handle)
        /\ iface'[d].buffer = [iface[d].buffer EXCEPT ![b] = <<round, k, "text">>]
        /\ ManyIs(k + 1, many.got \cup {k}, Insert(map, k, b))
    BY <1>1, <1>9, <2>1, StoreManyIs
  <2>3. RedisManyOK(iface[d])'
    <3>1. many'.at \in Nat \ {0} /\ many'.got \subseteq 1 .. many'.at - 1
      <4>1. many'.at = k + 1 /\ many'.got = many.got \cup {k}
        BY <2>2 DEF ManyIs
      <4> HIDE DEF k
      <4> QED BY <2>1, <4>1
    <3>2. Pointers(Insert(map, k, b), b + 1)
      BY <1>4, <2>1, PointersNext DEF RedisManyOK
    <3>3. OwnBuffers(iface[d])'
      BY <1>1, <1>4, <2>1, <2>2, StoredIsOwn DEF RedisManyOK, ManyIs
    <3>4. DOMAIN Insert(map, k, b) = DOMAIN map \cup {k}
      BY DEF Insert
    <3>5. /\ iface'[d].index = b + 1 /\ many'.map = Insert(map, k, b)
          /\ many'.got = many.got \cup {k} /\ DOMAIN many'.map = many'.got
      BY <2>1, <2>2, <3>4 DEF ManyIs, IfaceIs
    <3> QED BY <3>1, <3>2, <3>3, <3>5 DEF RedisManyOK
  <2>4. b + 1 \in Nat
    BY <2>1
  <2> QED BY <1>3, <1>6, <2>2, <2>3, <2>4 DEF ManyIs
<1> QED BY <1>7, <1>8, <1>9 DEF Element

LEMMA RedisOK ==
  ASSUME IInv, NEW d \in Redis, RedisStep(d), UNCHANGED <<round, phase, asked>>
  PROVE  Leads(d)
<1>1. d \in Db /\ d \notin Mc /\ d \notin Api /\ d \notin Woo
  BY DbCallAssumption
<1>2. Busy(d)
  BY <1>1, BusyIs DEF RedisStep, RedisConnect, RedisSelect, RedisGet, RedisReply, RedisSet,
     RedisMgetKeys, Element, RedisMgetEnd, At
<1>3. TypesOK /\ HeapOK(d)
  BY <1>2 DEF Busy
<1>4. call[d].op \in GetOps <=> phase = "joining"
  BY <1>1, <1>2, WhichOps
<1> USE DEF Connected, Replied
<1>5. CASE RedisConnect(d)
  <2>1. UNCHANGED <<iface, many, odd>> /\ call[d].pc = "begin"
    BY <1>5 DEF RedisConnect, At
  <2>2. ASSUME Return(d, IF call[d].op = "s_mget" THEN 1 ELSE -1), UNCHANGED heap PROVE Leads(d)
    <3>1. PICK ret \in Int : Return(d, ret) /\ (call[d].op # "s_mget" => ret <= 0)
      BY <2>2
    <3>2. HeapIs(d, Two("redis", 0, "reply", 0)) /\ (phase = "joining" => ret <= 0)
      BY <1>1, <1>3, <1>4, <2>2, <3>1, HeapRedis DEF GetOps
    <3> QED BY <1>2, <2>1, <3>1, <3>2, RedisEnds
  <2>3. ASSUME Heap(d, [redis |-> 1]), NEW pc \in {"select", "ask"}, Goto(d, pc) PROVE Leads(d)
    <3>1. HeapIs(d, Two("redis", 1, "reply", 0))
      BY <1>1, <1>3, <2>3, HeapRedis
    <3> QED BY <1>2, <2>1, <2>3, <3>1, RedisGoesOn
  <2> QED BY <1>5, <2>2, <2>3 DEF RedisConnect
<1>6. CASE RedisSelect(d)
  <2>1. UNCHANGED <<iface, many, odd>> /\ call[d].pc = "select"
    BY <1>6 DEF RedisSelect, At
  <2>2. ASSUME Goto(d, "ask"), UNCHANGED heap PROVE Leads(d)
    <3>1. HeapIs(d, Two("redis", 0, "reply", 0))
      BY <1>1, <1>3, <2>2, HeapRedis
    <3> QED BY <1>2, <2>1, <2>2, <3>1, RedisGoesOn
  <2>3. ASSUME NEW ret \in {-2, -3}, Return(d, ret), Heap(d, [redis |-> -1]) PROVE Leads(d)
    <3>1. HeapIs(d, Two("redis", -1, "reply", 0))
      BY <1>1, <1>3, <2>3, HeapRedis
    <3> QED BY <1>2, <2>1, <2>3, <3>1, RedisEnds
  <2> QED BY <1>6, <2>2, <2>3 DEF RedisSelect
<1>7. CASE RedisGet(d) \/ RedisMgetKeys(d)
  <2>1. UNCHANGED <<iface, many, odd>> /\ call[d].pc = "ask"
    BY <1>7 DEF RedisGet, RedisMgetKeys, At
  <2>2. ASSUME Goto(d, "reply"), Heap(d, [reply |-> 1]) PROVE Leads(d)
    <3>1. HeapIs(d, Two("redis", 0, "reply", 1))
      BY <1>1, <1>3, <2>2, HeapRedis
    <3> QED BY <1>2, <2>1, <2>2, <3>1, RedisGoesOn
  <2>3. ASSUME NEW ret \in {1, -2, -3}, Return(d, ret), Heap(d, [redis |-> -1]),
               ret <= 0 \/ call[d].op = "s_mget"
        PROVE  Leads(d)
    <3>1. HeapIs(d, Two("redis", -1, "reply", 0)) /\ (phase = "joining" => ret <= 0)
      BY <1>1, <1>3, <1>4, <2>3, HeapRedis DEF GetOps
    <3>2. ret \in Int /\ UNCHANGED <<round, phase, asked, iface, many, odd>>
      BY <2>1
    <3>3. 0 = Connected(call[d].pc) + (-1) /\ 0 = Replied(call[d].pc) + 0
      <4>1. Connected("ask") = 1 /\ Replied("ask") = 0
        BY DEF Connected, Replied
      <4> QED BY <2>1, <4>1
    <3> QED BY <1>2, <2>3, <3>1, <3>2, <3>3, RedisEnds
  <2> QED BY <1>7, <2>2, <2>3 DEF RedisGet, RedisMgetKeys
<1>8. CASE RedisReply(d)
  <2>1. /\ UNCHANGED <<many, odd>> /\ call[d].pc = "reply" /\ call[d].op \in GetOps
        /\ Heap(d, [reply |-> -1, redis |-> -1])
    BY <1>8 DEF RedisReply, At, GetOps
  <2>2. HeapIs(d, Two("redis", -1, "reply", -1))
    BY <1>1, <1>3, <2>1, HeapRedis
  <2>3. ASSUME NEW ret \in {1, -1, -3}, Return(d, ret), UNCHANGED iface, ret <= 0 \/ d \notin Plain
        PROVE  Leads(d)
    BY <1>2, <2>1, <2>2, <2>3, RedisEnds
  <2>4. ASSUME NEW ret \in Int, ret = 1, Store(d, ret) PROVE Leads(d)
    <3>1. call'[d].pc = "returned"
      <4>1. CallIs(d, "returned", ret, iface[d].index, TRUE)
        BY <1>1, <1>3, <2>4, StoreIs
      <4> QED BY <4>1 DEF CallIs
    <3>2. RedisMoves(d, -1, -1)
      BY <2>1, <2>2, <3>1 DEF RedisMoves
    <3>3. HeapOK(d)'
      BY <1>1, <1>3, <3>2, RedisHeap
    <3> QED BY <1>1, <1>2, <2>1, <2>2, <2>4, <3>3, Stores
  <2> QED BY <1>8, <2>3, <2>4 DEF RedisReply, NotStored
<1>9. CASE RedisSet(d)
  <2>1. UNCHANGED <<iface, many>> /\ call[d].pc = "ask" /\ phase # "joining"
    BY <1>4, <1>9 DEF RedisSet, At, GetOps
  <2>2. ASSUME NEW ret \in {1, -1, -2, -3}, Return(d, ret), Heap(d, [redis |-> -1]), UNCHANGED odd
        PROVE  Leads(d)
    <3>1. HeapIs(d, Two("redis", -1, "reply", 0))
      BY <1>1, <1>3, <2>2, HeapRedis
    <3> QED BY <1>2, <2>1, <2>2, <3>1, RedisEnds
  <2>3. ASSUME NEW ret \in {1, -2, -3}, Return(d, ret), Heap(d, [reply |-> 1, redis |-> -1]),
               odd' = odd \cup {<<d, "reply">>}
        PROVE  Leads(d)
    <3>1. HeapIs(d, Two("redis", -1, "reply", 1))
      BY <1>1, <1>3, <2>3, HeapRedis
    <3>2. 0 = Connected(call[d].pc) + -1 /\ 0 <= Replied(call[d].pc) + 1
      BY <2>1 DEF Connected, Replied
    <3>3. ret \in Int /\ -1 \in Int /\ 1 \in Int
      BY <2>3
    <3>4. UNCHANGED <<round, phase, asked, iface, many>>
      BY <1>2, <2>1
    <3> QED BY <1>2, <2>1, <2>3, <3>1, <3>2, <3>3, <3>4, RedisEnds
  <2> QED BY <1>9, <2>2, <2>3 DEF RedisSet
<1>10. CASE RedisMgetEnd(d)
  <2>1. /\ UNCHANGED <<iface, many, odd>> /\ call[d].pc = "reply" /\ phase # "joining"
        /\ Return(d, 1) /\ Heap(d, [reply |-> -1, redis |-> -1])
    BY <1>4, <1>10 DEF RedisMgetEnd, At, GetOps
  <2>2. HeapIs(d, Two("redis", -1, "reply", -1))
    BY <1>1, <1>3, <2>1, HeapRedis
  <2> QED BY <1>2, <2>1, <2>2, RedisEnds
<1>11. CASE Element(d)
  BY <1>1, <1>2, <1>11, ElementOK
<1> QED BY <1>5, <1>6, <1>7, <1>8, <1>9, <1>10, <1>11 DEF RedisStep
-----------------------------------------------------------------------------
(* memcached *)

Bit(b) == IF b THEN 1 ELSE 0

LEMMA McOwns ==
  ASSUME NEW d \in Mc, NEW k \in Kind, phase # "released", UNCHANGED phase
  PROVE  /\ Owns(d, k) = IF k = "memc" THEN Bit(iface[d].handle) ELSE 0
         /\ Owns(d, k)' = IF k = "memc" THEN Bit(iface'[d].handle) ELSE 0
<1>1. d \notin Redis /\ d \notin Api /\ d \notin Woo
  BY DbCallAssumption
<1>2. CASE k = "memc"
  BY <1>1, <1>2 DEF Owns, Bit
<1>3. CASE k # "memc"
  BY <1>1, <1>3 DEF Owns
<1> QED BY <1>2, <1>3

\* The client comes and goes with the handle.
McMoves(d, m, v) ==
  /\ \A k \in Kind : <<d, k>> \in odd => <<d, k>> \in odd'
  /\ \/ Bit(iface'[d].handle) = Bit(iface[d].handle) + m
     \/ <<d, "memc">> \in odd' /\ Bit(iface'[d].handle) <= Bit(iface[d].handle) + m
  /\ v = 0 \/ (<<d, "value">> \in odd' /\ 0 <= v)

LEMMA McHeap ==
  ASSUME NEW d \in Mc, Busy(d), UNCHANGED phase, NEW m \in Int, NEW v \in Int,
         HeapIs(d, Two("memc", m, "value", v)),
         McMoves(d, m, v)
  PROVE  HeapOK(d)'
<1> USE DEF McMoves
<1>1. d \in Db /\ TypesOK /\ HeapOK(d) /\ phase # "released"
  BY DEF Busy
<1>2. \A k \in Kind : Owns(d, k) \in Int /\ Owns(d, k)' \in Int
  BY <1>1, McOwns DEF Bit
<1> DEFINE more == Two("memc", m, "value", v)
<1>3. more \in [Kind -> Int]
  BY DEF Two
<1>4. ASSUME NEW k \in Kind
      PROVE  \/ Owns(d, k)' = Owns(d, k) + more[k]
             \/ <<d, k>> \in odd' /\ Owns(d, k)' <= Owns(d, k) + more[k]
  <2>1. CASE k = "memc"
    BY <1>1, <2>1, McOwns DEF Two
  <2>2. CASE k = "value"
    <3>1. Owns(d, k)' = 0 /\ Owns(d, k) = 0 /\ more[k] = v
      BY <1>1, <2>2, McOwns DEF Two
    <3> QED BY <2>2, <3>1
  <2>3. CASE k # "memc" /\ k # "value"
    BY <1>1, <2>3, McOwns DEF Two
  <2> QED BY <2>1, <2>2, <2>3
<1> HIDE DEF more
<1> QED BY <1>1, <1>2, <1>3, <1>4, HeapGoes DEF more

LEMMA McGoesOn ==
  ASSUME NEW d \in Mc, Busy(d), UNCHANGED <<round, phase, asked, many, odd>>, Goto(d, "ask"),
         NEW handle, IfaceIs(d, iface[d].index, handle), iface'[d].buffer = iface[d].buffer,
         NEW m \in Int, HeapIs(d, Two("memc", m, "value", 0)),
         Bit(handle) = Bit(iface[d].handle) + m
  PROVE  Leads(d)
<1>1. d \in Db /\ d \notin Redis /\ d \notin Api /\ d \notin Woo /\ TypesOK
  BY DbCallAssumption DEF Busy
<1>2. HeapOK(d)'
  <2>1. McMoves(d, m, 0)
    BY DEF McMoves, IfaceIs
  <2> QED BY <2>1, McHeap
<1>3. "ask" \in Places(d) /\ OddKept(d)
  BY <1>1 DEF Places, OddKept
<1> QED BY <1>1, <1>2, <1>3, GoesOn

LEMMA McEnds ==
  ASSUME NEW d \in Mc, Busy(d), UNCHANGED <<round, phase, asked, many, heap>>,
         NEW ret \in Int, Return(d, ret),
         NEW handle, IfaceIs(d, iface[d].index, handle),
         phase = "many" => iface'[d].buffer = iface[d].buffer,
         \/ UNCHANGED odd /\ handle = iface[d].handle
         \/ odd' = odd \cup {<<d, "memc">>} /\ handle = FALSE
  PROVE  Leads(d)
<1>1. d \in Db /\ d \notin Redis /\ d \notin Api /\ d \notin Woo /\ TypesOK
  BY DbCallAssumption DEF Busy
<1>2. HeapIs(d, Two("memc", 0, "value", 0))
  BY <1>1, HeapSame
<1>3. HeapOK(d)'
  <2>1. \A k \in Kind : <<d, k>> \in odd => <<d, k>> \in odd'
    OBVIOUS
  <2>2. \/ Bit(iface'[d].handle) = Bit(iface[d].handle) + 0
        \/ <<d, "memc">> \in odd' /\ Bit(iface'[d].handle) <= Bit(iface[d].handle) + 0
    BY DEF Bit, IfaceIs
  <2>3. McMoves(d, 0, 0)
    BY <2>1, <2>2 DEF McMoves
  <2> QED BY <1>2, <2>3, McHeap
<1>4. OddKept(d)
  BY DEF OddKept
<1> QED BY <1>1, <1>2, <1>3, <1>4, Ends

\* A value is copied into its buffer, and into none before it.
LEMMA McCopyIs ==
  ASSUME TypesOK, NEW d \in Db, NEW k \in Nat, McCopy(d, k), iface[d].index \in Buffer
  PROVE  /\ IfaceIs(d, iface[d].index + 1, iface[d].handle)
         /\ Begins(iface'[d].buffer[iface[d].index], k)
         /\ \A b \in Buffer : b < iface[d].index => iface'[d].buffer[b] = iface[d].buffer[b]
<1> DEFINE n == iface[d].index
<1>1. PICK form \in {"text", "tailed"}, last \in n .. CompressNum - 1 :
        iface' = [iface EXCEPT
          ![d].index = @ + 1,
          ![d].buffer = [b \in Buffer |-> IF b = n THEN <<round, k, form>>
                                          ELSE IF b \in n .. last THEN <<round, k, "rest">>
                                          ELSE @[b]]]
  BY Zenon DEF McCopy
<1> DEFINE after == [b \in Buffer |-> IF b = n THEN <<round, k, form>>
                                      ELSE IF b \in n .. last THEN <<round, k, "rest">>
                                      ELSE iface[d].buffer[b]]
<1>2. iface' = [iface EXCEPT ![d].index = @ + 1, ![d].buffer = after]
  BY <1>1
<1>3. after \in [Buffer -> Nat \X Nat \X Form]
  <2>1. /\ <<round, k, form>> \in Nat \X Nat \X Form /\ <<round, k, "rest">> \in Nat \X Nat \X Form
        /\ iface[d].buffer \in [Buffer -> Nat \X Nat \X Form]
    BY <1>1 DEF TypesOK, IfaceTypes, Form
  <2> QED BY <2>1
<1>4. n \in Nat
  BY DEF TypesOK, IfaceTypes
<1>5. after[n] = <<round, k, form>> /\ \A b \in Buffer : b < n => after[b] = iface[d].buffer[b]
  <2>1. \A b \in Buffer : b < n => b # n /\ b \notin n .. last
    BY <1>4, DbCallAssumption DEF Buffer
  <2> QED BY <2>1
<1> HIDE DEF after
<1>6. IfaceIs(d, n + 1, iface[d].handle) /\ iface'[d].buffer = after
  <2>1. n + 1 \in Nat
    BY <1>4
  <2> QED BY <1>2, <1>3, <2>1, ZenonT(40) DEF TypesOK, IfaceTypes, IfaceIs
<1> QED BY <1>1, <1>5, <1>6 DEF Begins

LEMMA McFetchOK ==
  ASSUME NEW d \in Mc, Busy(d), McFetch(d), UNCHANGED <<round, phase, asked>>
  PROVE  Leads(d)
<1>1. d \in Db /\ d \notin Redis /\ d \notin Api /\ d \notin Woo /\ TypesOK /\ HeapOK(d) /\ ManyOK
  BY DbCallAssumption DEF Busy
<1>2. UNCHANGED call /\ call[d].op = "mget"
  BY DEF McFetch
<1>3. phase = "many" /\ many.db = d
  BY <1>1, <1>2 DEF Busy, GetOps
<1>4. McManyOK(iface[d]) /\ many.keys \in Nat /\ many.keys <= CompressNum
  BY <1>1, <1>2, <1>3 DEF ManyOK
<1>5. ASSUME NEW index, IfaceIs(d, index, iface[d].handle), McManyOK(iface[d])', OddKept(d),
             NEW v \in Int, HeapIs(d, Two("memc", 0, "value", v)), McMoves(d, 0, v),
             many'.db = d, many'.keys = many.keys, DOMAIN many' = DOMAIN NoMany
      PROVE  Leads(d)
  <2>1. HeapOK(d)'
    BY <1>5, McHeap
  <2>2. ManyOK'
    BY <1>1, <1>2, <1>3, <1>4, <1>5 DEF ManyOK, Ops
  <2> QED BY <1>1, <1>2, <1>3, <1>5, <2>1, <2>2, ManyGoesOn
<1>6. PICK k \in (1 .. many.keys) \ many.got :
        \/ /\ McCopy(d, k) /\ Give(d, k, Cardinality(DOMAIN many.map) + 1)
           /\ UNCHANGED <<heap, odd>>
        \/ /\ Skip /\ Heap(d, [value |-> 1]) /\ odd' = odd \cup {<<d, "value">>}
           /\ UNCHANGED iface
  BY DEF McFetch
<1>7. CASE /\ McCopy(d, k) /\ Give(d, k, Cardinality(DOMAIN many.map) + 1)
           /\ UNCHANGED <<heap, odd>>
  <2> DEFINE n == iface[d].index
             map == many.map
  <2>1. /\ IsFiniteSet(many.got) /\ n = Cardinality(many.got) /\ n \in Nat
        /\ IsFiniteSet(many.got \cup {k}) /\ Cardinality(many.got \cup {k}) = n + 1
        /\ n + 1 <= many.keys
    <3>1. IsFiniteSet(1 .. many.keys) /\ Cardinality(1 .. many.keys) = many.keys
      <4>1. PICK keys \in Nat : keys = many.keys
        BY <1>4
      <4>2. IsFiniteSet(1 .. keys) /\ Cardinality(1 .. keys) = keys
        BY FS_Interval
      <4> QED BY <4>1, <4>2
    <3>2. many.got \subseteq 1 .. many.keys /\ many.got \cup {k} \subseteq 1 .. many.keys
      BY <1>4 DEF McManyOK
    <3>3. IsFiniteSet(many.got) /\ Cardinality(many.got \cup {k}) <= many.keys
      BY <3>1, <3>2, FS_Subset
    <3>4. /\ Cardinality(many.got \cup {k}) = Cardinality(many.got) + 1
          /\ IsFiniteSet(many.got \cup {k})
      BY <3>3, FS_AddElement
    <3>5. n = Cardinality(many.got) /\ n \in Nat
      BY <1>4, <3>3, FS_CardinalityType DEF McManyOK
    <3> QED BY <3>3, <3>4, <3>5
  <2>2. n \in Buffer
    BY <1>4, <2>1, DbCallAssumption DEF Buffer
  <2>3. DOMAIN map = 1 .. n /\ Cardinality(DOMAIN map) = n
    BY <1>4, <2>1, FS_Interval DEF McManyOK
  <2>4. /\ IfaceIs(d, n + 1, iface[d].handle) /\ Begins(iface'[d].buffer[n], k)
        /\ \A b \in Buffer : b < n => iface'[d].buffer[b] = iface[d].buffer[b]
    BY <1>1, <1>4, <1>7, <2>1, <2>2, McCopyIs
  <2>5. ManyIs(many.at + 1, many.got \cup {k}, Insert(map, n + 1, n))
    BY <1>1, <1>7, <2>3 DEF TypesOK, NoMany, Give, ManyIs
  <2>6. McManyOK(iface[d])'
    <3> DEFINE before == iface[d].buffer
               after == iface'[d].buffer
    <3>1. /\ iface'[d].index = n + 1 /\ many'.keys = many.keys
          /\ many'.got = many.got \cup {k} /\ many'.map = Insert(map, n + 1, n)
      BY <2>4, <2>5 DEF ManyIs, IfaceIs
    <3>2. n + 1 \notin 1 .. n /\ 1 .. n + 1 = (1 .. n) \cup {n + 1} /\ (n + 1) - 1 = n
      BY <2>1
    <3>3. DOMAIN many'.map = 1 .. n + 1 /\ \A x \in 1 .. n + 1 : many'.map[x] = x - 1
      BY <1>4, <2>3, <3>1, <3>2 DEF McManyOK, Insert
    <3>4. /\ Begins(after[n], k) /\ \A x \in 1 .. n : after[x - 1] = before[x - 1]
      <4>1. \A x \in 1 .. n : x - 1 \in Buffer /\ x - 1 < n
        BY <2>1, <2>2, DbCallAssumption DEF Buffer
      <4> QED BY <2>4, <4>1
    <3> HIDE DEF before, after
    <3>5. \A x \in 1 .. n + 1 : \E j \in many'.got : Begins(after[x - 1], j)
      <4>1. \A x \in 1 .. n : \E j \in many.got : Begins(before[x - 1], j)
        BY <1>4 DEF McManyOK, before
      <4> SUFFICES ASSUME NEW x \in 1 .. n + 1
                   PROVE  \E j \in many.got \cup {k} : Begins(after[x - 1], j)
        BY <3>1
      <4>2. CASE x = n + 1
        BY <3>2, <3>4, <4>2
      <4>3. CASE x \in 1 .. n
        BY <3>4, <4>1, <4>3
      <4> QED BY <3>2, <4>2, <4>3
    <3>6. \A j \in many'.got : \E x \in 1 .. n + 1 : Begins(after[x - 1], j)
      <4>1. \A j \in many.got : \E x \in 1 .. n : Begins(before[x - 1], j)
        BY <1>4 DEF McManyOK, before
      <4> QED BY <3>1, <3>2, <3>4, <4>1
    <3>7. many'.got \subseteq 1 .. many'.keys /\ iface'[d].index = Cardinality(many'.got)
      BY <1>4, <2>1, <3>1 DEF McManyOK
    <3> QED BY <3>1, <3>3, <3>5, <3>6, <3>7 DEF McManyOK, Begins, after
  <2>7. HeapIs(d, Two("memc", 0, "value", 0)) /\ OddKept(d)
    BY <1>1, <1>7, HeapSame DEF OddKept
  <2>8. McMoves(d, 0, 0)
    BY <1>1, <1>7, <2>4 DEF McMoves, IfaceIs, Bit
  <2> QED BY <1>3, <1>5, <2>4, <2>5, <2>6, <2>7, <2>8 DEF ManyIs
<1>8. CASE /\ Skip /\ Heap(d, [value |-> 1]) /\ odd' = odd \cup {<<d, "value">>}
           /\ UNCHANGED iface
  <2>1. ManyIs(many.at + 1, many.got, many.map) /\ IfaceIs(d, iface[d].index, iface[d].handle)
    BY <1>1, <1>8, SkipIs, IfaceSame
  <2>2. McManyOK(iface[d])'
    BY <1>4, <1>8, <2>1 DEF McManyOK, Begins, ManyIs
  <2>3. HeapIs(d, Two("memc", 0, "value", 1)) /\ OddKept(d)
    <3>1. PICK change : change = [value |-> 1] /\ Heap(d, change)
      BY <1>8
    <3>2. /\ DOMAIN change \subseteq {"memc", "value"} /\ "memc" \notin DOMAIN change
          /\ change["value"] = 1 /\ "value" \in DOMAIN change
      BY <3>1
    <3>3. PICK none \in Int, one \in Int : none = 0 /\ one = 1
      OBVIOUS
    <3>4. HeapIs(d, Two("memc", none, "value", one))
      <4>1. "memc" # "value"
        OBVIOUS
      <4> QED BY <1>1, <3>1, <3>2, <3>3, <4>1, HeapTwo
    <3> QED BY <1>8, <3>3, <3>4 DEF OddKept
  <2>4. McMoves(d, 0, 1)
    BY <1>8 DEF McMoves, Bit
  <2> QED BY <1>3, <1>5, <2>1, <2>2, <2>3, <2>4 DEF ManyIs
<1> QED BY <1>6, <1>7, <1>8

LEMMA McOK ==
  ASSUME IInv, NEW d \in Mc, McStep(d), UNCHANGED <<round, phase, asked>>
  PROVE  Leads(d)
<1>1. d \in Db /\ d \notin Redis /\ d \notin Api /\ d \notin Woo
  BY DbCallAssumption
<1>2. Busy(d)
  BY <1>1, BusyIs DEF McStep, McConnect, McGet, McDead, McFetch, McFetchEnd, At
<1>3. TypesOK /\ (call[d].op \in GetOps <=> phase = "joining") /\ iface[d].handle \in BOOLEAN
  BY <1>1, <1>2, WhichOps DEF Busy, TypesOK, IfaceTypes
<1>4. UNCHANGED iface => IfaceIs(d, iface[d].index, iface[d].handle)
  BY <1>1, <1>3, IfaceSame
<1>5. ASSUME NEW h \in BOOLEAN, iface' = [iface EXCEPT ![d].handle = h]
      PROVE  IfaceIs(d, iface[d].index, h) /\ iface'[d].buffer = iface[d].buffer
  BY <1>1, <1>3, <1>5 DEF TypesOK, IfaceTypes, IfaceIs
<1>6. UNCHANGED heap => HeapIs(d, Two("memc", 0, "value", 0))
  BY <1>1, <1>3, HeapSame
<1>7. CASE McConnect(d)
  <2>1. UNCHANGED <<many, odd>>
    BY <1>7 DEF McConnect
  <2>2. CASE Goto(d, "ask") /\ UNCHANGED <<iface, heap>>
    BY <1>2, <1>4, <1>6, <2>1, <2>2, McGoesOn DEF Bit
  <2>3. CASE /\ ~iface[d].handle /\ Goto(d, "ask") /\ Heap(d, [memc |-> 1])
             /\ iface' = [iface EXCEPT ![d].handle = TRUE]
    <3>1. HeapIs(d, Two("memc", 1, "value", 0))
      BY <1>1, <1>3, <2>3, HeapTwo
    <3>2. IfaceIs(d, iface[d].index, TRUE) /\ iface'[d].buffer = iface[d].buffer
      BY <1>5, <2>3
    <3>3. PICK m \in Int : HeapIs(d, Two("memc", m, "value", 0)) /\ Bit(TRUE) = Bit(iface[d].handle) + m
      BY <2>1, <2>3, <3>1 DEF Bit
    <3>4. UNCHANGED <<round, phase, asked, many, odd>>
      BY <2>1
    <3> QED BY <1>2, <2>3, <3>2, <3>3, <3>4, McGoesOn
  <2>4. ASSUME NEW ret \in {0, -1}, Return(d, ret), UNCHANGED <<iface, heap>> PROVE Leads(d)
    <3>1. IfaceIs(d, iface[d].index, iface[d].handle) /\ ret \in Int
      BY <1>4, <2>4
    <3>2. UNCHANGED <<round, phase, asked, many, heap, odd>> /\ iface'[d].buffer = iface[d].buffer
      BY <2>1, <2>4
    <3> QED BY <1>2, <2>4, <3>1, <3>2, McEnds
  <2> QED BY <1>7, <2>2, <2>3, <2>4 DEF McConnect
<1>8. CASE McGet(d)
  <2>1. UNCHANGED <<many, heap, odd>> /\ call[d].op \in GetOps /\ phase # "many"
    BY <1>3, <1>8 DEF McGet, GetOps
  <2>2. ASSUME NEW ret \in Int, Store(d, ret) PROVE Leads(d)
    <3>1. iface'[d].handle = iface[d].handle
      <4>1. IfaceIs(d, iface[d].index + 1, iface[d].handle)
        BY <1>1, <1>3, <2>2, StoreIs
      <4> QED BY <4>1 DEF IfaceIs
    <3>2. HeapOK(d)'
      <4>1. McMoves(d, 0, 0)
        BY <2>1, <3>1 DEF McMoves, Bit
      <4> QED BY <1>2, <1>6, <2>1, <4>1, McHeap
    <3> QED BY <1>1, <1>2, <1>6, <2>1, <2>2, <3>2, Stores
  <2>3. ASSUME NEW ret \in {0, 1}, Return(d, ret), UNCHANGED iface PROVE Leads(d)
    <3>1. IfaceIs(d, iface[d].index, iface[d].handle) /\ ret \in Int
      BY <1>4, <2>3
    <3>2. UNCHANGED <<round, phase, asked, many, heap, odd>> /\ phase # "many"
      BY <2>1, <2>3
    <3> QED BY <1>2, <2>3, <3>1, <3>2, McEnds
  <2>4. ASSUME NEW ret \in {-1}, Return(d, ret), iface' = [iface EXCEPT ![d].buffer[iface[d].index] = Nothing]
        PROVE  Leads(d)
    <3>1. IfaceIs(d, iface[d].index, iface[d].handle)
      <4>1. Nothing \in Nat \X Nat \X Form
        BY DEF Nothing, Form
      <4> QED BY <1>1, <1>3, <2>4, <4>1 DEF TypesOK, IfaceTypes, IfaceIs
    <3>2. UNCHANGED <<round, phase, asked, many, heap, odd>> /\ phase # "many" /\ ret \in Int
      BY <2>1, <2>4
    <3> QED BY <1>2, <2>4, <3>1, <3>2, McEnds
  <2> QED BY <1>8, <2>2, <2>3, <2>4 DEF McGet, NotStored
<1>9. CASE McDead(d)
  <2>1. PICK ret \in Int : Return(d, ret)
    BY <1>9 DEF McDead
  <2>2. odd' = odd \cup {<<d, "memc">>} /\ UNCHANGED <<round, phase, asked, many, heap>>
    BY <1>9 DEF McDead
  <2>3. IfaceIs(d, iface[d].index, FALSE) /\ iface'[d].buffer = iface[d].buffer
    BY <1>5, <1>9 DEF McDead
  <2> QED BY <1>2, <2>1, <2>2, <2>3, McEnds
<1>10. CASE McFetch(d)
  BY <1>2, <1>10, McFetchOK
<1>11. CASE McFetchEnd(d)
  <2>1. PICK ret \in Int : Return(d, ret)
    BY <1>11 DEF McFetchEnd
  <2>2. UNCHANGED <<round, phase, asked, many, heap, odd, iface>>
    BY <1>11 DEF McFetchEnd
  <2>3. IfaceIs(d, iface[d].index, iface[d].handle) /\ iface'[d].buffer = iface[d].buffer
    BY <1>4, <2>2
  <2> QED BY <1>2, <2>1, <2>2, <2>3, McEnds
<1> QED BY <1>7, <1>8, <1>9, <1>10, <1>11 DEF McStep
-----------------------------------------------------------------------------
(* api *)

Headers(d) == IF call[d].pc = "ask" /\ d \in Tokens THEN 1 ELSE 0

LEMMA ApiOwns ==
  ASSUME NEW d \in Api, NEW k \in Kind, phase # "released", UNCHANGED phase
  PROVE  /\ Owns(d, k) = IF k = "curl" THEN Bit(iface[d].handle)
                         ELSE IF k = "headers" THEN Headers(d) ELSE 0
         /\ Owns(d, k)' = IF k = "curl" THEN Bit(iface'[d].handle)
                          ELSE IF k = "headers" THEN Headers(d)' ELSE 0
<1>1. d \notin Redis /\ d \notin Mc /\ d \notin Woo
  BY DbCallAssumption
<1>2. CASE k = "curl"
  BY <1>1, <1>2 DEF Owns, Bit
<1>3. CASE k = "headers"
  BY <1>1, <1>3 DEF Owns, Headers
<1>4. CASE k # "curl" /\ k # "headers"
  BY <1>1, <1>4 DEF Owns
<1> QED BY <1>2, <1>3, <1>4

\* The curl handle comes with handle, the headers with the place of the call.
LEMMA ApiHeap ==
  ASSUME NEW d \in Api, Busy(d), UNCHANGED <<phase, odd>>, NEW c \in Int, NEW h \in Int,
         HeapIs(d, Two("curl", c, "headers", h)),
         Bit(iface'[d].handle) = Bit(iface[d].handle) + c,
         Headers(d)' = Headers(d) + h
  PROVE  HeapOK(d)'
<1>1. d \in Db /\ TypesOK /\ HeapOK(d) /\ phase # "released"
  BY DEF Busy
<1>2. \A k \in Kind : Owns(d, k) \in Int /\ Owns(d, k)' \in Int
  BY <1>1, ApiOwns DEF Bit, Headers
<1> DEFINE more == Two("curl", c, "headers", h)
<1>3. more \in [Kind -> Int]
  BY DEF Two
<1>4. ASSUME NEW k \in Kind
      PROVE  Owns(d, k)' = Owns(d, k) + more[k]
  <2>1. CASE k = "curl"
    BY <1>1, <2>1, ApiOwns DEF Two
  <2>2. CASE k = "headers"
    <3>1. Owns(d, k) = Headers(d)
      BY <1>1, <2>2, ApiOwns
    <3>2. Owns(d, k)' = Headers(d)'
      BY <1>1, <2>2, ApiOwns
    <3>3. more[k] = h
      BY <2>2 DEF Two
    <3> QED BY <3>1, <3>2, <3>3
  <2>3. CASE k # "curl" /\ k # "headers"
    BY <1>1, <2>3, ApiOwns DEF Two
  <2> QED BY <2>1, <2>2, <2>3
<1> HIDE DEF more
<1> QED BY <1>1, <1>2, <1>3, <1>4, HeapGoes DEF more

LEMMA ApiOK ==
  ASSUME IInv, NEW d \in Api, ApiStep(d), UNCHANGED <<round, phase, asked>>
  PROVE  Leads(d)
<1>1. d \in Db /\ d \notin Redis /\ d \notin Mc /\ d \notin Woo
  BY DbCallAssumption
<1>2. Busy(d)
  BY <1>1, BusyIs DEF ApiStep, ApiNoIp, ApiPrepare, ApiPerform, At
<1>3. /\ TypesOK /\ call[d].op \in GetOps /\ phase = "joining" /\ phase # "many"
      /\ iface[d].handle \in BOOLEAN
  BY <1>1, <1>2 DEF Busy, Ops, TypesOK, IfaceTypes
<1>4. UNCHANGED iface => IfaceIs(d, iface[d].index, iface[d].handle)
  BY <1>1, <1>3, IfaceSame
<1>5. UNCHANGED <<round, phase, asked, many, odd>> /\ OddKept(d)
  BY DEF ApiStep, ApiNoIp, ApiPrepare, ApiPerform, OddKept
<1>6. ASSUME NEW ret \in Int, Return(d, ret), UNCHANGED iface, NEW h \in Int,
             HeapIs(d, Two("curl", 0, "headers", h)),
             0 = Headers(d) + h
      PROVE  Leads(d)
  <2>1. call'[d].pc = "returned"
    BY <1>1, <1>3, <1>6, ReturnIs DEF CallIs
  <2>2. Bit(iface'[d].handle) = Bit(iface[d].handle) + 0
    BY <1>6 DEF Bit, Headers
  <2>3. Headers(d)' = Headers(d) + h
    BY <1>6, <2>1 DEF Bit, Headers
  <2>4. PICK c \in Int : c = 0
    OBVIOUS
  <2>5. HeapOK(d)'
    <3>1. UNCHANGED <<phase, odd>> /\ HeapIs(d, Two("curl", c, "headers", h))
      BY <1>5, <1>6, <2>4
    <3> QED BY <1>2, <2>2, <2>3, <2>4, <3>1, ApiHeap
  <2> QED BY <1>1, <1>2, <1>3, <1>4, <1>5, <1>6, <2>5, Ends
<1>7. ASSUME NEW h, h = [headers |-> IF d \in Tokens THEN -1 ELSE 0], Heap(d, h)
      PROVE  HeapIs(d, Two("curl", 0, "headers", IF d \in Tokens THEN -1 ELSE 0))
  <2>1. /\ DOMAIN h \subseteq {"curl", "headers"} /\ "curl" \notin DOMAIN h /\ "headers" \in DOMAIN h
        /\ h["headers"] = IF d \in Tokens THEN -1 ELSE 0
    BY <1>7
  <2>2. PICK none \in Int, n \in Int : none = 0 /\ n = IF d \in Tokens THEN -1 ELSE 0
    OBVIOUS
  <2>3. HeapIs(d, Two("curl", none, "headers", n))
    <3>1. "curl" # "headers"
      OBVIOUS
    <3> QED BY <1>1, <1>3, <1>7, <2>1, <2>2, <3>1, HeapTwo
  <2> QED BY <2>2, <2>3
<1>8. ASSUME NEW ret \in Int, ret = -1 PROVE Told(d, ret) \in Int
  BY <1>8 DEF Told
<1>9. CASE ApiNoIp(d)
  <2>1. UNCHANGED <<iface, heap>> /\ call[d].pc = "begin"
    BY <1>9 DEF ApiNoIp, At
  <2>2. PICK ret \in Int : Return(d, ret)
    BY <1>9 DEF ApiNoIp
  <2>3. HeapIs(d, Two("curl", 0, "headers", 0)) /\ 0 = Headers(d) + 0
    BY <1>1, <1>3, <2>1, HeapSame DEF Bit, Headers
  <2> QED BY <1>6, <2>1, <2>2, <2>3
<1>10. CASE ApiPrepare(d)
  <2>1. call[d].pc = "begin"
    BY <1>10 DEF ApiPrepare, At
  <2>2. CASE Return(d, Told(d, -1)) /\ UNCHANGED <<iface, heap>>
    <3>1. PICK ret \in Int : Return(d, ret)
      BY <1>8, <2>2
    <3>2. HeapIs(d, Two("curl", 0, "headers", 0)) /\ 0 = Headers(d) + 0
      BY <1>1, <1>3, <2>1, <2>2, HeapSame DEF Bit, Headers
    <3> QED BY <1>6, <2>2, <3>1, <3>2
  <2>3. CASE /\ Goto(d, "ask")
             /\ Heap(d, [curl    |-> IF iface[d].handle THEN 0 ELSE 1,
                         headers |-> IF d \in Tokens THEN 1 ELSE 0])
             /\ iface' = [iface EXCEPT ![d].handle = TRUE, ![d].buffer[iface[d].index] = Nothing]
    <3>1. PICK c \in Int, h \in Int :
            /\ c = IF iface[d].handle THEN 0 ELSE 1
            /\ h = IF d \in Tokens THEN 1 ELSE 0
            /\ Heap(d, [curl |-> c, headers |-> h])
      <4>1. (IF iface[d].handle THEN 0 ELSE 1) \in Int /\ (IF d \in Tokens THEN 1 ELSE 0) \in Int
        OBVIOUS
      <4> QED BY <2>3, <4>1, Zenon
    <3>2. HeapIs(d, Two("curl", c, "headers", h))
      <4>1. PICK change : change = [curl |-> c, headers |-> h]
        OBVIOUS
      <4>2. Heap(d, change)
        BY <3>1, <4>1
      <4>3. /\ "curl" # "headers" /\ DOMAIN change = {"curl", "headers"}
            /\ change["curl"] = c /\ change["headers"] = h
        BY <4>1
      <4> QED BY <1>1, <1>3, <4>2, <4>3, HeapTwo
    <3>3. IfaceIs(d, iface[d].index, TRUE)
      <4>1. Nothing \in Nat \X Nat \X Form
        BY DEF Nothing, Form
      <4> QED BY <1>1, <1>3, <2>3, <4>1, ZenonT(40) DEF TypesOK, IfaceTypes, IfaceIs
    <3>4. call'[d].pc = "ask"
      <4>1. CallIs(d, "ask", call[d].ret, call[d].result, call[d].served)
        BY <1>1, <1>3, <2>3, GotoIs DEF Pc
      <4> QED BY <4>1 DEF CallIs
    <3>5. HeapOK(d)'
      <4>1. Bit(iface'[d].handle) = Bit(iface[d].handle) + c
        BY <1>3, <3>1, <3>3 DEF Bit, IfaceIs
      <4>2. Headers(d)' = Headers(d) + h
        BY <2>1, <3>1, <3>4 DEF Bit, Headers
      <4> QED BY <1>2, <1>5, <3>2, <4>1, <4>2, ApiHeap
    <3>6. "ask" \in Places(d)
      BY <1>1 DEF Places
    <3> QED BY <1>1, <1>2, <1>3, <1>5, <2>3, <3>2, <3>3, <3>5, <3>6, GoesOn
  <2> QED BY <1>10, <2>2, <2>3 DEF ApiPrepare
<1>11. CASE ApiPerform(d)
  <2>1. PICK n \in Int : n = IF d \in Tokens THEN -1 ELSE 0
    OBVIOUS
  <2>2. HeapIs(d, Two("curl", 0, "headers", n)) /\ call[d].pc = "ask"
    BY <1>7, <1>11, <2>1 DEF ApiPerform, At
  <2>3. 0 = Headers(d) + n
    BY <2>1, <2>2 DEF Bit, Headers
  <2>4. CASE Return(d, Told(d, -1)) /\ UNCHANGED iface
    <3>1. PICK ret \in Int : Return(d, ret)
      BY <1>8, <2>4
    <3> QED BY <1>6, <2>2, <2>3, <2>4, <3>1
  <2>5. ASSUME NEW ret \in Int, Store(d, ret) PROVE Leads(d)
    <3>1. call'[d].pc = "returned" /\ iface'[d].handle = iface[d].handle
      <4>1. CallIs(d, "returned", ret, iface[d].index, TRUE)
        BY <1>1, <1>3, <2>5, StoreIs
      <4>2. IfaceIs(d, iface[d].index + 1, iface[d].handle)
        BY <1>1, <1>3, <2>5, StoreIs
      <4> QED BY <4>1, <4>2 DEF CallIs, IfaceIs
    <3>2. HeapOK(d)'
      <4>1. Bit(iface'[d].handle) = Bit(iface[d].handle) + 0
        BY <3>1 DEF Bit, Headers
      <4>2. Headers(d)' = 0
        BY <3>1 DEF Bit, Headers
      <4> QED BY <1>2, <1>5, <2>2, <2>3, <4>1, <4>2, ApiHeap
    <3> QED BY <1>1, <1>2, <1>3, <1>5, <2>2, <2>5, <3>2, Stores
  <2> QED BY <1>11, <2>4, <2>5 DEF ApiPerform
<1> QED BY <1>9, <1>10, <1>11 DEF ApiStep
-----------------------------------------------------------------------------
(* woo *)

\* The clients that a call on a woo server has.
Clients(d) ==
  IF call[d].op = "smget" /\ call[d].pc \in {"begin", "wait"} THEN Len(many.sent)
  ELSE Bit(call[d].pc = "ask")

LEMMA WooOwns ==
  ASSUME NEW d \in Woo, NEW k \in Kind
  PROVE  /\ Owns(d, k) = IF k = "client" THEN Clients(d) ELSE 0
         /\ Owns(d, k)' = IF k = "client" THEN Clients(d)' ELSE 0
<1>1. d \notin Redis /\ d \notin Mc /\ d \notin Api
  BY DbCallAssumption
<1>2. CASE k = "client"
  BY <1>1, <1>2 DEF Owns, Clients, Bit
<1>3. CASE k # "client"
  BY <1>1, <1>3 DEF Owns
<1> QED BY <1>2, <1>3

WooMoves(d, n) ==
  /\ HeapIs(d, Two("client", n, "value", 0))
  /\ \A k \in Kind : <<d, k>> \in odd => <<d, k>> \in odd'
  /\ Clients(d) \in Int /\ Clients(d)' \in Int
  /\ \/ Clients(d)' = Clients(d) + n
     \/ <<d, "client">> \in odd' /\ Clients(d)' <= Clients(d) + n

LEMMA WooHeap ==
  ASSUME NEW d \in Woo, d \in Db, TypesOK, HeapOK(d), NEW n \in Int, WooMoves(d, n)
  PROVE  HeapOK(d)'
<1> USE DEF WooMoves
<1>1. \A k \in Kind : Owns(d, k) \in Int /\ Owns(d, k)' \in Int
  BY WooOwns
<1> DEFINE more == Two("client", n, "value", 0)
<1>2. more \in [Kind -> Int]
  BY DEF Two
<1>3. ASSUME NEW k \in Kind
      PROVE  \/ Owns(d, k)' = Owns(d, k) + more[k]
             \/ <<d, k>> \in odd' /\ Owns(d, k)' <= Owns(d, k) + more[k]
  <2>1. CASE k = "client"
    <3>1. Owns(d, k) = Clients(d) /\ Owns(d, k)' = Clients(d)' /\ more[k] = n
      BY <2>1, WooOwns DEF Two
    <3> QED BY <2>1, <3>1
  <2>2. CASE k # "client"
    BY <2>2, WooOwns DEF Two
  <2> QED BY <2>1, <2>2
<1> HIDE DEF more
<1> QED BY <1>1, <1>2, <1>3, HeapGoes DEF more

LEMMA HeapWoo ==
  ASSUME TypesOK, NEW d \in Db, NEW n \in Int, NEW change, change = [client |-> n], Heap(d, change)
  PROVE  HeapIs(d, Two("client", n, "value", 0))
<1>1. PICK none \in Int : none = 0
  OBVIOUS
<1>2. HeapIs(d, Two("client", n, "value", none))
  <2>1. /\ DOMAIN change \subseteq {"client", "value"} /\ "client" \in DOMAIN change
        /\ change["client"] = n /\ "value" \notin DOMAIN change /\ "client" # "value"
    OBVIOUS
  <2> QED BY <1>1, <2>1, HeapTwo
<1> QED BY <1>1, <1>2

LEMMA AskIs ==
  ASSUME TypesOK, NEW d \in Db,
         call' = [call EXCEPT ![d].pc = "ask", ![d].result = iface[d].index]
  PROVE  CallIs(d, "ask", call[d].ret, iface[d].index, call[d].served)
<1>1. iface[d].index \in Int /\ "ask" \in Pc
  BY DEF TypesOK, CallTypes, IfaceTypes, Pc
<1> QED BY <1>1 DEF TypesOK, CallTypes, CallIs

LEMMA PointedIs ==
  ASSUME TypesOK, NEW d \in Db, NEW ret \in Int,
         call' = [call EXCEPT ![d].pc = "returned", ![d].ret = ret, ![d].result = iface[d].index]
  PROVE  CallIs(d, "returned", ret, iface[d].index, call[d].served)
<1>1. iface[d].index \in Int /\ "returned" \in Pc
  BY DEF TypesOK, CallTypes, IfaceTypes, Pc
<1> QED BY <1>1 DEF TypesOK, CallTypes, CallIs

LEMMA ServedIs ==
  ASSUME TypesOK, NEW d \in Db, NEW ret \in Int,
         call' = [call EXCEPT ![d].pc = "returned", ![d].ret = ret, ![d].served = TRUE]
  PROVE  CallIs(d, "returned", ret, call[d].result, TRUE)
<1>1. "returned" \in Pc
  BY DEF TypesOK, CallTypes, IfaceTypes, Pc
<1> QED BY <1>1 DEF TypesOK, CallTypes, CallIs

LEMMA WooGetOK ==
  ASSUME NEW d \in Woo, Busy(d), WooClient(d) \/ WooTalk(d), UNCHANGED <<round, phase, asked>>
  PROVE  Leads(d)
<1>1. d \in Db /\ d \notin Redis /\ d \notin Mc /\ d \notin Api /\ TypesOK /\ HeapOK(d)
  BY DbCallAssumption DEF Busy
<1>2. call[d].op \in GetOps /\ phase = "joining" /\ AnswerOK(d)
  <2>1. CASE WooClient(d)
    BY <1>1, <2>1 DEF WooClient, Busy, GetOps, Ops
  <2>2. CASE WooTalk(d)
    <3>1. call[d].pc = "ask" /\ Busy(d)
      BY <2>2 DEF WooTalk, At
    <3>2. call[d].op \in GetOps
      BY <1>1, <3>1 DEF Busy, Places
    <3> QED BY <1>1, <3>1, <3>2 DEF Busy, Ops, GetOps
  <2> QED BY <2>1, <2>2
<1>3. call[d].op # "smget" /\ call[d].served \in BOOLEAN /\ call[d] \in [pc : Pc, op : Op, ret : Int, result : Int, served : BOOLEAN]
  BY <1>1, <1>2 DEF GetOps, TypesOK, CallTypes
<1>4. UNCHANGED <<many, odd>>
  BY DEF WooClient, WooTalk
<1>5. ASSUME NEW pc \in {"ask", "returned"}, NEW ret, NEW result, NEW served,
             CallIs(d, pc, ret, result, served),
             NEW index, IfaceIs(d, index, iface[d].handle), NEW n \in Int,
             HeapIs(d, Two("client", n, "value", 0)),
             Bit(pc = "ask") = Bit(call[d].pc = "ask") + n,
             AnswerOK(d)'
      PROVE  Leads(d)
  <2>1. WooMoves(d, n)
    <3>1. Clients(d) = Bit(call[d].pc = "ask") /\ Clients(d)' = Bit(pc = "ask")
      BY <1>3, <1>5 DEF Clients, CallIs
    <3> QED BY <1>4, <1>5, <3>1 DEF WooMoves, Bit
  <2>2. HeapOK(d)'
    BY <1>1, <2>1, WooHeap
  <2>3. pc \in Places(d) \cup {"returned"} /\ phase # "many"
    BY <1>1, <1>2, <1>5 DEF Places
  <2> QED BY <1>1, <1>2, <1>4, <1>5, <2>2, <2>3, LeadsIf
<1>6. CASE WooClient(d)
  <2>1. call[d].pc = "begin"
    BY <1>6 DEF WooClient, At
  <2>2. /\ iface[d].index = 0 /\ 0 \in Buffer /\ call[d].served = FALSE
        /\ call[d].result = Null
    BY <1>1, <1>2, <1>3, <2>1, DbCallAssumption DEF AnswerOK, Buffer
  <2>3. IfaceIs(d, iface[d].index + 1, iface[d].handle)
    BY <1>1, <1>6, IndexIs DEF WooClient
  <2>4. CASE /\ call' = [call EXCEPT ![d].pc = "ask", ![d].result = iface[d].index]
             /\ Heap(d, [client |-> 1])
    <3>1. CallIs(d, "ask", call[d].ret, iface[d].index, call[d].served)
      BY <1>1, <2>4, AskIs
    <3>2. AnswerOK(d)'
      BY <1>2, <2>2, <3>1 DEF AnswerOK, CallIs
    <3>3. PICK n \in Int : n = 1 /\ HeapIs(d, Two("client", n, "value", 0))
      BY <1>1, <2>4, HeapWoo
    <3>4. Bit("ask" = "ask") = Bit(call[d].pc = "ask") + n
      BY <2>1, <3>3 DEF Bit
    <3> QED BY <1>5, <2>3, <3>1, <3>2, <3>3, <3>4
  <2>5. CASE /\ call' = [call EXCEPT ![d].pc = "returned", ![d].ret = 1, ![d].result = iface[d].index]
             /\ UNCHANGED heap
    <3>1. CallIs(d, "returned", 1, iface[d].index, call[d].served)
      <4>1. PICK ret \in Int : ret = 1
        OBVIOUS
      <4> QED BY <1>1, <2>5, <4>1, PointedIs
    <3>2. AnswerOK(d)'
      BY <1>1, <2>2, <3>1 DEF AnswerOK, CallIs
    <3>3. HeapIs(d, Two("client", 0, "value", 0))
      BY <1>1, <2>5, HeapSame
    <3>4. Bit("returned" = "ask") = Bit(call[d].pc = "ask") + 0
      BY <2>1 DEF Bit
    <3> QED BY <1>5, <2>3, <3>1, <3>2, <3>3, <3>4
  <2> QED BY <1>6, <2>4, <2>5 DEF WooClient
<1>7. CASE WooTalk(d)
  <2>1. call[d].pc = "ask"
    BY <1>7 DEF WooTalk, At
  <2>2. call[d].result \in Buffer /\ call[d].served = FALSE
    BY <1>2, <1>3, <2>1 DEF AnswerOK
  <2>3. PICK n \in Int : n = -1 /\ HeapIs(d, Two("client", n, "value", 0))
    BY <1>1, <1>7, HeapWoo DEF WooTalk
  <2>4. Bit("returned" = "ask") = Bit(call[d].pc = "ask") + n
    BY <2>1, <2>3 DEF Bit
  <2>5. CASE /\ call' = [call EXCEPT ![d].pc = "returned", ![d].ret = 1, ![d].served = TRUE]
             /\ iface' = [iface EXCEPT ![d].buffer[call[d].result] = <<round, 0, "text">>]
    <3>1. CallIs(d, "returned", 1, call[d].result, TRUE)
      <4>1. PICK ret \in Int : ret = 1
        OBVIOUS
      <4> QED BY <1>1, <2>5, <4>1, ServedIs
    <3>2. IfaceIs(d, iface[d].index, iface[d].handle)
      <4>1. <<round, 0, "text">> \in Nat \X Nat \X Form
        BY <1>1 DEF TypesOK, Form
      <4> QED BY <1>1, <2>5, <4>1 DEF TypesOK, IfaceTypes, IfaceIs
    <3>3. iface'[d].buffer[call[d].result] = <<round, 0, "text">>
      BY <1>1, <2>2, <2>5 DEF TypesOK, IfaceTypes
    <3>4. AnswerOK(d)'
      BY <1>1, <2>2, <3>1, <3>3 DEF AnswerOK, CallIs
    <3> QED BY <1>5, <2>3, <2>4, <3>1, <3>2, <3>4
  <2>6. CASE Return(d, 1) /\ UNCHANGED iface
    <3>1. CallIs(d, "returned", 1, call[d].result, call[d].served)
      BY <1>1, <2>6, ReturnIs
    <3>2. AnswerOK(d)'
      BY <1>1, <2>2, <3>1 DEF AnswerOK, CallIs
    <3>3. IfaceIs(d, iface[d].index, iface[d].handle)
      BY <1>1, <2>6, IfaceSame
    <3> QED BY <1>5, <2>3, <2>4, <3>1, <3>2, <3>3
  <2> QED BY <1>7, <2>5, <2>6 DEF WooTalk
<1> QED BY <1>6, <1>7

\* A step that only moves the call and its clients.
LEMMA WooTurns ==
  ASSUME NEW d \in Woo, Busy(d), phase = "many", UNCHANGED <<round, phase, asked, iface, many, odd>>,
         NEW pc, NEW ret, CallIs(d, pc, ret, call[d].result, call[d].served),
         pc \in Places(d) \cup {"returned"}, NEW n \in Int, WooMoves(d, n)
  PROVE  Leads(d)
<1>1. d \in Db /\ TypesOK /\ HeapOK(d) /\ phase # "joining"
  BY DEF Busy
<1>2. HeapOK(d)'
  BY <1>1, WooHeap
<1>3. IfaceIs(d, iface[d].index, iface[d].handle)
  BY <1>1, IfaceSame
<1>4. ManyOK'
  BY <1>1, ManyKept DEF CallIs
<1> QED BY <1>1, <1>2, <1>3, <1>4, LeadsIf DEF WooMoves

LEMMA WooEndsOK ==
  ASSUME NEW d \in Woo, Busy(d), WooMgetEnd(d) \/ WooSent(d) \/ WooWaited(d),
         UNCHANGED <<round, phase, asked>>
  PROVE  Leads(d)
<1>1. d \in Db /\ d \notin Redis /\ d \notin Mc /\ d \notin Api /\ TypesOK /\ ManyOK
  BY DbCallAssumption DEF Busy
<1>2. call[d].op \notin GetOps /\ phase = "many"
  <2>1. CASE WooMgetEnd(d) \/ WooSent(d)
    BY <1>1, <2>1, WhichOps DEF WooMgetEnd, WooSent, GetOps
  <2>2. CASE WooWaited(d)
    <3>1. call[d].pc = "wait"
      BY <2>2 DEF WooWaited, At
    <3>2. call[d].op \notin GetOps
      BY <1>1, <3>1 DEF Busy, Places
    <3> QED BY <1>1, <3>2, WhichOps
  <2> QED BY <2>1, <2>2
<1>3. UNCHANGED <<round, phase, asked, iface, many, odd>> /\ \A k \in Kind : <<d, k>> \in odd => <<d, k>> \in odd'
  BY DEF WooMgetEnd, WooSent, WooWaited
<1>4. CASE WooMgetEnd(d)
  <2>1. call[d].op = "mget" /\ call[d].pc = "begin" /\ UNCHANGED heap
    BY <1>4 DEF WooMgetEnd, At
  <2>2. PICK ret \in Int : CallIs(d, "returned", ret, call[d].result, call[d].served)
    BY <1>1, <1>4, ReturnIs DEF WooMgetEnd
  <2>3. Clients(d) = 0 /\ Clients(d)' = 0
    BY <2>1, <2>2 DEF Clients, CallIs, Bit
  <2>4. HeapIs(d, Two("client", 0, "value", 0))
    BY <1>1, <2>1, HeapSame
  <2>5. WooMoves(d, 0)
    BY <1>3, <2>3, <2>4 DEF WooMoves
  <2> QED BY <1>2, <1>3, <2>2, <2>5, WooTurns
<1>5. CASE WooSent(d)
  <2>1. call[d].op = "smget" /\ call[d].pc = "begin" /\ UNCHANGED heap
    BY <1>5 DEF WooSent, At
  <2>2. CallIs(d, "wait", call[d].ret, call[d].result, call[d].served)
    <3>1. "wait" \in Pc
      BY DEF Pc
    <3> QED BY <1>1, <1>5, <3>1, GotoIs DEF WooSent
  <2>3. SmgetOK(iface[d])
    BY <1>1, <1>2, <2>1 DEF ManyOK, Busy
  <2>4. Clients(d) = Len(many.sent) /\ Clients(d)' = Len(many.sent) /\ Len(many.sent) \in Int
    BY <1>3, <2>1, <2>2, <2>3 DEF Clients, CallIs, SmgetOK
  <2>5. HeapIs(d, Two("client", 0, "value", 0))
    BY <1>1, <2>1, HeapSame
  <2>6. WooMoves(d, 0)
    BY <1>3, <2>4, <2>5 DEF WooMoves
  <2>7. "wait" \in Places(d)
    BY <1>1, <2>1 DEF Places, GetOps
  <2>8. PICK pc, ret : pc = "wait" /\ CallIs(d, pc, ret, call[d].result, call[d].served)
    BY <2>2
  <2>9. pc \in Places(d) \cup {"returned"}
    BY <2>7, <2>8
  <2>10. PICK n \in Int : WooMoves(d, n)
    BY <2>6
  <2> QED BY <1>2, <1>3, <2>8, <2>9, <2>10, WooTurns
<1>6. CASE WooWaited(d)
  <2>1. call[d].pc = "wait"
    BY <1>6 DEF WooWaited, At
  <2>2. call[d].op = "smget"
    BY <1>1, <2>1 DEF Busy, Places
  <2>3. PICK ret \in Int : CallIs(d, "returned", ret, call[d].result, call[d].served)
    BY <1>1, <1>6, ReturnIs DEF WooWaited
  <2>4. SmgetOK(iface[d])
    BY <1>1, <1>2, <2>2 DEF ManyOK, Busy
  <2>5. Clients(d) = Len(many.sent) /\ Clients(d)' = 0 /\ Len(many.sent) \in Int
    BY <2>1, <2>2, <2>3, <2>4 DEF Clients, CallIs, SmgetOK, Bit
  <2>6. PICK n \in Int : n = -Len(many.sent) /\ HeapIs(d, Two("client", n, "value", 0))
    BY <1>1, <1>6, <2>5, HeapWoo DEF WooWaited, TotalI
  <2>7. WooMoves(d, n)
    BY <1>3, <2>5, <2>6 DEF WooMoves
  <2> QED BY <1>2, <1>3, <2>3, <2>7, WooTurns
<1> QED BY <1>4, <1>5, <1>6

LEMMA WooMgetOK ==
  ASSUME NEW d \in Woo, Busy(d), WooMgetKey(d), UNCHANGED <<round, phase, asked>>
  PROVE  Leads(d)
<1>1. /\ d \in Db /\ d \notin Redis /\ d \notin Mc /\ d \notin Api
      /\ TypesOK /\ HeapOK(d) /\ ManyOK
  BY DbCallAssumption DEF Busy
<1>2. /\ UNCHANGED <<call, heap, odd>> /\ call[d].op = "mget" /\ call[d].pc = "begin"
      /\ many.at <= many.keys
  BY DEF WooMgetKey, At
<1>3. phase = "many" /\ many.db = d
  BY <1>1, <1>2 DEF Busy, GetOps
<1>4. WooManyOK(iface[d]) /\ many.keys \in Nat /\ many.keys <= CompressNum
  BY <1>1, <1>2, <1>3 DEF ManyOK
<1> DEFINE k == many.at
           b == iface[d].index
           map == many.map
<1>5. /\ k \in Nat \ {0} /\ b = k - 1 /\ b \in Nat /\ b \in Buffer /\ k \notin DOMAIN map
      /\ DOMAIN map = 1 .. b /\ k \notin many.got
  BY <1>2, <1>4, DbCallAssumption DEF WooManyOK, Buffer
<1>6. Pointers(map, b)
  <2>1. \A x \in 1 .. b : map[x] = x - 1
    BY <1>4 DEF WooManyOK
  <2>2. \A x \in 1 .. b : x - 1 \in Buffer /\ x - 1 < b
    BY <1>5, DbCallAssumption DEF Buffer
  <2> QED BY <1>5, <2>1, <2>2, SMTT(20) DEF Pointers
<1>7. HeapIs(d, Two("client", 0, "value", 0)) /\ HeapOK(d)' /\ OddKept(d)
  <2>1. HeapIs(d, Two("client", 0, "value", 0))
    BY <1>1, <1>2, HeapSame
  <2>2. Clients(d) = 0 /\ Clients(d)' = 0
    BY <1>2 DEF Clients, Bit
  <2>3. WooMoves(d, 0)
    BY <1>2, <2>1, <2>2 DEF WooMoves
  <2> QED BY <1>1, <1>2, <2>1, <2>3, WooHeap DEF OddKept
<1>8. ASSUME IfaceIs(d, b + 1, iface[d].handle), many'.db = d, many'.keys = many.keys,
             DOMAIN many' = DOMAIN NoMany, many'.at = k + 1, many'.map = Insert(map, k, b),
             many'.got \subseteq many.got \cup {k}, OwnBuffers(iface[d])'
      PROVE  Leads(d)
  <2>1. /\ DOMAIN Insert(map, k, b) = DOMAIN map \cup {k} /\ Insert(map, k, b)[k] = b
        /\ \A x \in DOMAIN map : Insert(map, k, b)[x] = map[x]
    BY <1>5 DEF Insert
  <2>2. 1 .. b + 1 = (1 .. b) \cup {k} /\ iface'[d].index = b + 1
    BY <1>5, <1>8 DEF IfaceIs
  <2>3. \A x \in 1 .. b + 1 : many'.map[x] = x - 1
    BY <1>4, <1>5, <1>8, <2>1, <2>2 DEF WooManyOK
  <2>4. many'.at \in Nat \ {0} /\ many'.at <= many'.keys + 1 /\ b + 1 = many'.at - 1
    BY <1>2, <1>4, <1>5, <1>8
  <2>5. many'.got \subseteq 1 .. b + 1 /\ DOMAIN many'.map = 1 .. b + 1
    BY <1>4, <1>5, <1>8, <2>1, <2>2 DEF WooManyOK
  <2>6. WooManyOK(iface[d])'
    BY <1>8, <2>2, <2>3, <2>4, <2>5 DEF WooManyOK
  <2>7. ManyOK'
    BY <1>1, <1>2, <1>3, <1>4, <1>8, <2>6 DEF ManyOK, Ops
  <2> QED BY <1>1, <1>2, <1>3, <1>7, <1>8, <2>7, ManyGoesOn
<1>9. CASE StoreMany(d, many.at, many.at)
  <2>1. /\ IfaceIs(d, b + 1, iface[d].handle)
        /\ iface'[d].buffer = [iface[d].buffer EXCEPT ![b] = <<round, k, "text">>]
        /\ ManyIs(k + 1, many.got \cup {k}, Insert(map, k, b))
    BY <1>1, <1>5, <1>9, StoreManyIs
  <2>2. OwnBuffers(iface[d])'
    BY <1>1, <1>4, <1>5, <1>6, <2>1, StoredIsOwn DEF WooManyOK, ManyIs
  <2> QED BY <1>3, <1>8, <2>1, <2>2 DEF ManyIs
<1>10. CASE /\ iface' = [iface EXCEPT ![d].index = @ + 1]
            /\ many' = [many EXCEPT !.at = @ + 1, !.map = Insert(@, many.at, iface[d].index)]
  <2>1. IfaceIs(d, b + 1, iface[d].handle) /\ iface'[d].buffer = iface[d].buffer
    BY <1>1, <1>10, IndexIs
  <2>2. ManyIs(k + 1, many.got, Insert(map, k, b))
    BY <1>1, <1>10 DEF TypesOK, NoMany, ManyIs
  <2>3. /\ DOMAIN Insert(map, k, b) = DOMAIN map \cup {k}
        /\ \A x \in DOMAIN map : Insert(map, k, b)[x] = map[x]
    BY <1>5 DEF Insert
  <2>4. OwnBuffers(iface[d])'
    <3>1. \A x \in many.got : x \in DOMAIN map /\ iface[d].buffer[map[x]] = <<round, x, "text">>
      BY <1>4 DEF WooManyOK, OwnBuffers
    <3>2. many'.got = many.got /\ many'.map = Insert(map, k, b)
      BY <2>2 DEF ManyIs
    <3>3. \A x \in many.got : x \in DOMAIN many'.map /\ many'.map[x] = map[x]
      BY <2>3, <3>1, <3>2
    <3>4. \A x \in many'.got : x \in DOMAIN many'.map /\ iface'[d].buffer[many'.map[x]] = <<round', x, "text">>
      BY <2>1, <3>1, <3>2, <3>3
    <3> QED BY <3>4 DEF OwnBuffers
  <2> QED BY <1>3, <1>8, <2>1, <2>2, <2>4 DEF ManyIs
<1> QED BY <1>9, <1>10 DEF WooMgetKey

LEMMA WooSendOK ==
  ASSUME NEW d \in Woo, Busy(d), WooSend(d), UNCHANGED <<round, phase, asked>>
  PROVE  Leads(d)
<1>1. /\ d \in Db /\ d \notin Redis /\ d \notin Mc /\ d \notin Api
      /\ TypesOK /\ HeapOK(d) /\ ManyOK
  BY DbCallAssumption DEF Busy
<1>2. /\ UNCHANGED <<call, iface>> /\ call[d].op = "smget" /\ call[d].pc = "begin"
      /\ many.at <= many.keys
  BY DEF WooSend, At
<1>3. phase = "many" /\ many.db = d
  BY <1>1, <1>2 DEF Busy, GetOps
<1>4. SmgetOK(iface[d]) /\ many.keys \in Nat /\ many.keys <= CompressNum
  BY <1>1, <1>2, <1>3 DEF ManyOK
<1>5. IfaceIs(d, iface[d].index, iface[d].handle)
  BY <1>1, <1>2, IfaceSame
<1> DEFINE sent == many.sent
<1>6. sent \in Seq(Nat) /\ Len(sent) \in Nat /\ Clients(d) = Len(sent)
  BY <1>2, <1>4 DEF SmgetOK, Clients
<1>7. ASSUME NEW n \in Int, HeapIs(d, Two("client", n, "value", 0)),
             odd' = odd \/ odd' = odd \cup {<<d, "client">>},
             \/ Len(many'.sent) = Len(sent) + n
             \/ odd' = odd \cup {<<d, "client">>} /\ Len(many'.sent) <= Len(sent) + n,
             many'.db = d, many'.keys = many.keys, DOMAIN many' = DOMAIN NoMany,
             SmgetOK(iface[d])'
      PROVE  Leads(d)
  <2>1. Clients(d)' = Len(many'.sent) /\ Len(many'.sent) \in Int
    BY <1>2, <1>7 DEF Clients, SmgetOK
  <2>2. \A k \in Kind : <<d, k>> \in odd => <<d, k>> \in odd'
    BY <1>7
  <2>3. WooMoves(d, n)
    BY <1>6, <1>7, <2>1, <2>2 DEF WooMoves
  <2>4. HeapOK(d)'
    BY <1>1, <2>3, WooHeap
  <2>5. ManyOK'
    BY <1>1, <1>2, <1>3, <1>4, <1>7 DEF ManyOK, Ops
  <2>6. OddKept(d)
    BY <1>7 DEF OddKept
  <2> QED BY <1>1, <1>2, <1>3, <1>5, <1>7, <2>4, <2>5, <2>6, ManyGoesOn
<1>8. ASSUME Skip PROVE SmgetOK(iface[d])' /\ ManyIs(many.at + 1, many.got, many.map)
  <2>1. ManyIs(many.at + 1, many.got, many.map)
    BY <1>1, <1>8, SkipIs
  <2>2. many'.at \in Nat /\ Len(sent) < many'.at /\ many'.at <= many.keys + 1
    BY <1>2, <1>4, <1>6, <2>1 DEF SmgetOK, ManyIs
  <2>3. many'.open = many.open /\ many'.sent = sent /\ many'.got = many.got
        /\ many'.map = many.map /\ many'.keys = many.keys /\ UNCHANGED round
    BY <2>1 DEF ManyIs
  <2> QED BY <1>2, <1>4, <2>1, <2>2, <2>3 DEF SmgetOK, OwnBuffers
<1>9. CASE Skip /\ UNCHANGED <<heap, odd>>
  <2>1. HeapIs(d, Two("client", 0, "value", 0))
    BY <1>1, <1>9, HeapSame
  <2>2. Len(many'.sent) = Len(sent) + 0
    BY <1>6, <1>8, <1>9 DEF ManyIs
  <2> QED BY <1>3, <1>7, <1>8, <1>9, <2>1, <2>2 DEF ManyIs
<1>10. CASE Skip /\ Heap(d, [client |-> 1]) /\ odd' = odd \cup {<<d, "client">>}
  <2>1. PICK n \in Int : n = 1 /\ HeapIs(d, Two("client", n, "value", 0))
    BY <1>1, <1>10, HeapWoo
  <2>2. Len(many'.sent) <= Len(sent) + n
    BY <1>6, <1>8, <1>10, <2>1 DEF ManyIs
  <2> QED BY <1>3, <1>7, <1>8, <1>10, <2>1, <2>2 DEF ManyIs
<1>11. CASE /\ many' = [many EXCEPT !.at = @ + 1, !.sent = Append(@, SentKey),
                                    !.open = @ \cup {TotalI + 1}]
            /\ Heap(d, [client |-> 1]) /\ UNCHANGED odd
  <2> DEFINE c == Len(sent) + 1
             after == Append(sent, c)
  <2>1. /\ many'.at = many.at + 1 /\ many'.sent = after /\ many'.open = many.open \cup {c}
        /\ many'.got = many.got /\ many'.map = many.map /\ many'.keys = many.keys /\ many'.db = d
        /\ DOMAIN many' = DOMAIN NoMany
    BY <1>1, <1>3, <1>11 DEF TypesOK, NoMany, SentKey, TotalI
  <2>2. /\ after \in Seq(Nat) /\ Len(after) = c /\ after[c] = c
        /\ \A x \in 1 .. Len(sent) : after[x] = sent[x]
    BY <1>6
  <2>3. 1 .. c = (1 .. Len(sent)) \cup {c} /\ c \notin 1 .. Len(sent) /\ c \in Nat
    BY <1>6
  <2> HIDE DEF after
  <2>4. SmgetOK(iface[d])'
    <3>1. many'.at \in Nat /\ c < many'.at /\ many'.at <= many.keys + 1
      BY <1>2, <1>4, <1>6, <2>1 DEF SmgetOK
    <3> HIDE DEF c
    <3>2. /\ \A x \in 1 .. Len(sent) : sent[x] = x
          /\ many.open \subseteq 1 .. Len(sent) /\ many.got \subseteq 1 .. Len(sent)
          /\ many.open \cap many.got = {}
      BY <1>4 DEF SmgetOK
    <3>3. \A x \in 1 .. c : after[x] = x
      BY <2>2, <2>3, <3>2
    <3>4. /\ many'.open \subseteq 1 .. c /\ many.got \subseteq 1 .. c
          /\ many'.open \cap many.got = {}
      BY <2>1, <2>3, <3>2
    <3> QED BY <1>2, <1>4, <2>1, <2>2, <3>1, <3>3, <3>4, ZenonT(40) DEF SmgetOK, OwnBuffers
  <2>5. PICK n \in Int : n = 1 /\ HeapIs(d, Two("client", n, "value", 0))
    BY <1>1, <1>11, HeapWoo
  <2>6. Len(many'.sent) = Len(sent) + n
    BY <2>1, <2>2, <2>5
  <2> QED BY <1>7, <1>11, <2>1, <2>4, <2>5, <2>6
<1> QED BY <1>9, <1>10, <1>11 DEF WooSend

\* How many elements of a finite set of numbers are before c.
LEMMA Ranks ==
  ASSUME NEW ok, IsFiniteSet(ok), ok \subseteq Nat
  PROVE  LET rank(c) == Cardinality({x \in ok : x < c})
         IN  /\ \A c \in ok : rank(c) \in Nat /\ rank(c) < Cardinality(ok)
             /\ \A b, c \in ok : b < c => rank(b) < rank(c)
<1> DEFINE before(c) == {x \in ok : x < c}
<1>1. \A c \in ok : IsFiniteSet(before(c)) /\ Cardinality(before(c)) \in Nat
  BY FS_Subset, FS_CardinalityType
<1>2. ASSUME NEW T, IsFiniteSet(T), NEW b \in ok, before(b) \subseteq T, b \in T
      PROVE  Cardinality(before(b)) < Cardinality(T)
  <2>1. b \notin before(b) /\ before(b) \cup {b} \subseteq T
    BY <1>2
  <2>2. IsFiniteSet(before(b)) /\ Cardinality(before(b)) \in Nat
    BY <1>1
  <2> HIDE DEF before
  <2>3. IsFiniteSet(before(b) \cup {b})
        /\ Cardinality(before(b) \cup {b}) = Cardinality(before(b)) + 1
    BY <2>1, <2>2, FS_AddElement
  <2>4. Cardinality(before(b) \cup {b}) <= Cardinality(T) /\ Cardinality(T) \in Nat
    BY <1>2, <2>1, FS_Subset, FS_CardinalityType
  <2> QED BY <2>2, <2>3, <2>4
<1>3. \A c \in ok : Cardinality(before(c)) < Cardinality(ok)
  BY <1>2
<1>4. ASSUME NEW b \in ok, NEW c \in ok, b < c
      PROVE  Cardinality(before(b)) < Cardinality(before(c))
  <2>1. b \in Nat /\ c \in Nat /\ \A x \in ok : x \in Nat
    OBVIOUS
  <2>2. before(b) \subseteq before(c) /\ b \in before(c)
    <3>1. \A x \in ok : x < b => x < c
      BY <1>4, <2>1
    <3> QED BY <1>4, <3>1
  <2> QED BY <1>1, <1>2, <2>2
<1> QED BY <1>1, <1>3, <1>4

LEMMA WooReceiveOK ==
  ASSUME NEW d \in Woo, Busy(d), WooReceive(d), UNCHANGED <<round, phase, asked>>
  PROVE  Leads(d)
<1>1. /\ d \in Db /\ d \notin Redis /\ d \notin Mc /\ d \notin Api
      /\ TypesOK /\ HeapOK(d) /\ ManyOK
  BY DbCallAssumption DEF Busy
<1>2. UNCHANGED <<call, heap, odd>> /\ call[d].pc = "wait"
  BY DEF WooReceive, At
<1>3. call[d].op = "smget" /\ phase = "many" /\ many.db = d
  <2>1. call[d].op \notin GetOps /\ call[d].op = "smget"
    BY <1>1, <1>2 DEF Busy, Places
  <2> QED BY <1>1, <2>1, WhichOps DEF Busy
<1>4. SmgetOK(iface[d]) /\ many.keys \in Nat /\ many.keys <= CompressNum
  BY <1>1, <1>3 DEF ManyOK
<1> DEFINE sent == many.sent
           got == many.got
           map == many.map
           index == iface[d].index
           buffer == iface[d].buffer
<1>5. PICK ready \in SUBSET many.open \ {{}} : \E ok \in SUBSET ready :
       LET place(c) == iface[d].index + Cardinality({x \in ok : x < c})
           holds(b) == {c \in ok : place(c) = b}
       IN  /\ iface' = [iface EXCEPT
                ![d].index = @ + Cardinality(ok),
                ![d].buffer = [b \in Buffer |-> IF holds(b) = {} THEN @[b]
                   ELSE <<round, many.sent[CHOOSE c \in holds(b) : TRUE], "text">>]]
           /\ many' = [many EXCEPT
                !.open = StillOpen(@, ready),
                !.got = @ \cup {many.sent[c] : c \in ok},
                !.map = [c \in DOMAIN @ \cup ok |-> IF c \in DOMAIN @ THEN @[c] ELSE place(c)]]
  BY Zenon DEF WooReceive
<1>5a. PICK ok \in SUBSET ready :
       LET place(c) == iface[d].index + Cardinality({x \in ok : x < c})
           holds(b) == {c \in ok : place(c) = b}
       IN  /\ iface' = [iface EXCEPT
                ![d].index = @ + Cardinality(ok),
                ![d].buffer = [b \in Buffer |-> IF holds(b) = {} THEN @[b]
                   ELSE <<round, many.sent[CHOOSE c \in holds(b) : TRUE], "text">>]]
           /\ many' = [many EXCEPT
                !.open = StillOpen(@, ready),
                !.got = @ \cup {many.sent[c] : c \in ok},
                !.map = [c \in DOMAIN @ \cup ok |-> IF c \in DOMAIN @ THEN @[c] ELSE place(c)]]
  BY Zenon, <1>5
<1> DEFINE place(c) == index + Cardinality({x \in ok : x < c})
           holds(b) == {c \in ok : place(c) = b}
           n == Cardinality(ok)
           after == [b \in Buffer |-> IF holds(b) = {} THEN buffer[b]
                                      ELSE <<round, sent[CHOOSE c \in holds(b) : TRUE], "text">>]
           map2 == [c \in DOMAIN map \cup ok |-> IF c \in DOMAIN map THEN map[c] ELSE place(c)]
\* What comes from where.
<1>6. /\ ok \subseteq many.open /\ ok \subseteq 1 .. Len(sent) /\ ok \cap got = {}
      /\ Len(sent) \in Nat /\ \A c \in ok : sent[c] = c
      /\ {sent[c] : c \in ok} = ok
      /\ DOMAIN map = got /\ index = Cardinality(got) /\ got \subseteq 1 .. Len(sent)
  <2>1. /\ many.open \subseteq 1 .. Len(sent) /\ many.open \cap got = {}
        /\ Len(sent) \in Nat /\ \A c \in 1 .. Len(sent) : sent[c] = c
        /\ DOMAIN map = got /\ index = Cardinality(got) /\ got \subseteq 1 .. Len(sent)
    BY <1>4 DEF SmgetOK
  <2>2. ok \subseteq many.open
    BY <1>5, <1>5a
  <2>3. \A c \in ok : sent[c] = c
    BY <2>1, <2>2
  <2> QED BY <2>1, <2>2, <2>3
\* How many there are.
<1>7. /\ IsFiniteSet(ok) /\ n \in Nat /\ index \in Nat
      /\ Cardinality(got \cup ok) = index + n /\ index + n <= Len(sent)
      /\ Len(sent) <= CompressNum
  <2>1. PICK len \in Nat : len = Len(sent)
    BY <1>6
  <2>2. IsFiniteSet(1 .. len) /\ Cardinality(1 .. len) = len
    BY FS_Interval
  <2>3. /\ IsFiniteSet(ok) /\ IsFiniteSet(got) /\ IsFiniteSet(got \cup ok)
        /\ Cardinality(got \cup ok) <= len
    <3>1. got \cup ok \subseteq 1 .. len
      BY <1>6, <2>1
    <3> QED BY <1>6, <2>1, <2>2, <3>1, FS_Subset, SMTT(20)
  <2>4. Cardinality(got \cup ok) = Cardinality(got) + Cardinality(ok) - Cardinality(got \cap ok)
    BY <2>3, FS_Union
  <2>5. Cardinality(got \cap ok) = 0
    BY <1>6, FS_EmptySet
  <2>6. Cardinality(got) \in Nat /\ Cardinality(ok) \in Nat
    BY <2>3, FS_CardinalityType
  <2>7. len <= CompressNum
    BY <1>4, <2>1, DbCallAssumption DEF SmgetOK
  <2> QED BY <1>6, <2>1, <2>3, <2>4, <2>5, <2>6, <2>7
\* Every answer has a place of its own, after those that were taken.
<1>8. /\ \A c \in ok : place(c) \in Int /\ place(c) >= index /\ place(c) < index + n
      /\ \A b, c \in ok : b # c => place(b) # place(c)
  <2>1. ok \subseteq Nat
    BY <1>6
  <2> DEFINE rank(c) == Cardinality({x \in ok : x < c})
  <2>2. /\ \A c \in ok : rank(c) \in Nat /\ rank(c) < n
        /\ \A b, c \in ok : b < c => rank(b) < rank(c)
    BY <1>7, <2>1, Ranks
  <2>3. \A c \in ok : place(c) = index + rank(c)
    OBVIOUS
  <2> HIDE DEF rank, place, n
  <2>4. ASSUME NEW b \in ok, NEW c \in ok, b # c PROVE place(b) # place(c)
    <3>1. b < c \/ c < b
      BY <2>1, <2>4
    <3>2. rank(b) # rank(c) /\ rank(b) \in Nat /\ rank(c) \in Nat
      BY <2>2, <3>1
    <3> QED BY <1>7, <2>3, <3>2
  <2>5. \A c \in ok : place(c) \in Int /\ place(c) >= index /\ place(c) < index + n
    BY <1>7, <2>2, <2>3
  <2> QED BY <2>4, <2>5
\* What the step leaves.
<1>9. /\ IfaceIs(d, index + n, iface[d].handle) /\ iface'[d].buffer = after
      /\ many'.open = many.open \ ready /\ many'.got = got \cup ok /\ many'.map = map2
      /\ many'.at = many.at /\ many'.sent = sent /\ many'.keys = many.keys /\ many'.db = d
      /\ DOMAIN many' = DOMAIN NoMany
  <2>1. iface' = [iface EXCEPT ![d].index = @ + n, ![d].buffer = after]
    BY <1>5, <1>5a
  <2>2. many' = [many EXCEPT !.open = StillOpen(@, ready), !.got = @ \cup {sent[c] : c \in ok},
                             !.map = map2]
    BY <1>5, <1>5a
  <2>3. after \in [Buffer -> Nat \X Nat \X Form]
    <3> SUFFICES ASSUME NEW b \in Buffer
                 PROVE  (IF holds(b) = {} THEN buffer[b]
                         ELSE <<round, sent[CHOOSE c \in holds(b) : TRUE], "text">>) \in Nat \X Nat \X Form
      OBVIOUS
    <3>1. buffer[b] \in Nat \X Nat \X Form /\ round \in Nat /\ "text" \in Form
      BY <1>1 DEF TypesOK, IfaceTypes, Form
    <3>2. CASE holds(b) # {}
      <4>1. (CHOOSE c \in holds(b) : TRUE) \in ok
        BY <3>2
      <4>2. sent[CHOOSE c \in holds(b) : TRUE] \in Nat
        BY <1>6, <4>1
      <4> QED BY <3>1, <3>2, <4>2
    <3> QED BY <3>1, <3>2
  <2> HIDE DEF after, map2, n
  <2>4. IfaceIs(d, index + n, iface[d].handle) /\ iface'[d].buffer = after
    <3>1. index + n \in Nat
      BY <1>7
    <3> QED BY <1>1, <2>1, <2>3, <3>1, ZenonT(40) DEF TypesOK, IfaceTypes, IfaceIs
  <2>5. /\ many'.open = StillOpen(many.open, ready) /\ many'.got = got \cup {sent[c] : c \in ok}
        /\ many'.map = map2
        /\ many'.at = many.at /\ many'.sent = sent /\ many'.keys = many.keys /\ many'.db = d
        /\ DOMAIN many' = DOMAIN NoMany
    BY <1>1, <1>3, <2>2 DEF TypesOK, NoMany
  <2> QED BY <1>6, <2>4, <2>5 DEF StillOpen
<1>10. SmgetOK(iface[d])'
  <2>1. /\ Pointers(map, index) /\ OwnBuffers(iface[d]) /\ buffer \in [Buffer -> Nat \X Nat \X Form]
    BY <1>1, <1>4 DEF SmgetOK, TypesOK, IfaceTypes
  <2>2. /\ DOMAIN map2 = got \cup ok
        /\ \A c \in got : map2[c] = map[c] /\ map[c] \in Buffer /\ map[c] \in Int /\ map[c] < index
        /\ \A c \in ok : map2[c] = place(c) /\ place(c) \in Buffer
    <3>1. \A c \in ok : place(c) \in Buffer
      <4> HIDE DEF place, n
      <4> QED BY <1>7, <1>8, DbCallAssumption DEF Buffer
    <3>2. \A c \in got : map[c] \in Buffer /\ map[c] \in Int /\ map[c] < index
      BY <1>6, <2>1 DEF Pointers, Buffer
    <3> HIDE DEF place
    <3>3. /\ DOMAIN map2 = got \cup ok /\ \A c \in got : map2[c] = map[c]
          /\ \A c \in ok : map2[c] = place(c)
      BY <1>6
    <3> QED BY <3>1, <3>2, <3>3
  <2>3. Pointers(map2, index + n)
    <3> HIDE DEF place, map2, n
    <3>1. \A c \in DOMAIN map2 : map2[c] \in Buffer /\ map2[c] < index + n
      BY <1>7, <1>8, <2>2
    <3>2. ASSUME NEW j \in DOMAIN map2, NEW k \in DOMAIN map2, j # k PROVE map2[j] # map2[k]
      <4>1. CASE j \in got /\ k \in got
        BY <1>6, <2>1, <2>2, <3>2, <4>1 DEF Pointers
      <4>2. CASE j \in ok /\ k \in ok
        BY <1>8, <2>2, <3>2, <4>2
      <4>3. CASE (j \in got /\ k \in ok) \/ (j \in ok /\ k \in got)
        BY <1>7, <1>8, <2>2, <4>3
      <4> QED BY <2>2, <4>1, <4>2, <4>3
    <3> QED BY <3>1, <3>2 DEF Pointers
  <2>4. ASSUME NEW k \in got \cup ok PROVE k \in DOMAIN map2 /\ after[map2[k]] = <<round, k, "text">>
    <3>1. CASE k \in got
      <4>1. map2[k] = map[k] /\ map[k] \in Buffer /\ buffer[map[k]] = <<round, k, "text">>
        BY <2>1, <2>2, <3>1 DEF OwnBuffers
      <4>2. holds(map[k]) = {}
        <5>1. \A c \in ok : place(c) # map[k]
          <6>1. map[k] \in Int /\ map[k] < index /\ index \in Int
            <7> HIDE DEF place, map2, n
            <7> QED BY <1>7, <2>2, <3>1
          <6>2. \A c \in ok : place(c) \in Int /\ place(c) >= index
            BY <1>8
          <6> HIDE DEF place
          <6> QED BY <6>1, <6>2
        <5> QED BY <5>1
      <4> QED BY <2>2, <4>1, <4>2
    <3>2. CASE k \in ok
      <4>1. holds(place(k)) = {k}
        <5> HIDE DEF place, n
        <5> QED BY <1>8, <3>2
      <4>2. (CHOOSE c \in holds(place(k)) : TRUE) = k
        BY <4>1
      <4>3. map2[k] = place(k) /\ place(k) \in Buffer /\ sent[k] = k
        BY <1>6, <2>2, <3>2
      <4>4. after[place(k)] = <<round, k, "text">>
        BY <4>1, <4>2, <4>3
      <4> HIDE DEF place, after, map2
      <4> QED BY <2>2, <3>2, <4>3, <4>4
    <3> QED BY <3>1, <3>2
  <2> HIDE DEF map2, after, n
  <2>5. OwnBuffers(iface[d])'
    BY <1>9, <2>4 DEF OwnBuffers
  <2>6. /\ many'.open \subseteq 1 .. Len(sent) /\ many'.got \subseteq 1 .. Len(sent)
        /\ many'.open \cap many'.got = {}
    <3>1. many.open \subseteq 1 .. Len(sent) /\ many.open \cap got = {}
      BY <1>4 DEF SmgetOK
    <3>2. ok \subseteq ready
      BY <1>5, <1>5a
    <3> QED BY <1>6, <1>9, <3>1, <3>2
  <2>7. DOMAIN many'.map = many'.got /\ iface'[d].index = Cardinality(many'.got)
        /\ Pointers(many'.map, iface'[d].index)
    BY <1>7, <1>9, <2>2, <2>3 DEF IfaceIs
  <2> QED BY <1>4, <1>9, <2>5, <2>6, <2>7 DEF SmgetOK
<1> HIDE DEF place, map2, after, n
<1>11. ManyOK'
  BY <1>1, <1>2, <1>3, <1>4, <1>9, <1>10 DEF ManyOK, Ops
<1>12. HeapIs(d, Two("client", 0, "value", 0)) /\ HeapOK(d)' /\ OddKept(d)
  <2>1. HeapIs(d, Two("client", 0, "value", 0))
    BY <1>1, <1>2, HeapSame
  <2>2. Clients(d) = Len(sent) /\ Clients(d)' = Len(sent)
    BY <1>2, <1>3, <1>9 DEF Clients
  <2>3. WooMoves(d, 0)
    BY <1>2, <1>6, <2>1, <2>2 DEF WooMoves
  <2> QED BY <1>1, <1>2, <2>1, <2>3, WooHeap DEF OddKept
<1> QED BY <1>1, <1>2, <1>3, <1>9, <1>11, <1>12, ManyGoesOn

LEMMA WooOK ==
  ASSUME IInv, NEW d \in Woo, WooStep(d), UNCHANGED <<round, phase, asked>>
  PROVE  Leads(d)
<1>1. d \in Db
  BY DbCallAssumption
<1>2. Busy(d)
  BY <1>1, BusyIs DEF WooStep, WooClient, WooTalk, WooMgetKey, WooMgetEnd, WooSend, WooSent,
     WooReceive, WooWaited, At
<1> QED BY <1>2, WooGetOK, WooEndsOK, WooMgetOK, WooSendOK, WooReceiveOK DEF WooStep
-----------------------------------------------------------------------------
(* From one interface to all. *)

\* A call that holds nothing but what its interface keeps.
Quiet(d) ==
  \/ call[d].pc \in {"idle", "thread", "returned"}
  \/ call[d].pc = "begin" /\ (call[d].op # "smget" \/ many.sent = <<>>)

Keeps(d, k) ==
  IF phase # "released" /\ iface[d].handle /\ ((d \in Mc /\ k = "memc") \/ (d \in Api /\ k = "curl"))
  THEN 1 ELSE 0

LEMMA OwnsQuiet ==
  ASSUME NEW d \in Db, NEW k
  PROVE  (Quiet(d) => Owns(d, k) = Keeps(d, k)) /\ (Quiet(d)' => Owns(d, k)' = Keeps(d, k)')
<1>1. CASE d \in Redis /\ d \notin Mc /\ d \notin Api /\ d \notin Woo
  BY <1>1 DEF Quiet, Owns, Keeps
<1>2. CASE d \notin Redis /\ d \in Mc /\ d \notin Api /\ d \notin Woo
  BY <1>2 DEF Quiet, Owns, Keeps
<1>3. CASE d \notin Redis /\ d \notin Mc /\ d \in Api /\ d \notin Woo
  BY <1>3 DEF Quiet, Owns, Keeps
<1>4. CASE d \notin Redis /\ d \notin Mc /\ d \notin Api /\ d \in Woo
  <2>1. Len(<<>>) = 0
    OBVIOUS
  <2> QED BY <1>4, <2>1 DEF Quiet, Owns, Keeps
<1> QED BY <1>1, <1>2, <1>3, <1>4, OneBackend

LEMMA HeapKept ==
  ASSUME NEW d \in Db, HeapOK(d), UNCHANGED <<heap, odd>>, \A k \in Kind : Owns(d, k)' = Owns(d, k)
  PROVE  HeapOK(d)'
BY DEF HeapOK

LEMMA HeapQuiet ==
  ASSUME NEW d \in Db, HeapOK(d), UNCHANGED <<heap, odd>>, Quiet(d), Quiet(d)',
         iface'[d].handle = iface[d].handle, phase # "released", phase' # "released"
  PROVE  HeapOK(d)'
<1>1. \A k \in Kind : Owns(d, k)' = Owns(d, k)
  BY OwnsQuiet DEF Keeps
<1> QED BY <1>1, HeapKept

\* What a step of one interface means for the others.
LEMMA StepOK ==
  ASSUME IInv, NEW d \in Db, Leads(d), phase \in {"joining", "many"}
  PROVE  IInv'
<1>1. TypesOK' /\ Alone(d) /\ CallOK(d)' /\ HeapOK(d)'
  BY DEF Leads
<1>2. ASSUME NEW e \in Db, e # d
      PROVE  /\ CallOK(e)' /\ HeapOK(e)'
             /\ e \in Threads /\ phase = "joining" => AnswerOK(e)'
  <2>1. /\ call'[e] = call[e] /\ iface'[e] = iface[e] /\ heap'[e] = heap[e]
        /\ \A k \in Kind : <<e, k>> \in odd' <=> <<e, k>> \in odd
        /\ phase' = phase /\ asked' = asked /\ round' = round
        /\ many' = many \/ (phase = "many" /\ many.db = d /\ many'.db = d)
    BY <1>1, <1>2 DEF Alone
  <2>2. CallOK(e) /\ HeapOK(e)
    BY DEF IInv
  <2>3. Active(e)' <=> Active(e)
    BY <1>2, <2>1 DEF Active
  <2>4. Places(e)' = Places(e)
    BY <2>1 DEF Places
  <2>5. CallOK(e)'
    BY <2>1, <2>2, <2>3, <2>4 DEF CallOK
  <2>6. ASSUME NEW k \in Kind PROVE Owns(e, k)' = Owns(e, k)
    <3>1. CASE many' = many
      BY <2>1, <3>1 DEF Owns
    <3>2. CASE phase = "many" /\ many.db = d
      <4>1. ~Active(e)
        BY <1>2, <3>2 DEF Active
      <4>2. call[e].op # "smget"
        BY <2>2, <4>1 DEF CallOK, NoCall
      <4> QED BY <2>1, <4>2 DEF Owns
    <3> QED BY <2>1, <3>1, <3>2
  <2>7. HeapOK(e)'
    BY <2>1, <2>2, <2>6 DEF HeapOK
  <2>8. ASSUME e \in Threads, phase = "joining" PROVE AnswerOK(e)'
    <3>1. AnswerOK(e)
      BY <2>8 DEF IInv, AnswersOK
    <3> QED BY <2>1, <3>1 DEF AnswerOK
  <2> QED BY <2>5, <2>7, <2>8
<1>3. AnswersOK'
  <2>1. Threads' = Threads /\ phase' = phase /\ Threads \subseteq Db
    BY <1>1 DEF Alone, Threads
  <2> QED BY <1>2, <2>1 DEF AnswersOK, Leads
<1>4. ManyOK'
  <2>1. phase' = phase
    BY <1>1 DEF Alone
  <2>2. CASE phase = "many"
    BY <2>2 DEF Leads
  <2> QED BY <2>1, <2>2 DEF ManyOK
<1> QED BY <1>1, <1>2, <1>3, <1>4 DEF IInv

\* get_multi_db_pthread begins.
LEMMA ThreadOK ==
  ASSUME IInv, NEW d \in Db, Thread(d)
  PROVE  Leads(d) /\ phase = "joining"
<1>1. /\ call[d].pc = "thread" /\ UNCHANGED <<round, phase, asked, many, heap, odd>>
      /\ TypesOK /\ CallOK(d) /\ HeapOK(d) /\ AnswersOK
  BY DEF Thread, At, IInv
<1>2. "thread" \notin Places(d)
  BY OneBackend DEF Places
<1>3. /\ phase = "joining" /\ d \in DOMAIN asked /\ Active(d) /\ Active(d)'
      /\ call[d] = [NoCall EXCEPT !.pc = "thread"]
  <2>1. call[d] # NoCall
    BY <1>1 DEF NoCall
  <2>2. phase = "joining" /\ Active(d) /\ call[d] = [NoCall EXCEPT !.pc = "thread"]
    BY <1>1, <1>2, <2>1 DEF CallOK
  <2> QED BY <1>1, <2>2 DEF Active
<1>4. Quiet(d)
  BY <1>1 DEF Quiet
<1>5. /\ call[d].op = "none" /\ call[d].ret = 0 /\ call[d].result = Null /\ call[d].served = FALSE
  BY <1>3 DEF NoCall
<1>6. ASSUME call' \in CallTypes, iface' \in IfaceTypes, Quiet(d)', CallOK(d)', AnswerOK(d)',
             \A e \in Db \ {d} : call'[e] = call[e] /\ iface'[e] = iface[e],
             iface'[d].handle = iface[d].handle
      PROVE  Leads(d)
  <2>1. HeapOK(d)'
    BY <1>1, <1>3, <1>4, <1>6, HeapQuiet
  <2>2. TypesOK' /\ Alone(d)
    BY <1>1, <1>6 DEF TypesOK, Alone
  <2> QED BY <1>1, <1>3, <1>6, <2>1, <2>2 DEF Leads
<1>7. CASE Return(d, 0) /\ UNCHANGED iface
  <2>1. CallIs(d, "returned", 0, Null, FALSE)
    <3>1. PICK ret \in Int : ret = 0 /\ Return(d, ret)
      BY <1>7
    <3>2. CallIs(d, "returned", ret, call[d].result, call[d].served)
      BY <1>1, <3>1, ReturnIs
    <3> QED BY <1>5, <3>1, <3>2
  <2>2. CallOK(d)'
    BY <1>3, <2>1 DEF CallOK, CallIs
  <2>7. AnswerOK(d)'
    BY <2>1 DEF AnswerOK, CallIs
  <2>8. Quiet(d)'
    BY <2>1 DEF Quiet, CallIs
  <2>3. call' \in CallTypes /\ \A e \in Db \ {d} : call'[e] = call[e]
    BY <2>1 DEF CallIs
  <2>4. iface' \in IfaceTypes
    BY <1>1, <1>7 DEF TypesOK
  <2>5. \A e \in Db \ {d} : call'[e] = call[e] /\ iface'[e] = iface[e]
    BY <1>7, <2>3
  <2>6. iface'[d].handle = iface[d].handle
    BY <1>7
  <2> QED BY <1>3, <1>6, <2>2, <2>3, <2>4, <2>5, <2>6, <2>7, <2>8
<1>8. ASSUME NEW op \in GetOps, Enter(d, op) PROVE Leads(d)
  <2> DEFINE now == [NoCall EXCEPT !.pc = "begin", !.op = op]
  <2>1. now \in [pc : Pc, op : Op, ret : Int, result : Int, served : BOOLEAN]
    <3>1. "begin" \in Pc /\ "idle" \in Pc /\ op \in Op /\ "none" \in Op /\ Null \in Int
      BY DEF Null, Pc, Op
    <3>2. NoCall \in [pc : Pc, op : Op, ret : Int, result : Int, served : BOOLEAN]
      BY <3>1 DEF NoCall
    <3> HIDE DEF NoCall
    <3> QED BY <3>1, <3>2
  <2>2. /\ now.pc = "begin" /\ now.op = op /\ now.served = FALSE /\ now.result = Null
    BY DEF NoCall
  <2>3. call' = [call EXCEPT ![d] = now] /\ iface' = [iface EXCEPT ![d].index = 0]
    BY <1>8 DEF Enter
  <2> HIDE DEF now
  <2>4. /\ call' \in CallTypes /\ call'[d] = now /\ \A e \in Db \ {d} : call'[e] = call[e]
    BY <1>1, <2>1, <2>3 DEF TypesOK, CallTypes
  <2>5. /\ iface' \in IfaceTypes /\ \A e \in Db \ {d} : iface'[e] = iface[e]
        /\ iface'[d].index = 0 /\ iface'[d].handle = iface[d].handle
    BY <1>1, <2>3 DEF TypesOK, IfaceTypes
  <2>6. "begin" \in Places(d)'
    BY <2>2, <2>4, OneBackend DEF Places
  <2>7. CallOK(d)'
    BY <1>1, <1>3, <2>2, <2>4, <2>6 DEF CallOK
  <2>8. AnswerOK(d)'
    BY <2>2, <2>4, <2>5 DEF AnswerOK
  <2>9. Quiet(d)'
    BY <2>2, <2>4 DEF Quiet, GetOps
  <2> QED BY <1>6, <2>4, <2>5, <2>7, <2>8, <2>9
<1> QED BY <1>3, <1>7, <1>8 DEF Thread, GetOps
-----------------------------------------------------------------------------
(* The query thread's own steps. *)

LEMMA InvInit ==
  Init => IInv
<1> SUFFICES ASSUME Init PROVE IInv
  OBVIOUS
<1>1. /\ round = 0 /\ phase = "idle" /\ many = NoMany /\ odd = {} /\ many.db = Null
      /\ \A d \in Db : call[d] = NoCall /\ iface[d] = Fresh /\ heap[d] = Free
  BY DEF Init, NoMany
<1>2. NoCall \in [pc : Pc, op : Op, ret : Int, result : Int, served : BOOLEAN]
  <2>1. "idle" \in Pc /\ "none" \in Op /\ Null \in Int
    BY DEF Null, Pc, Op
  <2> QED BY <2>1 DEF NoCall
<1>3. Fresh \in [index : Nat, buffer : [Buffer -> Nat \X Nat \X Form], handle : BOOLEAN]
  <2>1. Nothing \in Nat \X Nat \X Form
    BY DEF Nothing, Form
  <2> QED BY <2>1 DEF Fresh
<1>4. Free \in [Kind -> Int]
  BY DEF Free
<1>5. call \in CallTypes /\ iface \in IfaceTypes /\ heap \in HeapTypes
  BY <1>2, <1>3, <1>4 DEF Init, CallTypes, IfaceTypes, HeapTypes
<1>6. TypesOK
  BY <1>1, <1>5 DEF TypesOK
<1>7. \A d \in Db : CallOK(d)
  BY <1>1 DEF CallOK, Active
<1>8. ASSUME NEW d \in Db PROVE HeapOK(d)
  <2>1. Quiet(d) /\ \A k \in Kind : heap[d][k] = 0
    BY <1>1 DEF Quiet, NoCall, Free
  <2>2. \A k \in Kind : Owns(d, k) = 0
    BY <1>1, <2>1, OwnsQuiet DEF Keeps, Fresh
  <2> QED BY <2>1, <2>2 DEF HeapOK
<1> QED BY <1>1, <1>6, <1>7, <1>8 DEF IInv, AnswersOK, ManyOK

\* Outside of a call nothing is under way.
LEMMA Resting ==
  ASSUME IInv, phase \in {"idle", "released", "crashed"}, NEW d \in Db
  PROVE  call[d] = NoCall /\ Quiet(d)
<1>1. call[d] = NoCall
  BY DEF IInv, CallOK, Active
<1> QED BY <1>1 DEF Quiet, NoCall

LEMMA PushOK ==
  ASSUME IInv, NEW d, NEW by, Push(d, by)
  PROVE  IInv'
<1>1. phase = "idle" /\ UNCHANGED <<round, phase, call, iface, many, heap, odd>>
  BY DEF Push
<1>2. TypesOK'
  BY <1>1 DEF IInv, TypesOK
<1>3. \A e \in Db : CallOK(e)'
  BY <1>1, Resting DEF CallOK, Active
<1>4. ASSUME NEW e \in Db PROVE HeapOK(e)'
  <2>1. \A k \in Kind : Owns(e, k)' = Owns(e, k)
    BY <1>1 DEF Owns
  <2>2. HeapOK(e) /\ UNCHANGED <<heap, odd>>
    BY <1>1 DEF IInv
  <2> QED BY <2>1, <2>2, HeapKept
<1> QED BY <1>1, <1>2, <1>3, <1>4 DEF IInv, AnswersOK, ManyOK

LEMMA GetMultiDbOK ==
  ASSUME IInv, GetMultiDb
  PROVE  IInv'
<1> DEFINE now == [NoCall EXCEPT !.pc = "thread"]
<1>1. /\ phase = "idle" /\ phase' = "joining" /\ round' = round + 1
      /\ UNCHANGED <<asked, iface, many, heap, odd>> /\ TypesOK
      /\ call' = [d \in Db |-> IF d \in DOMAIN asked THEN now ELSE NoCall]
  BY DEF GetMultiDb, IInv
<1>2. /\ now \in [pc : Pc, op : Op, ret : Int, result : Int, served : BOOLEAN]
      /\ NoCall \in [pc : Pc, op : Op, ret : Int, result : Int, served : BOOLEAN]
  <2>1. "thread" \in Pc /\ "idle" \in Pc /\ "none" \in Op /\ Null \in Int
    BY DEF Null, Pc, Op
  <2>2. NoCall \in [pc : Pc, op : Op, ret : Int, result : Int, served : BOOLEAN]
    BY <2>1 DEF NoCall
  <2> HIDE DEF NoCall
  <2> QED BY <2>1, <2>2
<1>3. /\ now.pc = "thread" /\ now.op = "none" /\ now.served = FALSE /\ now.result = Null
      /\ NoCall.pc = "idle"
  BY DEF NoCall
<1> HIDE DEF now
<1>4. TypesOK'
  <2>1. call' \in CallTypes
    BY <1>1, <1>2 DEF CallTypes
  <2> QED BY <1>1, <2>1 DEF TypesOK
<1>5. \A d \in Db : CallOK(d)'
  BY <1>1 DEF CallOK, Active, now
<1>6. ASSUME NEW d \in Db PROVE HeapOK(d)'
  <2>1. Quiet(d) /\ Quiet(d)'
    BY <1>1, <1>3, Resting DEF Quiet
  <2>2. HeapOK(d)
    BY DEF IInv
  <2> QED BY <1>1, <2>1, <2>2, HeapQuiet
<1>7. AnswersOK'
  <2> SUFFICES ASSUME NEW d \in Threads' PROVE AnswerOK(d)'
    BY DEF AnswersOK
  <2>1. call'[d] = now
    BY <1>1 DEF Threads
  <2> QED BY <1>3, <2>1 DEF AnswerOK
<1>8. ManyOK'
  BY <1>1 DEF ManyOK
<1> QED BY <1>4, <1>5, <1>6, <1>7, <1>8 DEF IInv

LEMMA JoinOK ==
  ASSUME IInv, Join
  PROVE  IInv'
<1>1. /\ phase = "joining" /\ phase' = "joined" /\ \A d \in Threads : call[d].pc = "returned"
      /\ UNCHANGED <<round, asked, call, iface, many, heap, odd>>
  BY DEF Join, At
<1>2. TypesOK'
  BY <1>1 DEF IInv, TypesOK
<1>3. ASSUME NEW d \in Db PROVE CallOK(d)'
  <2>1. CallOK(d) /\ (Active(d) <=> d \in Threads) /\ (Active(d)' <=> d \in Threads)
    BY <1>1 DEF IInv, Active, Threads
  <2> QED BY <1>1, <2>1 DEF CallOK
<1>4. ASSUME NEW d \in Db PROVE HeapOK(d)'
  <2>1. \A k \in Kind : Owns(d, k)' = Owns(d, k)
    BY <1>1 DEF Owns
  <2>2. HeapOK(d)
    BY DEF IInv
  <2> QED BY <1>1, <2>1, <2>2, HeapKept
<1>5. AnswersOK'
  BY <1>1 DEF IInv, AnswersOK, Threads, AnswerOK
<1> QED BY <1>1, <1>2, <1>3, <1>4, <1>5 DEF IInv, ManyOK

\* The caller goes on: no call is left.
LEMMA NoCalls ==
  ASSUME TypesOK, call' = [d \in Db |-> NoCall]
  PROVE  call' \in CallTypes /\ \A d \in Db : call'[d] = NoCall /\ Quiet(d)'
<1>1. "idle" \in Pc /\ "none" \in Op /\ Null \in Int
  BY DEF Null, Pc, Op
<1>2. NoCall \in [pc : Pc, op : Op, ret : Int, result : Int, served : BOOLEAN]
  BY <1>1 DEF NoCall
<1>3. NoCall.pc = "idle"
  BY DEF NoCall
<1> HIDE DEF NoCall
<1>4. \A d \in Db : Quiet(d)'
  BY <1>3 DEF Quiet
<1> QED BY <1>2, <1>4 DEF CallTypes

LEMMA ReleaseMapOK ==
  ASSUME IInv, ReleaseMap
  PROVE  IInv'
<1>1. /\ phase = "joined" /\ phase' = "idle" /\ call' = [d \in Db |-> NoCall] /\ TypesOK
      /\ UNCHANGED <<round, iface, many, heap, odd>>
  BY DEF ReleaseMap, IInv
<1>2. TypesOK'
  BY <1>1, NoCalls DEF TypesOK
<1>3. \A d \in Db : CallOK(d)'
  BY <1>1, NoCalls DEF CallOK, Active
<1>4. ASSUME NEW d \in Db PROVE HeapOK(d)'
  <2>1. Quiet(d)
    BY <1>1 DEF IInv, CallOK, Quiet, NoCall
  <2>2. HeapOK(d) /\ Quiet(d)'
    BY <1>1, NoCalls DEF IInv
  <2> QED BY <1>1, <2>1, <2>2, HeapQuiet
<1> QED BY <1>1, <1>2, <1>3, <1>4 DEF IInv, AnswersOK, ManyOK

LEMMA ReturnManyOK ==
  ASSUME IInv, ReturnMany
  PROVE  IInv'
<1>1. /\ phase = "many" /\ phase' = "idle" /\ call' = [d \in Db |-> NoCall] /\ TypesOK
      /\ call[many.db].pc = "returned" /\ many' = NoMany
      /\ UNCHANGED <<round, asked, iface, heap, odd>>
  BY DEF ReturnMany, IInv, At
<1>2. TypesOK'
  BY <1>1, NoCalls DEF TypesOK
<1>3. \A d \in Db : CallOK(d)'
  BY <1>1, NoCalls DEF CallOK, Active
<1>4. ASSUME NEW d \in Db PROVE HeapOK(d)'
  <2>1. Quiet(d)
    BY <1>1 DEF IInv, CallOK, Active, Quiet, NoCall
  <2>2. HeapOK(d) /\ Quiet(d)'
    BY <1>1, NoCalls DEF IInv
  <2> QED BY <1>1, <2>1, <2>2, HeapQuiet
<1> QED BY <1>1, <1>2, <1>3, <1>4 DEF IInv, AnswersOK, ManyOK

LEMMA CallManyOK ==
  ASSUME IInv, NEW d \in Db, NEW keys \in 0 .. MaxKeys, NEW null, NEW op \in Ops(d),
         CallMany(d, op, keys, null)
  PROVE  IInv'
<1> DEFINE now == [NoCall EXCEPT !.pc = "begin", !.op = op]
<1>1. /\ phase = "idle" /\ phase' = "many" /\ round' = round + 1 /\ TypesOK
      /\ op = "s_mget" \/ keys <= CompressNum
      /\ call' = [call EXCEPT ![d] = now] /\ iface' = [iface EXCEPT ![d].index = 0]
      /\ many' = [NoMany EXCEPT !.db = d, !.keys = keys, !.null = null]
      /\ UNCHANGED <<asked, heap, odd>>
  BY DEF CallMany, Enter, IInv
<1>2. op \in {"set", "s_mget", "mget", "smget"} /\ op \in Op /\ op \notin GetOps
  BY OneBackend DEF Ops, Op, GetOps
<1>3. /\ now \in [pc : Pc, op : Op, ret : Int, result : Int, served : BOOLEAN]
      /\ now.pc = "begin" /\ now.op = op
  <2>1. "begin" \in Pc /\ "idle" \in Pc /\ "none" \in Op /\ Null \in Int
    BY DEF Null, Pc, Op
  <2>2. NoCall \in [pc : Pc, op : Op, ret : Int, result : Int, served : BOOLEAN]
    BY <2>1 DEF NoCall
  <2>3. now.pc = "begin" /\ now.op = op
    BY DEF NoCall
  <2> HIDE DEF NoCall
  <2> QED BY <1>2, <2>1, <2>2, <2>3
<1> HIDE DEF now
<1>4. /\ call' \in CallTypes /\ call'[d] = now /\ \A e \in Db \ {d} : call'[e] = call[e]
  BY <1>1, <1>3 DEF TypesOK, CallTypes
<1>5. /\ iface' \in IfaceTypes /\ iface'[d].index = 0
      /\ \A e \in Db : iface'[e].handle = iface[e].handle
  BY <1>1 DEF TypesOK, IfaceTypes
<1>6. /\ many'.db = d /\ many'.keys = keys /\ many'.at = 1 /\ many'.sent = <<>> /\ many'.open = {}
      /\ many'.got = {} /\ many'.map = <<>> /\ DOMAIN many' = DOMAIN NoMany
  BY <1>1 DEF NoMany
<1>7. TypesOK'
  BY <1>1, <1>4, <1>5, <1>6 DEF TypesOK
<1>8. \A e \in Db : call[e] = NoCall /\ Quiet(e)
  BY <1>1, Resting
<1>9. ASSUME NEW e \in Db PROVE CallOK(e)' /\ HeapOK(e)'
  <2>1. Active(e)' <=> e = d
    BY <1>1, <1>6 DEF Active
  <2>2. "begin" \in Places(e)'
    BY OneBackend DEF Places
  <2>3. CallOK(e)'
    BY <1>1, <1>3, <1>4, <1>8, <2>1, <2>2 DEF CallOK
  <2>4. Quiet(e)'
    <3>1. CASE e = d
      BY <1>3, <1>4, <1>6, <3>1 DEF Quiet
    <3>2. CASE e # d
      BY <1>4, <1>8, <3>2 DEF Quiet, NoCall
    <3> QED BY <3>1, <3>2
  <2>5. HeapOK(e)
    BY DEF IInv
  <2>6. HeapOK(e)'
    BY <1>1, <1>5, <1>8, <2>4, <2>5, HeapQuiet
  <2> QED BY <2>3, <2>6
<1>10. ManyOK'
  <2>1. DOMAIN <<>> = {} /\ Len(<<>>) = 0 /\ <<>> \in Seq(Nat) /\ 1 .. 0 = {} /\ Cardinality({}) = 0
    BY FS_EmptySet
  <2>2. keys \in Nat
    BY DbCallAssumption
  <2>3. RedisManyOK(iface[d])' /\ McManyOK(iface[d])' /\ WooManyOK(iface[d])' /\ SmgetOK(iface[d])'
    <3>1. Pointers(<<>>, 0)
      BY <2>1 DEF Pointers
    <3>2. OwnBuffers(iface[d])'
      BY <1>6 DEF OwnBuffers
    <3>3. many'.at \in Nat \ {0} /\ many'.at <= many'.keys + 1 /\ 0 = many'.at - 1
          /\ Len(many'.sent) < many'.at
      BY <1>6, <2>1, <2>2
    <3>4. RedisManyOK(iface[d])'
      BY <1>5, <1>6, <2>1, <3>1, <3>2, <3>3 DEF RedisManyOK
    <3>5. McManyOK(iface[d])'
      BY <1>5, <1>6, <2>1 DEF McManyOK
    <3>6. WooManyOK(iface[d])'
      BY <1>5, <1>6, <2>1, <3>2, <3>3 DEF WooManyOK
    <3>7. SmgetOK(iface[d])'
      BY <1>5, <1>6, <2>1, <3>1, <3>2, <3>3 DEF SmgetOK
    <3> QED BY <3>4, <3>5, <3>6, <3>7
  <2>4. call'[d].op = op /\ Ops(d)' = Ops(d)
    BY <1>3, <1>4 DEF Ops
  <2> QED BY <1>1, <1>6, <2>2, <2>3, <2>4 DEF ManyOK
<1> QED BY <1>1, <1>7, <1>9, <1>10 DEF IInv, AnswersOK

LEMMA ReleaseOK ==
  ASSUME IInv, Release
  PROVE  IInv'
<1>1. /\ phase = "idle" /\ phase' = "released" /\ TypesOK
      /\ UNCHANGED <<round, asked, call, iface, many, odd>>
  BY DEF Release, IInv
<1>2. ASSUME NEW d \in Db, NEW k \in Kind
      PROVE  /\ heap'[d][k] = heap[d][k] - Keeps(d, k) /\ Owns(d, k) = Keeps(d, k)
             /\ Owns(d, k)' = 0 /\ Keeps(d, k) \in Int /\ heap[d][k] \in Int
  <2>1. Quiet(d) /\ Quiet(d)'
    BY <1>1, Resting DEF Quiet
  <2>2. Owns(d, k) = Keeps(d, k) /\ Owns(d, k)' = 0
    BY <1>1, <2>1, OwnsQuiet DEF Keeps
  <2>3. heap'[d][k] = heap[d][k] - IF k \in DOMAIN Kept(d) THEN Kept(d)[k] ELSE 0
    BY DEF Release
  <2>4. (IF k \in DOMAIN Kept(d) THEN Kept(d)[k] ELSE 0) = Keeps(d, k)
    <3>1. DOMAIN Kept(d) = {"memc", "curl"}
      BY DEF Kept
    <3>2. CASE k = "memc"
      BY <1>1, <3>1, <3>2 DEF Kept, Keeps
    <3>3. CASE k = "curl"
      BY <1>1, <3>1, <3>3 DEF Kept, Keeps
    <3>4. CASE k # "memc" /\ k # "curl"
      BY <3>1, <3>4 DEF Keeps
    <3> QED BY <3>2, <3>3, <3>4
  <2> QED BY <1>1, <2>2, <2>3, <2>4 DEF Keeps, TypesOK, HeapTypes
<1>3. heap' \in HeapTypes
  <2>1. \A d \in Db, k \in Kind : heap'[d][k] \in Int
    BY <1>2
  <2>2. heap' = [d \in Db |-> [k \in Kind |-> heap'[d][k]]]
    BY DEF Release
  <2> QED BY <2>1, <2>2 DEF HeapTypes
<1>4. TypesOK'
  BY <1>1, <1>3 DEF TypesOK
<1>5. \A d \in Db : CallOK(d)'
  BY <1>1, Resting DEF CallOK, Active
<1>6. ASSUME NEW d \in Db PROVE HeapOK(d)'
  <2>1. HeapOK(d)
    BY DEF IInv
  <2> QED BY <1>1, <1>2, <2>1 DEF HeapOK
<1> QED BY <1>1, <1>4, <1>5, <1>6 DEF IInv, AnswersOK, ManyOK

LEMMA RenewOK ==
  ASSUME IInv, Renew
  PROVE  IInv'
<1>1. /\ phase \in {"released", "crashed"} /\ phase' = "idle" /\ round' = 0 /\ odd' = {} /\ TypesOK
      /\ UNCHANGED <<asked, call, many>>
      /\ \A d \in Db : iface'[d] = Fresh /\ heap'[d] = Free
  BY DEF Renew, IInv
<1>2. iface' \in IfaceTypes /\ heap' \in HeapTypes
  <2>1. Nothing \in Nat \X Nat \X Form
    BY DEF Nothing, Form
  <2>2. Fresh \in [index : Nat, buffer : [Buffer -> Nat \X Nat \X Form], handle : BOOLEAN]
    BY <2>1 DEF Fresh
  <2>3. Free \in [Kind -> Int]
    BY DEF Free
  <2> QED BY <2>2, <2>3 DEF Renew, IfaceTypes, HeapTypes
<1>3. TypesOK'
  BY <1>1, <1>2 DEF TypesOK
<1>4. \A d \in Db : CallOK(d)'
  BY <1>1, Resting DEF CallOK, Active
<1>5. ASSUME NEW d \in Db PROVE HeapOK(d)'
  <2>1. Quiet(d)'
    BY <1>1, Resting DEF Quiet
  <2>2. \A k \in Kind : Owns(d, k)' = 0 /\ heap'[d][k] = 0
    BY <1>1, <2>1, OwnsQuiet DEF Keeps, Fresh, Free
  <2> QED BY <2>2 DEF HeapOK
<1> QED BY <1>1, <1>3, <1>4, <1>5 DEF IInv, AnswersOK, ManyOK

\* The process dies: nothing is under way and nothing is held.
LEMMA CrashOK ==
  ASSUME IInv, NEW d \in Db, ApiCrash(d)
  PROVE  IInv'
<1>1. /\ phase' = "crashed" /\ round' = 0 /\ odd' = {} /\ many' = NoMany /\ TypesOK
      /\ call' = [e \in Db |-> NoCall] /\ iface' = [e \in Db |-> Fresh]
      /\ heap' = [e \in Db |-> Free]
  BY DEF ApiCrash, IInv
<1>2. iface' \in IfaceTypes /\ heap' \in HeapTypes
  <2>1. Nothing \in Nat \X Nat \X Form
    BY DEF Nothing, Form
  <2>2. Fresh \in [index : Nat, buffer : [Buffer -> Nat \X Nat \X Form], handle : BOOLEAN]
    BY <2>1 DEF Fresh
  <2>3. Free \in [Kind -> Int]
    BY DEF Free
  <2> QED BY <1>1, <2>2, <2>3 DEF IfaceTypes, HeapTypes
<1>3. call' \in CallTypes /\ \A e \in Db : call'[e] = NoCall /\ Quiet(e)'
  BY <1>1, NoCalls
<1>4. TypesOK'
  BY <1>1, <1>2, <1>3 DEF TypesOK
<1>5. \A e \in Db : CallOK(e)'
  BY <1>1, <1>3 DEF CallOK, Active
<1>6. ASSUME NEW e \in Db PROVE HeapOK(e)'
  <2>1. \A k \in Kind : Owns(e, k)' = 0 /\ heap'[e][k] = 0
    BY <1>1, <1>3, OwnsQuiet DEF Keeps, Fresh, Free
  <2> QED BY <2>1 DEF HeapOK
<1> QED BY <1>1, <1>4, <1>5, <1>6 DEF IInv, AnswersOK, ManyOK

LEMMA StutterOK ==
  ASSUME IInv, UNCHANGED vars
  PROVE  IInv'
<1>1. UNCHANGED <<round, phase, asked, call, iface, many, heap, odd>>
  BY DEF vars
<1>2. TypesOK'
  BY <1>1 DEF IInv, TypesOK
<1>3. AnswersOK'
  <2>1. \A d \in Threads : AnswerOK(d) => AnswerOK(d)'
    BY <1>1 DEF AnswerOK
  <2>2. Threads' = Threads
    BY <1>1 DEF Threads
  <2> QED BY <1>1, <2>1, <2>2 DEF IInv, AnswersOK
<1>4. ManyOK'
  <2>1. \A d \in Db :
          /\ RedisManyOK(iface[d]) => RedisManyOK(iface[d])'
          /\ McManyOK(iface[d]) => McManyOK(iface[d])'
          /\ WooManyOK(iface[d]) => WooManyOK(iface[d])'
          /\ SmgetOK(iface[d]) => SmgetOK(iface[d])'
    BY <1>1 DEF RedisManyOK, McManyOK, WooManyOK, SmgetOK, OwnBuffers, Begins
  <2>2. ManyOK
    BY DEF IInv
  <2> QED BY <1>1, <2>1, <2>2 DEF ManyOK, Ops
<1>5. ASSUME NEW d \in Db PROVE CallOK(d)' /\ HeapOK(d)'
  <2>1. CallOK(d) /\ HeapOK(d)
    BY DEF IInv
  <2>2. (Active(d)' <=> Active(d)) /\ Places(d)' = Places(d)
    BY <1>1 DEF Active, Places
  <2>3. \A k \in Kind : Owns(d, k)' = Owns(d, k)
    BY <1>1 DEF Owns
  <2>4. CallOK(d)'
    BY <1>1, <2>1, <2>2 DEF CallOK
  <2>5. HeapOK(d)'
    BY <1>1, <2>1, <2>3, HeapKept
  <2> QED BY <2>4, <2>5
<1> QED BY <1>2, <1>3, <1>4, <1>5 DEF IInv

-----------------------------------------------------------------------------
(* Theorems. *)

\* The invariant of QueryInv holds of every behaviour: the calls that are
\* under way, what they hold, and what the buffers and pointers have been given.
\* (db_company.h:200-342, the get and mget of each *_db_interface.h)
THEOREM Inductive == Spec => []IInv
<1>1. Init => IInv
  BY InvInit
<1>2. IInv /\ [Next]_vars => IInv'
  <2> SUFFICES ASSUME IInv, [Next]_vars PROVE IInv'
    OBVIOUS
  <2>1. ASSUME NEW d \in Db, Thread(d) PROVE IInv'
    <3>1. Leads(d) /\ phase \in {"joining", "many"}
      BY <2>1, ThreadOK
    <3> QED BY <3>1, StepOK
  <2>2. ASSUME NEW d \in Db, Backend(d) PROVE IInv'
    <3>1. UNCHANGED <<round, phase, asked>>
      BY <2>2 DEF Backend
    <3>2. Leads(d)
      BY <2>2, <3>1, RedisOK, McOK, ApiOK, WooOK DEF Backend, RedisStep, McStep, ApiStep, WooStep
    <3>3. call[d].pc \in {"begin", "select", "ask", "reply", "wait"}
      BY <2>2 DEF Backend, RedisStep, McStep, ApiStep, WooStep, RedisConnect, RedisSelect, RedisGet,
         RedisReply, RedisSet, RedisMgetKeys, Element, RedisMgetEnd, McConnect, McGet, McDead, McFetch,
         McFetchEnd, ApiNoIp, ApiPrepare, ApiPerform, WooClient, WooTalk, WooMgetKey, WooMgetEnd,
         WooSend, WooSent, WooReceive, WooWaited, At
    <3>4. phase \in {"joining", "many"}
      BY <3>3, BusyIs DEF Busy
    <3> QED BY <3>2, <3>4, StepOK
  <2>3. CASE Next
    <3>1. CASE \E d \in Db \cup {Unknown}, by \in By : Push(d, by)
      BY <3>1, PushOK
    <3>2. CASE \E d \in Db : Step(d)
      BY <2>1, <2>2, <3>2, CrashOK DEF Step
    <3>3. CASE \E d \in Db, keys \in 0 .. MaxKeys, null \in {{}, {1}, {2}} :
                 \E op \in Ops(d) : CallMany(d, op, keys, null)
      BY <3>3, CallManyOK
    <3> QED BY <2>3, <3>1, <3>2, <3>3, GetMultiDbOK, JoinOK, ReleaseMapOK, ReturnManyOK, ReleaseOK,
               RenewOK DEF Next
  <2> QED BY <2>3, StutterOK
<1> QED BY <1>1, <1>2, PTL DEF Spec

\* Every answer that get_multi_db gives is that of this very call, for every
\* number of databases of each backend and in every order of their threads.
\* (db_company.h:241-274, hiredis_db_interface.h:289-307)
THEOREM OwnAnswersHold == Spec => []OwnAnswers
<1>1. IInv => OwnAnswers
  <2> SUFFICES ASSUME IInv, phase = "joined", NEW d \in Threads
               PROVE  LET p == call[d].result
                      IN  /\ call[d].served => p \in Buffer /\ iface[d].buffer[p] = <<round, 0, "text">>
                          /\ ~call[d].served /\ d \notin Woo => p = Null
                          /\ d \in Redis \cap Plain => (call[d].ret > 0 <=> call[d].served)
    BY DEF OwnAnswers
  <2>1. d \in Db /\ Active(d) /\ CallOK(d) /\ AnswerOK(d)
    BY DEF IInv, AnswersOK, Threads, Active
  <2>2. call[d].pc = "returned"
    BY <2>1 DEF CallOK
  <2> QED BY <2>1, <2>2 DEF AnswerOK
<1> QED BY <1>1, Inductive, PTL

\* No two keys of a call share a buffer, and each that was answered has its own
\* value, for every number of keys and of buffers, however far a value of
\* memcached runs over: there the own value is what the buffer begins with.
\* (mc_db_interface.h:224-236, woo_db_interface.h:151-174, 182-301,
\* hiredis_db_interface.h:779-828)
THEOREM ManyOwnHolds == Spec => []ManyOwn
<1>1. IInv => ManyOwn
  <2> SUFFICES ASSUME IInv, phase = "many"
               PROVE  LET map == many.map
                          holds(k) == iface[many.db].buffer[map[k]]
                      IN  /\ \A j, k \in DOMAIN map : j # k => map[j] # map[k]
                          /\ IF many.db \in Mc
                             THEN /\ \A n \in DOMAIN map :
                                       holds(n)[1] = round /\ holds(n)[3] # "rest"
                                  /\ {holds(n)[2] : n \in DOMAIN map} = many.got
                             ELSE /\ \A k \in many.got :
                                       k \in DOMAIN map /\ holds(k) = <<round, k, "text">>
                                  /\ call[many.db].op # "mget" => DOMAIN map = many.got
    BY DEF ManyOwn
  <2> DEFINE d == many.db
             op == call[d].op
             map == many.map
             holds(k) == iface[d].buffer[map[k]]
  <2>1. d \in Db /\ op \in Ops(d) /\ ManyOK
    BY DEF IInv, ManyOK
  <2>2. CASE op = "set"
    <3>1. map = <<>> /\ many.got = {} /\ DOMAIN map = {}
      BY <2>1, <2>2 DEF ManyOK
    <3>2. d \notin Mc
      BY <2>1, <2>2, OneBackend DEF Ops
    <3> QED BY <3>1, <3>2
  <2>3. CASE op = "s_mget"
    BY <2>1, <2>3, OneBackend DEF ManyOK, Ops, RedisManyOK, Pointers, OwnBuffers
  <2>4. CASE op = "mget" /\ d \in Mc
    <3>1. McManyOK(iface[d])
      BY <2>1, <2>4 DEF ManyOK
    <3>2. \A j, k \in DOMAIN map : j # k => map[j] # map[k]
      <4>1. DOMAIN map = 1 .. iface[d].index /\ \A x \in 1 .. iface[d].index : map[x] = x - 1
        BY <3>1 DEF McManyOK
      <4>2. iface[d].index \in Nat
        BY <2>1 DEF IInv, TypesOK, IfaceTypes
      <4> HIDE DEF d, map
      <4> QED BY <4>1, <4>2
    <3>3. \A x \in DOMAIN map : \E k \in many.got : Begins(holds(x), k)
      <4>1. \A x \in DOMAIN map : holds(x) = iface[d].buffer[x - 1]
        BY <3>1 DEF McManyOK
      <4>2. \A x \in DOMAIN map : \E k \in many.got : Begins(iface[d].buffer[x - 1], k)
        BY <3>1 DEF McManyOK
      <4> QED BY <4>1, <4>2
    <3>4. \A k \in many.got : \E x \in DOMAIN map : Begins(holds(x), k)
      BY <3>1, SMTT(20) DEF McManyOK
    <3> HIDE DEF holds, map, d
    <3>5. ASSUME NEW content, NEW k, Begins(content, k)
          PROVE  content[1] = round /\ content[2] = k /\ content[3] # "rest"
      BY <3>5 DEF Begins
    <3>6. \A n \in DOMAIN map : holds(n)[1] = round /\ holds(n)[3] # "rest"
      BY <3>3, <3>5
    <3>7. {holds(n)[2] : n \in DOMAIN map} = many.got
      BY <3>3, <3>4, <3>5
    <3> USE DEF holds, map, d
    <3> QED BY <2>4, <3>2, <3>6, <3>7
  <2>5. CASE op = "mget" /\ d \notin Mc
    <3>1. WooManyOK(iface[d])
      BY <2>1, <2>5 DEF ManyOK
    <3>2. \A j, k \in DOMAIN map : j # k => map[j] # map[k]
      BY <3>1 DEF WooManyOK
    <3> QED BY <2>5, <3>1, <3>2 DEF WooManyOK, OwnBuffers
  <2>6. CASE op = "smget"
    BY <2>1, <2>6, OneBackend DEF ManyOK, Ops, SmgetOK, Pointers, OwnBuffers
  <2> QED BY <2>1, <2>2, <2>3, <2>4, <2>5, <2>6, OneBackend DEF Ops
<1> QED BY <1>1, Inductive, PTL

\* No call frees twice and none forgets what it made, but for the four named
\* faults. (hiredis_db_interface.h:289-446, mc_db_interface.h:90-275,
\* api_db_interface.h:96-190, woo_db_interface.h:46-254)
THEOREM NothingLeftHolds == Spec => []NothingLeft
<1>1. IInv => NothingLeft
  <2> SUFFICES ASSUME IInv, NEW d \in Db, NEW k \in Kind
               PROVE  LET kept == IF k \in DOMAIN Kept(d) THEN Kept(d)[k] ELSE 0
                      IN  /\ heap[d][k] >= 0
                          /\ call[d].pc \in {"idle", "returned"} /\ <<d, k>> \notin odd =>
                               heap[d][k] = IF phase = "released" THEN 0 ELSE kept
    BY DEF NothingLeft
  <2>1. TypesOK /\ CallOK(d) /\ HeapOK(d) /\ ManyOK /\ heap[d][k] \in Int
    BY DEF IInv, TypesOK, HeapTypes
  <2>2. Owns(d, k) \in Nat
    <3>1. CASE call[d].op = "smget" /\ call[d].pc \in {"begin", "wait"}
      <4>1. Len(many.sent) \in Nat
        BY <3>1, BusyIs, WhichOps DEF GetOps, Busy, ManyOK, SmgetOK
      <4>2. CASE d \in Redis
        BY <4>2, RedisOwns DEF Connected, Replied
      <4>3. CASE d \in Woo
        BY <3>1, <4>1, <4>3, WooOwns DEF Clients
      <4>4. CASE d \notin Redis /\ d \notin Woo
        BY <4>4 DEF Owns
      <4> QED BY <4>2, <4>3, <4>4
    <3>2. CASE ~(call[d].op = "smget" /\ call[d].pc \in {"begin", "wait"})
      BY <3>2 DEF Owns
    <3> QED BY <3>1, <3>2
  <2>3. ASSUME call[d].pc \in {"idle", "returned"}, <<d, k>> \notin odd
        PROVE  heap[d][k] = IF phase = "released" THEN 0
                            ELSE IF k \in DOMAIN Kept(d) THEN Kept(d)[k] ELSE 0
    <3>1. Quiet(d)
      BY <2>3 DEF Quiet
    <3>2. heap[d][k] = Keeps(d, k)
      BY <2>1, <2>3, <3>1, OwnsQuiet DEF HeapOK
    <3>3. DOMAIN Kept(d) = {"memc", "curl"}
      BY DEF Kept
    <3>4. CASE phase = "released"
      BY <3>2, <3>4 DEF Keeps
    <3>5. CASE phase # "released"
      <4>1. CASE k = "memc"
        BY <3>2, <3>3, <3>5, <4>1 DEF Kept, Keeps
      <4>2. CASE k = "curl"
        BY <3>2, <3>3, <3>5, <4>2 DEF Kept, Keeps
      <4>3. CASE k # "memc" /\ k # "curl"
        BY <3>2, <3>3, <3>5, <4>3 DEF Keeps
      <4> QED BY <4>1, <4>2, <4>3
    <3> QED BY <3>4, <3>5
  <2>4. heap[d][k] >= 0
    <3>1. PICK own \in Nat : own = Owns(d, k)
      BY <2>2
    <3>2. heap[d][k] >= own
      BY <2>1, <3>1 DEF HeapOK
    <3> QED BY <2>1, <3>2
  <2> QED BY <2>3, <2>4
<1> QED BY <1>1, Inductive, PTL
=============================================================================
