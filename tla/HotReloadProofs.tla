--------------------------- MODULE HotReloadProofs ---------------------------
(* Proofs about HotReload, for any number of threads, databases, commands. *)
EXTENDS HotReloadRefinement, TLAPS

\* What TypeOK needs to be inductive: where the loops and the spare pointers are.
Typed == TypeOK /\ ControlOK

LEMMA TypedInit == Init => Typed
<1> USE HotReloadAssumption DEF Thread, Version, VersionOrNil, Nil
<1> SUFFICES ASSUME Init PROVE Typed
  OBVIOUS
<1>1. PICK S \in SUBSET DbNames :
        /\ ifaceOf = [v \in Version |-> LoadedMap(IF v = 0 THEN S ELSE {}, v)]
        /\ ifaces = S \X {0}
  BY DEF Init
<1>2. HeapTypes
  BY <1>1 DEF Init, HeapTypes
<1>3. FieldTypes
  BY <1>1 DEF Init, FieldTypes, LoadedMap
<1>4. SpareTypes /\ ControlTypes /\ RequestTypes
  BY DEF Init, SpareTypes, ControlTypes, RequestTypes, NoSpare
<1>5. ControlOK
  BY DEF Init, ControlOK, Working, NoSpare
<1> QED BY <1>2, <1>3, <1>4, <1>5 DEF Typed, TypeOK

LEMMA QueryTyped ==
  ASSUME Typed, NEW t \in Thread, Query(t)
  PROVE  Typed'
<1>1. UNCHANGED <<heap, fields, control>>
  BY DEF Query, BeginRequest, ReadDb, ReadGlobal, ReadIface, EndRequest
<1>2. HeapTypes' /\ FieldTypes' /\ SpareTypes' /\ ControlTypes' /\ ControlOK'
  BY <1>1 DEF Typed, TypeOK, HeapTypes, FieldTypes, SpareTypes, ControlTypes, ControlOK,
     Working, heap, fields, control, spares
<1>3. RequestTypes'
  <2> USE DEF Typed, TypeOK, FieldTypes, RequestTypes
  <2>1. CASE BeginRequest(t)
    BY <2>1, HotReloadAssumption DEF BeginRequest
  <2>2. CASE ReadDb(t)
    BY <2>2 DEF ReadDb
  <2>3. CASE ReadGlobal(t)
    BY <2>3 DEF ReadGlobal
  <2>4. CASE ReadIface(t)
    BY <2>4 DEF ReadIface, VersionOrNil
  <2>5. CASE EndRequest(t)
    BY <2>5, HotReloadAssumption DEF EndRequest
  <2> QED BY <2>1, <2>2, <2>3, <2>4, <2>5 DEF Query
<1> QED BY <1>2, <1>3 DEF Typed, TypeOK

LEMMA StartTyped ==
  ASSUME Typed, StartGlobal \/ StartPerThread
  PROVE  Typed'
<1> USE HotReloadAssumption DEF Typed, TypeOK
<1>1. CASE StartGlobal
  <2> USE <1>1 DEF StartGlobal
  <2>1. ver + 1 \in Version
    BY DEF Version, ControlTypes
  <2>2. HeapTypes'
    BY <2>1 DEF HeapTypes
  <2>3. FieldTypes'
    BY <2>1 DEF FieldTypes, LoadedMap, VersionOrNil
  <2>4. SpareTypes'
    BY <2>1 DEF SpareTypes, VersionOrNil
  <2>5. ControlTypes'
    BY <2>1 DEF ControlTypes
  <2>6. RequestTypes'
    BY DEF RequestTypes, requests, held
  <2>7. ControlOK'
    BY <2>1 DEF ControlOK, Working, Version, Nil, SpareTypes
  <2> QED BY <2>2, <2>3, <2>4, <2>5, <2>6, <2>7
<1>2. CASE StartPerThread
  <2> USE <1>2 DEF StartPerThread
  <2>1. HeapTypes' /\ FieldTypes'
    BY DEF HeapTypes, FieldTypes, heap, fields
  <2>2. SpareTypes'
    BY DEF SpareTypes, NoSpare, VersionOrNil
  <2>3. ControlTypes'
    BY DEF ControlTypes, Version
  <2>4. RequestTypes'
    BY DEF RequestTypes, requests, held
  <2>5. ControlOK'
    BY DEF ControlOK, Working, NoSpare
  <2> QED BY <2>1, <2>2, <2>3, <2>4, <2>5
<1> QED BY <1>1, <1>2

LEMMA SingleTyped ==
  ASSUME Typed, NEW d \in DbNames,
         SwapSingle(d) \/ InsertSingle(d) \/ FailSingle(d) \/ CrashSingle(d)
  PROVE  Typed'
<1> USE HotReloadAssumption DEF Typed, TypeOK
<1>1. RequestTypes'
  BY DEF RequestTypes, requests, held, SwapSingle, InsertSingle, FailSingle, CrashSingle
<1>2. CASE SwapSingle(d)
  <2> USE <1>2 DEF SwapSingle
  <2>1. ver + 1 \in Version
    BY DEF Version, ControlTypes
  <2>2. HeapTypes'
    BY <2>1 DEF HeapTypes
  <2>3. FieldTypes'
    BY <2>1 DEF FieldTypes, VersionOrNil
  <2>4. SpareTypes'
    BY DEF SpareTypes, FieldTypes, VersionOrNil
  <2>5. ControlTypes'
    BY <2>1 DEF ControlTypes
  <2>6. ControlOK'
    BY DEF ControlOK, Working
  <2> QED BY <1>1, <2>2, <2>3, <2>4, <2>5, <2>6
<1>3. CASE InsertSingle(d)
  <2> USE <1>3 DEF InsertSingle, Answer
  <2>1. ver + 1 \in Version
    BY DEF Version, ControlTypes
  <2>2. HeapTypes'
    BY <2>1 DEF HeapTypes
  <2>3. FieldTypes'
    BY <2>1 DEF FieldTypes, VersionOrNil
  <2>4. SpareTypes'
    BY DEF SpareTypes, spares
  <2>5. ControlTypes'
    BY <2>1 DEF ControlTypes
  <2>6. ControlOK'
    BY DEF ControlOK, Working, spares
  <2> QED BY <1>1, <2>2, <2>3, <2>4, <2>5, <2>6
<1>4. CASE FailSingle(d) \/ CrashSingle(d)
  <2> USE <1>4 DEF FailSingle, CrashSingle, Answer
  <2>1. HeapTypes' /\ FieldTypes' /\ SpareTypes'
    BY DEF HeapTypes, FieldTypes, SpareTypes, heap, fields, spares
  <2>2. ControlTypes'
    BY DEF ControlTypes
  <2>3. ControlOK'
    BY DEF ControlOK, Working, spares
  <2> QED BY <1>1, <2>1, <2>2, <2>3
<1> QED BY <1>2, <1>3, <1>4

LEMMA InstallTyped ==
  ASSUME Typed, InstallGlobal \/ InstallDb \/ InstallWork
  PROVE  Typed'
<1> USE HotReloadAssumption DEF Typed, TypeOK
<1>1. RequestTypes'
  BY DEF RequestTypes, requests, held, InstallGlobal, InstallDb, InstallWork
<1>2. i \in Thread /\ i + 1 \in 0 .. NumThreads
  BY DEF InstallGlobal, InstallDb, InstallWork, Thread, ControlTypes, ControlOK
<1>3. CASE InstallGlobal
  <2> USE <1>3 DEF InstallGlobal
  <2>1. HeapTypes' /\ SpareTypes'
    BY DEF HeapTypes, SpareTypes, heap, spares
  <2>2. spareGlobal \in Version
    BY DEF SpareTypes, ControlOK, Working, VersionOrNil
  <2>3. FieldTypes'
    BY <1>2, <2>2 DEF FieldTypes
  <2>4. ControlTypes'
    BY <1>2 DEF ControlTypes
  <2>5. ControlOK'
    BY <1>2 DEF ControlOK, Working, spares
  <2> QED BY <1>1, <2>1, <2>3, <2>4, <2>5
<1>4. CASE InstallDb
  <2> USE <1>4 DEF InstallDb
  <2>1. HeapTypes'
    BY <1>2 DEF HeapTypes, ControlTypes
  <2>2. FieldTypes'
    BY <1>2 DEF FieldTypes, ControlTypes
  <2>3. SpareTypes'
    BY <1>2 DEF FieldTypes, SpareTypes, VersionOrNil
  <2>4. ControlTypes'
    BY DEF ControlTypes
  <2>5. ControlOK'
    BY <1>2 DEF ControlOK, Working, SpareTypes, Thread
  <2> QED BY <1>1, <2>1, <2>2, <2>3, <2>4, <2>5
<1>5. CASE InstallWork
  <2> USE <1>5 DEF InstallWork
  <2>1. HeapTypes'
    BY <1>2 DEF HeapTypes, ControlTypes
  <2>2. FieldTypes'
    BY <1>2 DEF FieldTypes, ControlTypes
  <2>3. SpareTypes'
    BY <1>2 DEF FieldTypes, SpareTypes, VersionOrNil
  <2>4. ControlTypes'
    BY <1>2 DEF ControlTypes
  <2>5. ControlOK'
    BY <1>2 DEF ControlOK, Working, SpareTypes, Thread, ControlTypes
  <2> QED BY <1>1, <2>1, <2>2, <2>3, <2>4, <2>5
<1> QED BY <1>3, <1>4, <1>5

LEMMA SleepTyped ==
  ASSUME Typed, SwapGlobal \/ SleepPerThread \/ Wake
  PROVE  Typed'
<1> USE HotReloadAssumption DEF Typed, TypeOK
<1>1. HeapTypes' /\ RequestTypes'
  BY DEF HeapTypes, heap, RequestTypes, requests, held, SwapGlobal, SleepPerThread, Wake
<1>2. FieldTypes' /\ SpareTypes'
  BY DEF FieldTypes, SpareTypes, fields, spares, SwapGlobal, SleepPerThread, Wake,
     ControlOK, Working, VersionOrNil
<1>3. ControlTypes'
  BY DEF ControlTypes, SwapGlobal, SleepPerThread, Wake
<1>4. ControlOK'
  <2>1. CASE SwapGlobal
    BY <2>1 DEF ControlOK, Working, FieldTypes, Version, Nil, SwapGlobal
  <2>2. CASE SleepPerThread
    BY <2>2 DEF ControlOK, Working, spares, SleepPerThread, Thread
  <2>3. CASE Wake
    BY <2>3 DEF ControlOK, Working, spares, Wake, Thread
  <2> QED BY <2>1, <2>2, <2>3
<1> QED BY <1>1, <1>2, <1>3, <1>4

LEMMA FreeTyped ==
  ASSUME Typed, FreeGlobal \/ FreeSingle \/ FreePerThread \/ AnswerPerThread
  PROVE  Typed'
<1> USE HotReloadAssumption DEF Typed, TypeOK, Answer
<1>1. HeapTypes'
  BY DEF HeapTypes, heap, FreeGlobal, FreeSingle, FreePerThread, AnswerPerThread
<1>5. FieldTypes' /\ RequestTypes'
  BY DEF FieldTypes, fields, RequestTypes, requests, held,
     FreeGlobal, FreeSingle, FreePerThread, AnswerPerThread
<1>2. SpareTypes'
  BY DEF SpareTypes, spares, VersionOrNil, FreeGlobal, FreeSingle, FreePerThread,
     AnswerPerThread
<1>3. ControlTypes'
  BY DEF ControlTypes, FreeGlobal, FreeSingle, FreePerThread, AnswerPerThread
<1>4. ControlOK'
  <2>1. CASE FreeGlobal \/ FreeSingle
    BY <2>1 DEF ControlOK, Working, FreeGlobal, FreeSingle
  <2>2. CASE FreePerThread
    BY <2>2 DEF ControlOK, Working, FreePerThread, SpareTypes, ControlTypes, Thread
  <2>3. CASE AnswerPerThread
    BY <2>3 DEF ControlOK, Working, AnswerPerThread, spares, Thread
  <2> QED BY <2>1, <2>2, <2>3
<1> QED BY <1>1, <1>2, <1>3, <1>4, <1>5

LEMMA TickTyped ==
  ASSUME Typed, Tick
  PROVE  Typed'
<1> USE HotReloadAssumption DEF Typed, TypeOK, Tick
<1>1. HeapTypes' /\ FieldTypes' /\ SpareTypes' /\ ControlOK'
  BY DEF HeapTypes, heap, FieldTypes, fields, SpareTypes, spares, ControlOK, Working
<1>2. ControlTypes'
  BY DEF ControlTypes
<1>3. RequestTypes'
  BY DEF RequestTypes, held
<1> QED BY <1>1, <1>2, <1>3

LEMMA TypedStep == Typed /\ [Next]_vars => Typed'
<1> SUFFICES ASSUME Typed, [Next]_vars PROVE Typed'
  OBVIOUS
<1>1. CASE Dead \/ UNCHANGED vars
  BY <1>1 DEF Dead, vars, heap, fields, control, spares, requests, held, Typed, TypeOK,
     HeapTypes, FieldTypes, SpareTypes, ControlTypes, RequestTypes, ControlOK, Working
<1> QED
  BY <1>1, QueryTyped, StartTyped, SingleTyped, InstallTyped, SleepTyped, FreeTyped,
     TickTyped DEF Next, Progress

\* Every variable of the server keeps its type, with any number of threads,
\* databases and commands, and every loop counter stays in its array.
THEOREM TypeCorrect == Spec => []TypeOK
<1>1. Typed => TypeOK
  BY DEF Typed
<1> QED BY TypedInit, TypedStep, <1>1, PTL DEF Spec

-----------------------------------------------------------------------------
(* The inductive invariant. *)

LEMMA InvTyped == IInv => Typed
BY DEF IInv, Typed

LEMMA InvInit == Init => IInv
<1> SUFFICES ASSUME Init PROVE IInv
  OBVIOUS
<1>1. PICK S \in SUBSET DbNames :
        /\ ifaceOf = [v \in Version |-> LoadedMap(IF v = 0 THEN S ELSE {}, v)]
        /\ ifaces = S \X {0}
  BY DEF Init
<1>2. 0 \in Version
  BY HotReloadAssumption DEF Version
<1>3. NumbersOK
  BY <1>1 DEF Init, NumbersOK
<1>4. GlobalHeapOK /\ ThreadHeapOK /\ BindingOK
  BY <1>2 DEF Init, GlobalHeapOK, ThreadHeapOK, BindingOK, NoSpare, Version, Nil
<1>5. IfaceHeapOK
  BY <1>1, <1>2 DEF Init, IfaceHeapOK, LoadedMap, Version, Nil
<1>6. IdleHoldsNothing /\ NoUseAfterFree /\ GraceOK
  BY DEF Init, IdleHoldsNothing, NoUseAfterFree, GraceOK, HoldsRetired
<1> QED
  BY <1>3, <1>4, <1>5, <1>6, TypedInit DEF IInv, HeapOK, Typed

\* A retired object is only ever in the hands of a request in progress.
LEMMA HoldsRetiredBusy ==
  ASSUME IdleHoldsNothing, NEW t \in Thread, HoldsRetired(t)
  PROVE  Busy(t)
BY DEF IdleHoldsNothing, HoldsRetired, Busy

LEMMA QueryInv ==
  ASSUME IInv, NEW t \in Thread, Query(t)
  PROVE  IInv'
<1> USE DEF IInv, HeapOK
<1>1. UNCHANGED <<heap, fields, control>>
  BY DEF Query, BeginRequest, ReadDb, ReadGlobal, ReadIface, EndRequest
<1>2. (TypeOK /\ ControlOK)'
  BY QueryTyped, InvTyped DEF Typed
<1>3. (NumbersOK /\ GlobalHeapOK /\ IfaceHeapOK /\ ThreadHeapOK /\ BindingOK)'
  BY <1>1 DEF NumbersOK, GlobalHeapOK, IfaceHeapOK, ThreadHeapOK, BindingOK, heap, fields,
     control, spares
<1>4. TypeOK /\ HeapTypes /\ FieldTypes /\ SpareTypes /\ RequestTypes
  BY DEF TypeOK
<1>5. \A u \in Thread :
        /\ <<u, dbSlot[u]>> \in dbs /\ dbSlot[u] # spareDb[u]
        /\ <<u, workSlot[u]>> \in works /\ workSlot[u] # spareWork[u]
  BY <1>4 DEF ThreadHeapOK, FieldTypes
<1>6. CASE BeginRequest(t)
  <2> USE <1>6 DEF BeginRequest
  <2>1. IdleHoldsNothing'
    BY <1>4 DEF IdleHoldsNothing, Busy, RequestTypes
  <2>2. NoUseAfterFree'
    BY <1>1, <1>4, <1>5 DEF NoUseAfterFree, RequestTypes, heap
  <2>3. GraceOK'
    <3> SUFFICES ASSUME NEW u \in Thread, HoldsRetired(u)'
                 PROVE  (pc # "free" /\ (pc = "sleep" => slept <= elapsed[u]))'
      BY DEF GraceOK
    <3>1. u # t
      BY <1>1, <1>4, <1>5 DEF HoldsRetired, control, spares, fields, RequestTypes,
         IdleHoldsNothing
    <3>2. HoldsRetired(u)
      BY <1>1, <1>4, <3>1 DEF HoldsRetired, OwnedIfaces, control, spares, fields, RequestTypes
    <3> QED BY <1>1, <1>4, <3>1, <3>2 DEF GraceOK, control, RequestTypes
  <2> QED BY <1>2, <1>3, <2>1, <2>2, <2>3
<1>7. CASE ReadDb(t)
  <2> USE <1>7 DEF ReadDb
  <2>1. IdleHoldsNothing'
    BY <1>4 DEF IdleHoldsNothing, Busy, RequestTypes
  <2>2. NoUseAfterFree'
    BY <1>1, <1>4, <1>5 DEF NoUseAfterFree, RequestTypes, heap
  <2>3. \A u \in Thread : HoldsRetired(u)' => HoldsRetired(u)
    <3>1. UNCHANGED <<spares, ifaceOf>>
      BY <1>1 DEF control, fields
    <3>2. \A u \in Thread : spareDb[u] \in heldDb'[u] => spareDb[u] \in heldDb[u]
      BY <1>4, <1>5 DEF RequestTypes
    <3> QED BY <3>1, <3>2 DEF HoldsRetired, OwnedIfaces, spares
  <2>4. GraceOK'
    BY <1>1, <2>3 DEF GraceOK, control
  <2> QED BY <1>2, <1>3, <2>1, <2>2, <2>4
<1>8. CASE ReadGlobal(t)
  <2>1. PICK v \in heldDb[t] :
          heldGlobal' = [heldGlobal EXCEPT ![t] = @ \cup {globalOf[t][v]}]
    BY <1>8 DEF ReadGlobal
  <2>2. UNCHANGED <<elapsed, heldWork, heldDb, heldIface>>
    BY <1>8 DEF ReadGlobal
  <2>3. v \in Version /\ <<t, v>> \in dbs
    BY <1>4 DEF RequestTypes, NoUseAfterFree
  <2>4. globalOf[t][v] \in globals /\ (pc # "install" => globalOf[t][v] # spareGlobal)
    BY <1>4, <2>3 DEF BindingOK, FieldTypes, GlobalHeapOK
  <2>5. IdleHoldsNothing'
    BY <1>4, <2>1, <2>2 DEF IdleHoldsNothing, Busy, RequestTypes
  <2>6. NoUseAfterFree'
    BY <1>1, <1>4, <2>1, <2>2, <2>4 DEF NoUseAfterFree, RequestTypes, heap
  <2>7. ASSUME pc # "install"
        PROVE  \A u \in Thread : HoldsRetired(u)' => HoldsRetired(u)
    BY <1>1, <1>4, <2>1, <2>2, <2>4, <2>7 DEF HoldsRetired, OwnedIfaces, control, spares,
       fields, RequestTypes
  <2>8. GraceOK'
    BY <1>1, <2>2, <2>7 DEF GraceOK, control
  <2> QED BY <1>2, <1>3, <2>5, <2>6, <2>8
<1>9. CASE ReadIface(t)
  <2>1. PICK g \in heldGlobal[t], d \in DbNames :
          /\ ifaceOf[g][d] # Nil
          /\ heldIface' = [heldIface EXCEPT ![t] = @ \cup {<<d, ifaceOf[g][d]>>}]
    BY <1>9 DEF ReadIface
  <2>2. UNCHANGED <<elapsed, heldWork, heldDb, heldGlobal>>
    BY <1>9 DEF ReadIface
  <2>3. g \in Version /\ g \in globals /\ (g = pGlobal \/ g = spareGlobal)
    BY <1>4 DEF RequestTypes, NoUseAfterFree, GlobalHeapOK
  <2>4. ifaceOf[g][d] \in Version /\ Nil \notin Version
    BY <1>4, <2>1, <2>3, HotReloadAssumption DEF FieldTypes, VersionOrNil, Version, Nil
  <2>5. <<d, ifaceOf[g][d]>> \in ifaces
    BY <2>3, <2>4 DEF IfaceHeapOK
  <2>6. IdleHoldsNothing'
    BY <1>4, <1>9, <2>1, <2>2 DEF ReadIface, IdleHoldsNothing, Busy, RequestTypes
  <2>7. NoUseAfterFree'
    BY <1>1, <1>4, <2>1, <2>2, <2>5 DEF NoUseAfterFree, RequestTypes, heap
  <2>8. \A u \in Thread : HoldsRetired(u)' => HoldsRetired(u)
    <3> SUFFICES ASSUME NEW u \in Thread, HoldsRetired(u)', ~HoldsRetired(u)
                 PROVE  FALSE
      OBVIOUS
    <3>1. UNCHANGED <<spares, ifaceOf>>
      BY <1>1 DEF control, fields
    <3>2. \/ heldIface'[u] \cap spareIface # {}
          \/ spareGlobal # Nil /\ heldIface'[u] \cap OwnedIfaces(spareGlobal) # {}
      BY <2>2, <3>1 DEF HoldsRetired, OwnedIfaces, spares
    <3>3. u = t /\ ( \/ <<d, ifaceOf[g][d]>> \in spareIface
                     \/ spareGlobal # Nil /\ <<d, ifaceOf[g][d]>> \in OwnedIfaces(spareGlobal))
      BY <1>4, <2>1, <3>2 DEF HoldsRetired, RequestTypes
    <3>4. g = pGlobal /\ spareGlobal \notin heldGlobal[t]
      BY <2>3, <3>3 DEF HoldsRetired
    <3>5. spareGlobal # Nil /\ ifaceOf[spareGlobal][d] = ifaceOf[g][d]
      BY <3>3, <3>4 DEF IfaceHeapOK, OwnedIfaces
    <3> QED BY <2>1, <3>4, <3>5 DEF IfaceHeapOK
  <2>9. GraceOK'
    BY <1>1, <2>2, <2>8 DEF GraceOK, control
  <2> QED BY <1>2, <1>3, <2>6, <2>7, <2>9
<1>10. CASE EndRequest(t)
  <2> USE <1>10 DEF EndRequest
  <2>1. IdleHoldsNothing'
    BY <1>4 DEF IdleHoldsNothing, Busy, RequestTypes
  <2>2. NoUseAfterFree'
    BY <1>1, <1>4 DEF NoUseAfterFree, RequestTypes, heap
  <2>3. \A u \in Thread : HoldsRetired(u)' => u # t /\ HoldsRetired(u)
    BY <1>1, <1>4 DEF HoldsRetired, OwnedIfaces, control, spares, fields, RequestTypes
  <2>4. GraceOK'
    BY <1>1, <1>4, <2>3 DEF GraceOK, control, RequestTypes
  <2> QED BY <1>2, <1>3, <2>1, <2>2, <2>4
<1> QED BY <1>6, <1>7, <1>8, <1>9, <1>10 DEF Query

\* A step of the control thread leaves the requests alone.
LEMMA RequestsKept ==
  ASSUME IInv, UNCHANGED requests
  PROVE  /\ IdleHoldsNothing'
         /\ \A t \in Thread : /\ elapsed'[t] = elapsed[t]
                              /\ heldWork'[t] = heldWork[t]
                              /\ heldDb'[t] = heldDb[t]
                              /\ heldGlobal'[t] = heldGlobal[t]
                              /\ heldIface'[t] = heldIface[t]
BY DEF IInv, IdleHoldsNothing, Busy, requests, held

\* ... and where it only allocates, it keeps them safe.
LEMMA AllocationSafe ==
  ASSUME IInv, UNCHANGED requests,
         globals \subseteq globals', ifaces \subseteq ifaces',
         dbs \subseteq dbs', works \subseteq works'
  PROVE  NoUseAfterFree'
<1>1. RequestTypes
  BY DEF IInv, TypeOK
<1> QED
  BY <1>1 DEF IInv, NoUseAfterFree, RequestTypes, requests, held

\* The number of the next command names no object yet.
LEMMA NextNumberIsFresh ==
  ASSUME IInv, ver + 1 \in Version
  PROVE  /\ \A d \in DbNames : ifaceOf[pGlobal][d] # ver + 1
         /\ \A t \in Thread : dbSlot[t] < ver + 1 /\ workSlot[t] < ver + 1
<1> USE DEF IInv, HeapOK
<1>1. ver \in Int /\ FieldTypes /\ Version \subseteq Int
  BY HotReloadAssumption DEF TypeOK, ControlTypes, Version
<1>2. ASSUME NEW d \in DbNames, ifaceOf[pGlobal][d] = ver + 1
      PROVE  FALSE
  <2>1. <<d, ver + 1>> \in ifaces
    BY <1>2 DEF IfaceHeapOK
  <2>2. ver + 1 <= ver
    BY <2>1 DEF NumbersOK
  <2> QED BY <1>1, <2>2
<1>3. ASSUME NEW t \in Thread
      PROVE  dbSlot[t] < ver + 1 /\ workSlot[t] < ver + 1
  <2>1. dbSlot[t] \in Version /\ workSlot[t] \in Version
    BY <1>1 DEF FieldTypes
  <2>2. <<t, dbSlot[t]>> \in dbs /\ <<t, workSlot[t]>> \in works
    BY <2>1 DEF ThreadHeapOK
  <2>3. dbSlot[t] <= ver /\ workSlot[t] <= ver
    BY <2>1, <2>2 DEF NumbersOK
  <2>4. dbSlot[t] \in Int /\ workSlot[t] \in Int
    BY <1>1, <2>1
  <2> HIDE DEF IInv, HeapOK
  <2> QED BY <1>1, <2>3, <2>4
<1> QED BY <1>2, <1>3

LEMMA StartInv ==
  ASSUME IInv, StartGlobal \/ StartPerThread
  PROVE  IInv'
<1> USE DEF IInv, HeapOK
<1>1. (TypeOK /\ ControlOK)'
  BY StartTyped, InvTyped DEF Typed
<1>2. UNCHANGED requests
  BY DEF StartGlobal, StartPerThread
<1>3. IdleHoldsNothing' /\ NoUseAfterFree'
  BY <1>2, RequestsKept, AllocationSafe DEF StartGlobal, StartPerThread, heap
<1>4. GraceOK'
  BY DEF GraceOK, StartGlobal, StartPerThread
<1>5. /\ HeapTypes /\ FieldTypes /\ SpareTypes /\ ControlTypes
      /\ ver \in Int /\ ver + 1 \in Version /\ Nil \notin Version
      /\ spareGlobal = Nil /\ spareIface = {}
      /\ \A t \in Thread : spareDb[t] = Nil /\ spareWork[t] = Nil
  BY HotReloadAssumption DEF TypeOK, ControlOK, Working, ControlTypes, StartGlobal,
     StartPerThread, Version, Nil
<1>6. CASE StartGlobal
  <2> USE <1>6 DEF StartGlobal
  <2>1. PICK S \in SUBSET DbNames :
          /\ ifaceOf' = [ifaceOf EXCEPT ![ver + 1] = LoadedMap(S, ver + 1)]
          /\ ifaces' = ifaces \cup (S \X {ver + 1})
    OBVIOUS
  <2>2. ver + 1 \notin globals /\ pGlobal \in globals /\ pGlobal # ver + 1
    BY <1>5 DEF NumbersOK, GlobalHeapOK, FieldTypes
  <2>3. ifaceOf'[pGlobal] = ifaceOf[pGlobal] /\ ifaceOf'[ver + 1] = LoadedMap(S, ver + 1)
    BY <1>5, <2>1, <2>2 DEF FieldTypes
  <2>4. NumbersOK'
    BY <1>5, <2>1 DEF NumbersOK, HeapTypes, Version
  <2>5. GlobalHeapOK'
    BY <1>5, <2>2 DEF GlobalHeapOK
  <2>6. \A d \in DbNames : ifaceOf[pGlobal][d] # ver + 1
    BY <1>5, NextNumberIsFresh
  <2>7. IfaceHeapOK'
    BY <1>5, <2>1, <2>3, <2>6 DEF IfaceHeapOK, LoadedMap
  <2>8. ThreadHeapOK' /\ BindingOK'
    BY <1>5 DEF ThreadHeapOK, BindingOK, Thread, ControlTypes
  <2> QED BY <1>1, <1>3, <1>4, <2>4, <2>5, <2>7, <2>8
<1>7. CASE StartPerThread
  <2> USE <1>7 DEF StartPerThread
  <2>1. NumbersOK'
    BY <1>5, NextNumberIsFresh DEF NumbersOK, HeapTypes, Version, heap, fields
  <2>2. GlobalHeapOK' /\ IfaceHeapOK'
    BY <1>5 DEF GlobalHeapOK, IfaceHeapOK, heap, fields
  <2>3. ThreadHeapOK' /\ BindingOK'
    BY <1>5 DEF ThreadHeapOK, BindingOK, NoSpare, heap, fields
  <2> QED BY <1>1, <1>3, <1>4, <2>1, <2>2, <2>3
<1> QED BY <1>6, <1>7

LEMMA SingleInv ==
  ASSUME IInv, NEW d \in DbNames,
         SwapSingle(d) \/ InsertSingle(d) \/ FailSingle(d) \/ CrashSingle(d)
  PROVE  IInv'
<1> USE DEF IInv, HeapOK, Answer
<1>1. (TypeOK /\ ControlOK)'
  BY SingleTyped, InvTyped DEF Typed
<1>2. UNCHANGED requests
  BY DEF SwapSingle, InsertSingle, FailSingle, CrashSingle
<1>3. IdleHoldsNothing' /\ NoUseAfterFree'
  BY <1>2, RequestsKept, AllocationSafe
     DEF SwapSingle, InsertSingle, FailSingle, CrashSingle, heap
<1>4. /\ HeapTypes /\ FieldTypes /\ SpareTypes /\ ControlTypes /\ RequestTypes
      /\ spareGlobal = Nil /\ spareIface = {} /\ Nil \notin Version
      /\ pc = "idle"
      /\ \A t \in Thread : spareDb[t] = Nil /\ spareWork[t] = Nil
  BY HotReloadAssumption DEF TypeOK, ControlOK, Working, SwapSingle, InsertSingle,
     FailSingle, CrashSingle, Version, Nil
<1>5. GraceOK'
  BY <1>2, <1>4, HotReloadAssumption DEF GraceOK, SwapSingle, InsertSingle, FailSingle,
     CrashSingle, RequestTypes, requests
<1>6. ThreadHeapOK' /\ BindingOK' /\ GlobalHeapOK'
  BY <1>4 DEF ThreadHeapOK, BindingOK, GlobalHeapOK, SwapSingle, InsertSingle, FailSingle,
     CrashSingle, heap, fields, spares
<1>7. CASE SwapSingle(d) \/ InsertSingle(d)
  <2> USE <1>7 DEF SwapSingle, InsertSingle
  <2>1. /\ ver \in Int /\ ver + 1 \in Version
        /\ ifaces' = ifaces \cup {<<d, ver + 1>>}
        /\ UNCHANGED <<globals, dbs, works, pGlobal, dbSlot, workSlot, spareGlobal>>
        /\ ver' = ver + 1
    <3>1. ver \in Int /\ ver + 1 \in Version
      BY <1>4, HotReloadAssumption DEF ControlTypes, Version
    <3> QED BY <3>1 DEF spares
  <2>2. NumbersOK'
    <3>1. \A g \in globals' : g <= ver'
      BY <1>4, <2>1 DEF NumbersOK, HeapTypes, Version
    <3>2. \A e \in DbNames, v \in Version : <<e, v>> \in ifaces' => v <= ver'
      BY <1>4, <2>1 DEF NumbersOK, Version
    <3>3. \A t \in Thread, v \in Version : <<t, v>> \in (dbs \cup works)' => v <= ver'
      BY <1>4, <2>1 DEF NumbersOK, Version
    <3>4. pc' \notin {"install", "installWork"}
      OBVIOUS
    <3> QED BY <3>1, <3>2, <3>3, <3>4 DEF NumbersOK
  <2>3. \A e \in DbNames : ifaceOf[pGlobal][e] # ver + 1
    BY <2>1, NextNumberIsFresh
  <2>4. /\ ifaceOf'[pGlobal][d] = ver + 1
        /\ \A e \in DbNames \ {d} : ifaceOf'[pGlobal][e] = ifaceOf[pGlobal][e]
    <3>1. ifaceOf' = [ifaceOf EXCEPT ![pGlobal][d] = ver + 1]
      OBVIOUS
    <3> HIDE <1>7 DEF IInv, HeapOK, SwapSingle, InsertSingle
    <3> QED BY <1>4, <2>1, <3>1 DEF FieldTypes
  <2>5. spareIface' = IF ifaceOf[pGlobal][d] = Nil THEN {} ELSE {<<d, ifaceOf[pGlobal][d]>>}
    BY <1>4 DEF spares
  <2>6. IfaceHeapOK'
    <3> SUFFICES ASSUME NEW e \in DbNames
                 PROVE /\ \A v \in Version :
                            <<e, v>> \in ifaces' <=>
                              ifaceOf'[pGlobal][e] = v \/ <<e, v>> \in spareIface'
                       /\ <<e, ifaceOf'[pGlobal][e]>> \notin spareIface'
      BY <1>4, <2>1 DEF IfaceHeapOK
    <3>1. CASE e = d
      BY <1>4, <2>1, <2>3, <2>4, <2>5, <3>1 DEF IfaceHeapOK
    <3>2. CASE e # d
      BY <1>4, <2>1, <2>3, <2>4, <2>5, <3>2 DEF IfaceHeapOK
    <3> QED BY <3>1, <3>2
  <2> QED BY <1>1, <1>3, <1>5, <1>6, <2>2, <2>6
<1>8. CASE FailSingle(d) \/ CrashSingle(d)
  <2>1. NumbersOK' /\ IfaceHeapOK'
    BY <1>8 DEF FailSingle, CrashSingle, NumbersOK, IfaceHeapOK, heap, fields, spares
  <2> QED BY <1>1, <1>3, <1>5, <1>6, <2>1
<1> QED BY <1>7, <1>8
LEMMA InstallInv ==
  ASSUME IInv, InstallGlobal \/ InstallDb \/ InstallWork
  PROVE  IInv'
<1> USE DEF IInv, HeapOK
<1>1. (TypeOK /\ ControlOK)'
  BY InstallTyped, InvTyped DEF Typed
<1>2. UNCHANGED requests
  BY DEF InstallGlobal, InstallDb, InstallWork
<1>3. IdleHoldsNothing' /\ NoUseAfterFree'
  BY <1>2, RequestsKept, AllocationSafe DEF InstallGlobal, InstallDb, InstallWork, heap
<1>4. GraceOK'
  BY DEF GraceOK, InstallGlobal, InstallDb, InstallWork
<1>5. /\ HeapTypes /\ FieldTypes /\ SpareTypes /\ ControlTypes
      /\ Nil \notin Version /\ Version \subseteq Int /\ Thread \subseteq Int
      /\ i \in Thread /\ i \in Int /\ ver \in Version /\ ver \in Int
  BY HotReloadAssumption DEF TypeOK, ControlTypes, ControlOK, InstallGlobal, InstallDb,
     InstallWork, Version, Nil, Thread
<1>6. CASE InstallGlobal
  <2> USE <1>6 DEF InstallGlobal
  <2>1. UNCHANGED <<heap, spares, pGlobal, ifaceOf, dbSlot, workSlot, ver, pc, cmd>>
    OBVIOUS
  <2>2. NumbersOK' /\ GlobalHeapOK' /\ IfaceHeapOK' /\ ThreadHeapOK'
    BY <2>1 DEF NumbersOK, GlobalHeapOK, IfaceHeapOK, ThreadHeapOK, heap, spares
  <2>3. spareDb[i] = Nil /\ spareGlobal \in Version
    BY <1>5 DEF ControlOK, Working, SpareTypes, VersionOrNil
  <2>4. BindingOK'
    <3> SUFFICES ASSUME NEW t \in Thread, NEW v \in Version, <<t, v>> \in dbs
                 PROVE  globalOf'[t][v] = IF t < i + 1 THEN spareGlobal ELSE pGlobal
      BY <2>1 DEF BindingOK, heap, spares
    <3>1. globalOf' = [globalOf EXCEPT ![i][dbSlot[i]] = spareGlobal]
      OBVIOUS
    <3>2. globalOf[t][v] = IF t < i THEN spareGlobal ELSE pGlobal
      BY DEF BindingOK
    <3>3. CASE t = i
      <4>1. v = dbSlot[i]
        BY <1>5, <2>3, <3>3 DEF ThreadHeapOK
      <4> QED BY <1>5, <3>1, <3>3, <4>1 DEF FieldTypes
    <3>4. CASE t # i
      <4>1. globalOf'[t] = globalOf[t]
        BY <1>5, <3>1, <3>4 DEF FieldTypes
      <4>2. t \in Int /\ (t < i + 1 <=> t < i)
        BY <1>5, <3>4
      <4> QED BY <3>2, <4>1, <4>2
    <3> QED BY <3>3, <3>4
  <2> QED BY <1>1, <1>3, <1>4, <2>2, <2>4
<1>7. CASE InstallDb
  <2> USE <1>7 DEF InstallDb
  <2>1. UNCHANGED <<globals, ifaces, works, pGlobal, ifaceOf, workSlot, ver, spareGlobal,
                    spareIface, spareWork>>
    OBVIOUS
  <2>2. /\ dbSlot[i] \in Version /\ dbSlot[i] < ver
        /\ spareDb[i] = Nil /\ <<i, ver>> \notin dbs
    <3>1. dbSlot[i] \in Version /\ dbSlot[i] < ver /\ spareDb[i] = Nil
      BY <1>5 DEF NumbersOK, FieldTypes, ControlOK
    <3>2. \A v \in Version : <<i, v>> \in dbs <=> v = dbSlot[i]
      BY <1>5, <3>1 DEF ThreadHeapOK
    <3>3. ver # dbSlot[i]
      BY <1>5, <3>1
    <3> QED BY <1>5, <3>1, <3>2, <3>3
  <2>3. NumbersOK'
    <3>1. \A t \in Thread, v \in Version : <<t, v>> \in (dbs \cup works)' => v <= ver'
      BY <1>5, <2>1 DEF NumbersOK
    <3>2. \A t \in Thread : i < t => dbSlot'[t] < ver
      BY <1>5 DEF NumbersOK, FieldTypes
    <3> QED BY <2>1, <3>1, <3>2 DEF NumbersOK
  <2>4. GlobalHeapOK' /\ IfaceHeapOK'
    BY <2>1 DEF GlobalHeapOK, IfaceHeapOK
  <2>5. ThreadHeapOK'
    <3>1. /\ dbs' = dbs \cup {<<i, ver>>}
          /\ spareDb' = [spareDb EXCEPT ![i] = dbSlot[i]]
          /\ dbSlot' = [dbSlot EXCEPT ![i] = ver]
      OBVIOUS
    <3> SUFFICES ASSUME NEW t \in Thread
                 PROVE  /\ \A v \in Version :
                             <<t, v>> \in dbs' <=> (v = dbSlot'[t] \/ v = spareDb'[t])
                        /\ dbSlot'[t] # spareDb'[t]
      BY <2>1 DEF ThreadHeapOK
    <3>2. \A v \in Version : <<t, v>> \in dbs <=> (v = dbSlot[t] \/ v = spareDb[t])
      BY DEF ThreadHeapOK
    <3>3. CASE t = i
      <4>1. dbSlot'[t] = ver /\ spareDb'[t] = dbSlot[i]
        BY <1>5, <3>1, <3>3 DEF FieldTypes, SpareTypes
      <4>2. dbSlot[i] # ver
        BY <1>5, <2>2
      <4> QED BY <1>5, <2>2, <3>1, <3>2, <3>3, <4>1, <4>2
    <3>4. CASE t # i
      <4>1. dbSlot'[t] = dbSlot[t] /\ spareDb'[t] = spareDb[t]
        BY <1>5, <3>1, <3>4 DEF FieldTypes, SpareTypes
      <4> QED BY <3>1, <3>2, <3>4, <4>1 DEF ThreadHeapOK
    <3> QED BY <3>3, <3>4
  <2>6. BindingOK'
    <3> SUFFICES ASSUME NEW t \in Thread, NEW v \in Version, <<t, v>> \in dbs'
                 PROVE  globalOf'[t][v] = pGlobal
      BY <2>1 DEF BindingOK
    <3>1. /\ globalOf' = [globalOf EXCEPT ![i][ver] = pGlobal]
          /\ dbs' = dbs \cup {<<i, ver>>}
      OBVIOUS
    <3>2. <<t, v>> \in dbs => globalOf[t][v] = pGlobal
      BY DEF BindingOK
    <3> QED BY <1>5, <2>2, <3>1, <3>2 DEF FieldTypes
  <2> QED BY <1>1, <1>3, <1>4, <2>3, <2>4, <2>5, <2>6
<1>8. CASE InstallWork
  <2> USE <1>8 DEF InstallWork
  <2>1. UNCHANGED <<globals, ifaces, dbs, pGlobal, ifaceOf, globalOf, dbSlot, ver,
                    spareGlobal, spareIface, spareDb>>
    OBVIOUS
  <2>2. cmd \in {"db", "work"} /\ cmd' = cmd /\ pc' = "install" /\ i' = i + 1
    BY DEF ControlOK
  <2>3. workSlot[i] \in Version /\ workSlot[i] < ver /\ spareWork[i] = Nil
    BY <1>5, <2>2 DEF NumbersOK, FieldTypes, ControlOK
  <2>4. \A t \in Thread : (i + 1 <= t) <=> (i <= t /\ i # t)
    BY <1>5
  <2>5. NumbersOK'
    <3>1. \A t \in Thread, v \in Version : <<t, v>> \in (dbs \cup works)' => v <= ver'
      BY <1>5, <2>1 DEF NumbersOK
    <3>2. \A t \in Thread : i + 1 <= t => workSlot'[t] < ver
      BY <1>5, <2>2, <2>4 DEF NumbersOK, FieldTypes
    <3>3. \A t \in Thread : cmd = "db" /\ i + 1 <= t => dbSlot[t] < ver
      BY <1>5, <2>2, <2>4 DEF NumbersOK
    <3> QED BY <2>1, <2>2, <3>1, <3>2, <3>3 DEF NumbersOK
  <2>6. GlobalHeapOK' /\ IfaceHeapOK' /\ BindingOK'
    BY <2>1, <2>2 DEF GlobalHeapOK, IfaceHeapOK, BindingOK
  <2>7. ThreadHeapOK'
    <3>1. /\ works' = works \cup {<<i, ver>>}
          /\ spareWork' = [spareWork EXCEPT ![i] = workSlot[i]]
          /\ workSlot' = [workSlot EXCEPT ![i] = ver]
      OBVIOUS
    <3> SUFFICES ASSUME NEW t \in Thread
                 PROVE  /\ \A v \in Version :
                             <<t, v>> \in works' <=> (v = workSlot'[t] \/ v = spareWork'[t])
                        /\ workSlot'[t] # spareWork'[t]
      BY <2>1 DEF ThreadHeapOK
    <3>2. \A v \in Version : <<t, v>> \in works <=> (v = workSlot[t] \/ v = spareWork[t])
      BY DEF ThreadHeapOK
    <3>3. CASE t = i
      <4>1. workSlot'[t] = ver /\ spareWork'[t] = workSlot[i]
        BY <1>5, <3>1, <3>3 DEF FieldTypes, SpareTypes
      <4>2. workSlot[i] # ver
        BY <1>5, <2>3
      <4> QED BY <1>5, <2>3, <3>1, <3>2, <3>3, <4>1, <4>2
    <3>4. CASE t # i
      <4>1. workSlot'[t] = workSlot[t] /\ spareWork'[t] = spareWork[t]
        BY <1>5, <3>1, <3>4 DEF FieldTypes, SpareTypes
      <4> QED BY <3>1, <3>2, <3>4, <4>1 DEF ThreadHeapOK
    <3> QED BY <3>3, <3>4
  <2> QED BY <1>1, <1>3, <1>4, <2>5, <2>6, <2>7
<1> QED BY <1>6, <1>7, <1>8

\* The sleep is longer than a request: whoever holds a retired object when the
\* sleep is over began before it, and cannot have lasted that long.
LEMMA SleepInv ==
  ASSUME IInv, MaxReq < SleepTime, SwapGlobal \/ SleepPerThread \/ Wake
  PROVE  IInv'
<1> USE DEF IInv, HeapOK
<1>1. (TypeOK /\ ControlOK)'
  BY SleepTyped, InvTyped DEF Typed
<1>2. UNCHANGED requests /\ UNCHANGED heap
  BY DEF SwapGlobal, SleepPerThread, Wake
<1>3. IdleHoldsNothing' /\ NoUseAfterFree'
  BY <1>2, RequestsKept, AllocationSafe DEF heap
<1>4. /\ HeapTypes /\ FieldTypes /\ SpareTypes /\ ControlTypes /\ RequestTypes
      /\ Nil \notin Version
  BY HotReloadAssumption DEF TypeOK, Version, Nil
<1>5. NumbersOK'
  BY <1>2 DEF NumbersOK, SwapGlobal, SleepPerThread, Wake, heap
<1>6. CASE SwapGlobal
  <2> USE <1>6 DEF SwapGlobal
  <2>1. UNCHANGED <<heap, ifaceOf, globalOf, dbSlot, workSlot, spareIface, spareDb, spareWork>>
    BY <1>2
  <2>2. pGlobal' = spareGlobal /\ spareGlobal' = pGlobal /\ pc' = "sleep" /\ slept' = 0
    OBVIOUS
  <2>3. spareGlobal \in Version /\ pGlobal \in Version /\ spareIface = {}
    BY <1>4 DEF ControlOK, Working, SpareTypes, FieldTypes, VersionOrNil
  <2>4. GlobalHeapOK' /\ ThreadHeapOK'
    BY <2>1, <2>2 DEF GlobalHeapOK, ThreadHeapOK, heap
  <2>5. IfaceHeapOK'
    <3> HIDE <1>6 DEF IInv, HeapOK
    <3>1. IfaceHeapOK
      BY DEF IInv, HeapOK
    <3> QED BY <1>4, <2>1, <2>2, <2>3, <3>1 DEF IfaceHeapOK, heap
  <2>6. BindingOK'
    <3>1. \A t \in Thread : t < i
      BY HotReloadAssumption DEF Thread
    <3> QED BY <2>1, <2>2, <3>1 DEF BindingOK, heap
  <2>7. GraceOK'
    BY <1>2, <1>4, <2>2, HotReloadAssumption DEF GraceOK, RequestTypes, requests
  <2> QED BY <1>1, <1>3, <1>5, <2>4, <2>5, <2>6, <2>7
<1>7. CASE SleepPerThread \/ Wake
  <2>1. UNCHANGED <<heap, fields, spares, cmd>> /\ pc' \in {"sleep", "free"}
    BY <1>7 DEF SleepPerThread, Wake
  <2>2. GlobalHeapOK' /\ IfaceHeapOK' /\ ThreadHeapOK'
    BY <2>1 DEF GlobalHeapOK, IfaceHeapOK, ThreadHeapOK, heap, fields, spares
  <2>3. BindingOK'
    BY <1>7, <2>1 DEF BindingOK, SleepPerThread, Wake, heap, fields, spares
  <2>4. CASE SleepPerThread
    BY <1>1, <1>2, <1>3, <1>4, <1>5, <2>2, <2>3, <2>4, HotReloadAssumption
       DEF GraceOK, SleepPerThread, RequestTypes, requests
  <2>5. CASE Wake
    <3>1. \A t \in Thread : HoldsRetired(t)' => HoldsRetired(t)
      BY <1>2, <2>1 DEF HoldsRetired, OwnedIfaces, fields, spares, requests, held
    <3>2. \A t \in Thread : ~HoldsRetired(t)
      BY <1>4, <2>5, HotReloadAssumption DEF GraceOK, Wake, RequestTypes
    <3> QED BY <1>1, <1>3, <1>5, <2>2, <2>3, <3>1, <3>2 DEF GraceOK
  <2> QED BY <1>7, <2>4, <2>5
<1> QED BY <1>6, <1>7

LEMMA FreeInv ==
  ASSUME IInv, FreeGlobal \/ FreeSingle \/ FreePerThread \/ AnswerPerThread
  PROVE  IInv'
<1> USE DEF IInv, HeapOK, Answer
<1>1. (TypeOK /\ ControlOK)'
  BY FreeTyped, InvTyped DEF Typed
<1>2. UNCHANGED requests /\ UNCHANGED fields /\ UNCHANGED cmd /\ pc = "free"
  BY DEF FreeGlobal, FreeSingle, FreePerThread, AnswerPerThread
<1>3. IdleHoldsNothing'
  BY <1>2, RequestsKept
<1>4. /\ HeapTypes /\ FieldTypes /\ SpareTypes /\ ControlTypes /\ RequestTypes
      /\ Nil \notin Version
  BY HotReloadAssumption DEF TypeOK, Version, Nil
<1>5. \A t \in Thread : ~HoldsRetired(t)
  BY <1>2 DEF GraceOK
<1>6. pc' \in {"idle", "free"} /\ ver' = ver
      /\ globals' \subseteq globals /\ ifaces' \subseteq ifaces
      /\ dbs' \subseteq dbs /\ works' \subseteq works
  BY <1>2 DEF FreeGlobal, FreeSingle, FreePerThread, AnswerPerThread, heap
<1>7. NumbersOK' /\ BindingOK'
  BY <1>2, <1>6 DEF NumbersOK, BindingOK, fields
<1>8. CASE FreeGlobal
  <2> USE <1>8 DEF FreeGlobal
  <2>1. GlobalHeapOK' /\ ThreadHeapOK'
    BY <1>2, <1>4 DEF GlobalHeapOK, ThreadHeapOK, FieldTypes, fields
  <2>2. IfaceHeapOK'
    <3>1. /\ IfaceHeapOK /\ spareIface = {} /\ spareIface' = {} /\ spareGlobal' = Nil
          /\ spareGlobal # Nil
          /\ ifaces' = ifaces \ OwnedIfaces(spareGlobal)
      BY DEF ControlOK, Working
    <3>2. \A d \in DbNames, v \in Version :
            <<d, v>> \in OwnedIfaces(spareGlobal) <=> ifaceOf[spareGlobal][d] = v
      BY <1>4 DEF OwnedIfaces
    <3> HIDE <1>8 DEF IInv, HeapOK
    <3> QED BY <1>2, <1>4, <3>1, <3>2 DEF IfaceHeapOK, fields
  <2>3. NoUseAfterFree'
    <3>1. \A t \in Thread : /\ spareGlobal \notin heldGlobal[t]
                            /\ heldIface[t] \cap OwnedIfaces(spareGlobal) = {}
      BY <1>5 DEF HoldsRetired, ControlOK, Working
    <3> QED BY <1>2, <1>4, <3>1 DEF NoUseAfterFree, RequestTypes, requests, held
  <2> QED BY <1>1, <1>3, <1>7, <2>1, <2>2, <2>3 DEF GraceOK
<1>9. CASE FreeSingle
  <2> USE <1>9 DEF FreeSingle
  <2>1. GlobalHeapOK' /\ ThreadHeapOK'
    BY <1>2 DEF GlobalHeapOK, ThreadHeapOK, fields
  <2>2. IfaceHeapOK'
    BY <1>2, <1>4 DEF IfaceHeapOK, ControlOK, fields
  <2>3. NoUseAfterFree'
    BY <1>2, <1>4, <1>5 DEF HoldsRetired, NoUseAfterFree, RequestTypes, requests, held
  <2> QED BY <1>1, <1>3, <1>7, <2>1, <2>2, <2>3 DEF GraceOK
<1>10. CASE FreePerThread
  <2> USE <1>10 DEF FreePerThread
  <2>1. i \in Thread
    BY <1>4, HotReloadAssumption DEF ControlTypes, Thread
  <2>2. GlobalHeapOK' /\ IfaceHeapOK'
    BY <1>2 DEF GlobalHeapOK, IfaceHeapOK, fields
  <2>3. /\ works' = works \ {<<i, spareWork[i]>>}
        /\ dbs' = dbs \ {<<i, spareDb[i]>>}
        /\ spareWork' = [spareWork EXCEPT ![i] = Nil]
        /\ spareDb' = [spareDb EXCEPT ![i] = Nil]
    OBVIOUS
  <2>4. ThreadHeapOK'
    <3>1. ThreadHeapOK
      OBVIOUS
    <3> HIDE <1>10 DEF IInv, HeapOK
    <3> QED BY <1>2, <1>4, <2>1, <2>3, <3>1 DEF ThreadHeapOK, FieldTypes, SpareTypes, fields
  <2>5. NoUseAfterFree'
    <3>1. spareWork[i] \notin heldWork[i] /\ spareDb[i] \notin heldDb[i]
      BY <1>5, <2>1 DEF HoldsRetired
    <3> QED BY <1>2, <1>4, <2>1, <2>3, <3>1
            DEF NoUseAfterFree, RequestTypes, requests, held
  <2>6. GraceOK'
    <3>1. \A t \in Thread : HoldsRetired(t)' => HoldsRetired(t)
      BY <1>2, <1>4, <2>1, <2>3
         DEF HoldsRetired, OwnedIfaces, RequestTypes, SpareTypes, fields, requests, held
    <3> QED BY <1>5, <3>1 DEF GraceOK
  <2> QED BY <1>1, <1>3, <1>7, <2>2, <2>4, <2>5, <2>6
<1>11. CASE AnswerPerThread
  <2> USE <1>11 DEF AnswerPerThread
  <2>1. GlobalHeapOK' /\ IfaceHeapOK' /\ ThreadHeapOK'
    BY <1>2 DEF GlobalHeapOK, IfaceHeapOK, ThreadHeapOK, heap, fields, spares
  <2>2. NoUseAfterFree'
    BY <1>2 DEF NoUseAfterFree, heap, requests, held
  <2> QED BY <1>1, <1>3, <1>7, <2>1, <2>2 DEF GraceOK
<1> QED BY <1>8, <1>9, <1>10, <1>11

\* A request that holds a retired object ages at least as fast as the sleep.
LEMMA TickInv ==
  ASSUME IInv, Tick
  PROVE  IInv'
<1> USE DEF IInv, HeapOK, Tick
<1>1. (TypeOK /\ ControlOK)'
  BY TickTyped, InvTyped DEF Typed
<1>2. UNCHANGED <<heap, fields, ver, pc, cmd, i, spares, held>>
  OBVIOUS
<1>3. (NumbersOK /\ GlobalHeapOK /\ IfaceHeapOK /\ ThreadHeapOK /\ BindingOK)'
  BY <1>2 DEF NumbersOK, GlobalHeapOK, IfaceHeapOK, ThreadHeapOK, BindingOK, heap, fields,
     spares
<1>4. IdleHoldsNothing' /\ NoUseAfterFree'
  BY <1>2 DEF IdleHoldsNothing, NoUseAfterFree, Busy, heap, held
<1>5. GraceOK'
  <2> SUFFICES ASSUME NEW t \in Thread, HoldsRetired(t)'
               PROVE  pc # "free" /\ (pc = "sleep" => slept' <= elapsed'[t])
    BY <1>2 DEF GraceOK
  <2>1. HoldsRetired(t) /\ Busy(t)
    BY <1>2, HoldsRetiredBusy DEF HoldsRetired, OwnedIfaces, fields, spares, held
  <2>2. elapsed'[t] = elapsed[t] + 1 /\ (slept' = slept + 1 \/ slept' = slept)
    BY <2>1
  <2>3. elapsed[t] \in Int /\ slept \in Int
    BY HotReloadAssumption DEF TypeOK, RequestTypes, ControlTypes
  <2> QED BY <2>1, <2>2, <2>3 DEF GraceOK
<1> QED BY <1>1, <1>3, <1>4, <1>5

LEMMA InvStep ==
  ASSUME MaxReq < SleepTime
  PROVE  IInv /\ [Next]_vars => IInv'
<1> SUFFICES ASSUME IInv, [Next]_vars PROVE IInv'
  OBVIOUS
<1>1. CASE Dead \/ UNCHANGED vars
  <2>1. UNCHANGED vars
    BY <1>1 DEF Dead
  <2>2. (TypeOK /\ ControlOK)'
    BY <1>1, InvTyped, TypedStep DEF Typed
  <2>3. UNCHANGED <<heap, fields, ver, pc, cmd, i, slept, spares, requests>>
    BY <2>1 DEF vars, control
  <2>4. (NumbersOK /\ GlobalHeapOK /\ IfaceHeapOK /\ ThreadHeapOK /\ BindingOK)'
    BY <2>3 DEF IInv, HeapOK, NumbersOK, GlobalHeapOK, IfaceHeapOK, ThreadHeapOK, BindingOK,
       heap, fields, spares
  <2>5. (IdleHoldsNothing /\ NoUseAfterFree /\ GraceOK)'
    BY <2>3 DEF IInv, IdleHoldsNothing, NoUseAfterFree, GraceOK, HoldsRetired, OwnedIfaces,
       Busy, heap, fields, spares, requests, held
  <2> QED BY <2>2, <2>4, <2>5 DEF IInv, HeapOK
<1>2. CASE \E t \in Thread : Query(t)
  BY <1>2, QueryInv
<1>3. CASE StartGlobal \/ StartPerThread
  BY <1>3, StartInv
<1>4. CASE \E d \in DbNames :
             SwapSingle(d) \/ InsertSingle(d) \/ FailSingle(d) \/ CrashSingle(d)
  BY <1>4, SingleInv
<1>5. CASE InstallGlobal \/ InstallDb \/ InstallWork
  BY <1>5, InstallInv
<1>6. CASE SwapGlobal \/ SleepPerThread \/ Wake
  BY <1>6, SleepInv
<1>7. CASE FreeGlobal \/ FreeSingle \/ FreePerThread \/ AnswerPerThread
  BY <1>7, FreeInv
<1>8. CASE Tick
  BY <1>8, TickInv
<1> QED BY <1>1, <1>2, <1>3, <1>4, <1>5, <1>6, <1>7, <1>8 DEF Next, Progress

\* What holds at every step: the spares are old, the slots are live, and while
\* a request is shorter than the sleep the grace period covers every request.
THEOREM Inductive ==
  ASSUME MaxReq < SleepTime
  PROVE  Spec => []IInv
<1>1. IInv /\ [Next]_vars => IInv'
  BY InvStep
<1> QED BY InvInit, <1>1, PTL DEF Spec

\* No query thread ever touches a deleted object, for any number of threads,
\* databases and commands, when requests are shorter than SLEEP_TIME.
THEOREM Safe ==
  ASSUME MaxReq < SleepTime
  PROVE  Spec => []NoUseAfterFree
<1>1. IInv => NoUseAfterFree
  BY DEF IInv
<1> QED BY Inductive, <1>1, PTL

\* The promise of lab_common_svr.cpp:50 holds under the same condition, the one
\* the code leaves to the configuration: when the sleep is over nobody uses an
\* old pointer.
THEOREM OldPointersUnused ==
  ASSUME MaxReq < SleepTime
  PROVE  Spec => []NobodyUsesOldPointer
<1>1. IInv => NobodyUsesOldPointer
  BY DEF IInv, GraceOK, HoldsRetired, NobodyUsesOldPointer
<1> QED BY Inductive, <1>1, PTL

\* Each command deletes all it replaced: nothing leaks from one to the next.
THEOREM NoLeak ==
  ASSUME MaxReq < SleepTime
  PROVE  Spec => []NoLeakWhenIdle
<1>1. IInv => NoLeakWhenIdle
  <2> SUFFICES ASSUME IInv, pc = "idle" PROVE NoLeakWhenIdle
    BY DEF NoLeakWhenIdle
  <2>1. /\ HeapTypes /\ FieldTypes /\ Nil \notin Version
        /\ spareGlobal = Nil /\ spareIface = {}
        /\ \A t \in Thread : spareDb[t] = Nil /\ spareWork[t] = Nil
    BY HotReloadAssumption DEF IInv, TypeOK, ControlOK, Working, Version, Nil
  <2>2. globals = {pGlobal}
    BY <2>1 DEF IInv, HeapOK, GlobalHeapOK, HeapTypes, FieldTypes
  <2>3. ifaces = OwnedIfaces(pGlobal)
    <3>1. \A d \in DbNames, v \in Version : <<d, v>> \in ifaces <=> ifaceOf[pGlobal][d] = v
      BY <2>1 DEF IInv, HeapOK, IfaceHeapOK
    <3>2. \A d \in DbNames, v \in Version :
            <<d, v>> \in OwnedIfaces(pGlobal) <=> ifaceOf[pGlobal][d] = v
      BY <2>1 DEF OwnedIfaces
    <3>3. OwnedIfaces(pGlobal) \subseteq DbNames \X Version
      BY <2>1 DEF OwnedIfaces, FieldTypes, VersionOrNil
    <3> QED BY <2>1, <3>1, <3>2, <3>3 DEF HeapTypes
  <2>4. /\ dbs = {<<t, dbSlot[t]>> : t \in Thread}
        /\ works = {<<t, workSlot[t]>> : t \in Thread}
    <3>1. \A t \in Thread, v \in Version : /\ <<t, v>> \in dbs <=> v = dbSlot[t]
                                           /\ <<t, v>> \in works <=> v = workSlot[t]
      BY <2>1 DEF IInv, HeapOK, ThreadHeapOK
    <3> QED BY <2>1, <3>1 DEF HeapTypes, FieldTypes
  <2> QED BY <2>2, <2>3, <2>4 DEF NoLeakWhenIdle
<1> QED BY Inductive, <1>1, PTL

\* Between two commands every query thread serves from the same global data.
THEOREM Agreement ==
  ASSUME MaxReq < SleepTime
  PROVE  Spec => []ThreadsAgree
<1>1. IInv => ThreadsAgree
  BY DEF IInv, TypeOK, FieldTypes, HeapOK, ThreadHeapOK, BindingOK, ThreadsAgree
<1> QED BY Inductive, <1>1, PTL

LEMMA InvLive == IInv => FieldsPointToLive
<1> SUFFICES ASSUME IInv PROVE FieldsPointToLive
  OBVIOUS
<1>1. HeapTypes /\ FieldTypes /\ SpareTypes /\ Nil \notin Version
  BY HotReloadAssumption DEF IInv, TypeOK, Version, Nil
<1>2. pGlobal \in globals
  BY <1>1 DEF IInv, HeapOK, GlobalHeapOK, FieldTypes
<1>3. \A t \in Thread : <<t, dbSlot[t]>> \in dbs /\ <<t, workSlot[t]>> \in works
  BY <1>1 DEF IInv, HeapOK, ThreadHeapOK, FieldTypes
<1>4. \A t \in Thread, v \in Version : <<t, v>> \in dbs => globalOf[t][v] \in globals
  BY <1>1 DEF IInv, HeapOK, GlobalHeapOK, BindingOK, FieldTypes
<1>5. \A g \in globals : OwnedIfaces(g) \subseteq ifaces
  <2> SUFFICES ASSUME NEW g \in globals, NEW d \in DbNames, ifaceOf[g][d] # Nil
               PROVE  <<d, ifaceOf[g][d]>> \in ifaces
    BY DEF OwnedIfaces
  <2>1. g \in Version /\ (g = pGlobal \/ g = spareGlobal)
    BY <1>1 DEF IInv, HeapOK, GlobalHeapOK, HeapTypes
  <2>2. ifaceOf[g][d] \in Version
    BY <1>1, <2>1 DEF FieldTypes, VersionOrNil
  <2> QED BY <1>1, <2>1, <2>2 DEF IInv, HeapOK, IfaceHeapOK
<1> QED BY <1>1, <1>2, <1>3, <1>4, <1>5 DEF FieldsPointToLive, HeapTypes

\* Every pointer a request could still follow leads to an allocated object.
THEOREM LivePointers ==
  ASSUME MaxReq < SleepTime
  PROVE  Spec => []FieldsPointToLive
BY Inductive, InvLive, PTL

\* Nothing is deleted twice and nothing in a slot is deleted.
THEOREM RetiredOnly ==
  ASSUME MaxReq < SleepTime
  PROVE  Spec => []Retired
<1>1. IInv => Retired
  <2> SUFFICES ASSUME IInv, pc \in {"sleep", "free"} PROVE Retired
    BY DEF Retired
  <2>1. HeapTypes /\ FieldTypes /\ SpareTypes /\ Nil \notin Version
    BY HotReloadAssumption DEF IInv, TypeOK, Version, Nil
  <2>2. spareGlobal # Nil =>
          /\ spareGlobal \in globals \ {pGlobal}
          /\ \A t \in Thread : globalOf[t][dbSlot[t]] # spareGlobal
    <3>1. spareGlobal # Nil => spareGlobal \in globals \ {pGlobal}
      BY <2>1 DEF IInv, HeapOK, GlobalHeapOK, SpareTypes, VersionOrNil
    <3>2. \A t \in Thread : globalOf[t][dbSlot[t]] = pGlobal
      BY <2>1 DEF IInv, HeapOK, ThreadHeapOK, BindingOK, FieldTypes
    <3>3. spareGlobal # pGlobal
      BY DEF IInv, HeapOK, GlobalHeapOK
    <3> QED BY <3>1, <3>2, <3>3
  <2>3. spareIface \subseteq ifaces
    <3>1. \A d \in DbNames, v \in Version : <<d, v>> \in spareIface => <<d, v>> \in ifaces
      BY DEF IInv, HeapOK, IfaceHeapOK
    <3> QED BY <2>1, <3>1 DEF SpareTypes
  <2>4. \A g \in globals : spareIface \cap OwnedIfaces(g) = {}
    <3>1. spareIface # {} => spareGlobal = Nil
      BY DEF IInv, ControlOK
    <3>2. spareIface # {} => globals \subseteq {pGlobal}
      BY <2>1, <3>1 DEF IInv, HeapOK, GlobalHeapOK, HeapTypes
    <3> QED BY <3>2 DEF IInv, HeapOK, IfaceHeapOK, OwnedIfaces
  <2>5. \A t \in Thread :
          /\ spareDb[t] # Nil => <<t, spareDb[t]>> \in dbs /\ spareDb[t] # dbSlot[t]
          /\ spareWork[t] # Nil => <<t, spareWork[t]>> \in works /\ spareWork[t] # workSlot[t]
    BY <2>1 DEF IInv, HeapOK, ThreadHeapOK, SpareTypes, VersionOrNil
  <2> QED BY <2>2, <2>3, <2>4, <2>5 DEF Retired
<1> QED BY Inductive, <1>1, PTL
-----------------------------------------------------------------------------
(* What a command has put in place. *)

\* The variables InstalledOK is about.
installed == <<pGlobal, ifaceOf, globalOf, dbSlot, workSlot, ver, pc, cmd, i, reply, spareGlobal>>

LEMMA InstalledKept ==
  ASSUME InstalledOK, UNCHANGED installed
  PROVE  InstalledOK'
BY DEF InstalledOK, Installed, installed

LEMMA InstalledStart ==
  ASSUME Typed, InstalledOK, StartGlobal \/ StartPerThread
  PROVE  InstalledOK'
BY DEF InstalledOK, Installed, Thread, StartGlobal, StartPerThread

LEMMA InstalledSingle ==
  ASSUME Typed, InstalledOK, NEW d \in DbNames,
         SwapSingle(d) \/ InsertSingle(d) \/ FailSingle(d) \/ CrashSingle(d)
  PROVE  InstalledOK'
<1>1. FieldTypes
  BY DEF Typed, TypeOK
<1>2. CASE SwapSingle(d) \/ InsertSingle(d)
  <2>1. ifaceOf'[pGlobal'][d] = ver'
    BY <1>1, <1>2 DEF SwapSingle, InsertSingle, FieldTypes
  <2> QED BY <1>2, <2>1 DEF InstalledOK, Installed, SwapSingle, InsertSingle, Answer
<1>3. CASE FailSingle(d) \/ CrashSingle(d)
  BY <1>3 DEF InstalledOK, Installed, FailSingle, CrashSingle, Answer
<1> QED BY <1>2, <1>3

LEMMA InstalledLoop ==
  ASSUME Typed, InstalledOK, InstallGlobal \/ InstallDb \/ InstallWork
  PROVE  InstalledOK'
<1>1. FieldTypes /\ i \in Thread
  BY HotReloadAssumption DEF Typed, TypeOK, InstallGlobal, InstallDb, InstallWork, Thread,
     ControlTypes, ControlOK
<1>2. \A t \in Thread : t < i + 1 <=> t < i \/ t = i
  BY <1>1 DEF Thread
<1>3. CASE InstallGlobal
  <2> USE <1>3 DEF InstallGlobal
  <2>1. \A t \in Thread : t < i' => globalOf'[t][dbSlot'[t]] = ver'
    BY <1>1, <1>2 DEF InstalledOK, FieldTypes, spares
  <2> QED BY <2>1 DEF InstalledOK, Installed, spares
<1>4. CASE InstallDb
  <2> USE <1>4 DEF InstallDb
  <2>1. \A t \in Thread : t <= i => dbSlot'[t] = ver
    BY <1>1 DEF InstalledOK, FieldTypes, Thread
  <2> QED BY <2>1 DEF InstalledOK, Installed
<1>5. CASE InstallWork
  <2> USE <1>5 DEF InstallWork
  <2>1. \A t \in Thread : t < i' => workSlot'[t] = ver
    BY <1>1, <1>2 DEF InstalledOK, FieldTypes, ControlOK, Typed
  <2>2. cmd = "db" => \A t \in Thread : t < i' => dbSlot'[t] = ver
    BY <1>1, <1>2 DEF InstalledOK, Thread
  <2> QED BY <2>1, <2>2 DEF InstalledOK, Installed, ControlOK, Typed
<1> QED BY <1>3, <1>4, <1>5

LEMMA InstalledSleep ==
  ASSUME Typed, InstalledOK, SwapGlobal \/ SleepPerThread \/ Wake
  PROVE  InstalledOK'
<1>1. \A t \in Thread : t < NumThreads
  BY HotReloadAssumption DEF Thread
<1> QED
  BY <1>1 DEF InstalledOK, Installed, SwapGlobal, SleepPerThread, Wake, fields, spares

LEMMA InstalledFree ==
  ASSUME Typed, InstalledOK, FreeGlobal \/ FreeSingle \/ FreePerThread \/ AnswerPerThread
  PROVE  InstalledOK'
BY DEF InstalledOK, Installed, Answer, FreeGlobal, FreeSingle, FreePerThread, AnswerPerThread,
   fields, spares

LEMMA InstalledStep == Typed /\ InstalledOK /\ [Next]_vars => InstalledOK'
<1> SUFFICES ASSUME Typed, InstalledOK, [Next]_vars PROVE InstalledOK'
  OBVIOUS
<1>1. CASE (\E t \in Thread : Query(t)) \/ Dead \/ Tick \/ UNCHANGED vars
  <2>1. UNCHANGED installed
    BY <1>1 DEF Query, BeginRequest, ReadDb, ReadGlobal, ReadIface, EndRequest, Dead, Tick,
       installed, vars, fields, control, spares
  <2> QED BY <2>1, InstalledKept
<1> QED
  BY <1>1, InstalledStart, InstalledSingle, InstalledLoop, InstalledSleep, InstalledFree
  DEF Next, Progress

\* A command that was answered "success" took effect in every query thread: the
\* slots, the global company of each and its map hold what it built
\* (lab_common_svr.cpp:89-263), however long the requests are.
THEOREM Answered == Spec => []AnswerMeansInstalled
<1>1. Init => InstalledOK
  BY DEF Init, InstalledOK, Installed
<1>2. InstalledOK => AnswerMeansInstalled
  BY DEF InstalledOK, Installed, AnswerMeansInstalled
<1> QED BY TypedInit, TypedStep, InstalledStep, <1>1, <1>2, PTL DEF Spec

-----------------------------------------------------------------------------
(* What a request has read and reads next. *)

\* Slots and bindings only move to newer numbers.
Advance ==
  \A t \in Thread :
    /\ dbSlot[t] \in Int /\ dbSlot'[t] \in Int /\ dbSlot[t] <= dbSlot'[t]
    /\ Bound(t) \in Int /\ Bound(t)' \in Int /\ Bound(t) <= Bound(t)'

LEMMA NumbersAdvance ==
  ASSUME IInv, InstalledOK, [Next]_vars, Typed'
  PROVE  Advance
<1> SUFFICES ASSUME NEW t \in Thread
             PROVE  /\ dbSlot[t] \in Int /\ dbSlot'[t] \in Int /\ dbSlot[t] <= dbSlot'[t]
                    /\ Bound(t) \in Int /\ Bound(t)' \in Int /\ Bound(t) <= Bound(t)'
  BY DEF Advance
<1>1. /\ FieldTypes /\ FieldTypes' /\ SpareTypes /\ SpareTypes' /\ ControlTypes /\ ControlTypes'
      /\ ControlOK /\ ControlOK'
  BY DEF IInv, Typed, TypeOK
<1>2. t \in Int /\ NumThreads \in Int /\ t < NumThreads /\ 0 <= t
  BY HotReloadAssumption DEF Thread
<1>3. /\ dbSlot[t] \in Int /\ dbSlot'[t] \in Int /\ pGlobal \in Int /\ pGlobal' \in Int
      /\ spareGlobal \in Int /\ spareGlobal' \in Int /\ ver \in Int /\ i \in Int
  BY <1>1, HotReloadAssumption DEF FieldTypes, SpareTypes, VersionOrNil, Version, Nil, ControlTypes
<1>4. Bound(t) \in Int /\ Bound(t)' \in Int
  BY <1>3 DEF Bound
<1>5. dbSlot[t] <= ver
  BY <1>1 DEF IInv, NumbersOK, HeapOK, ThreadHeapOK, FieldTypes
<1>6. pGlobal <= ver
  BY <1>1 DEF IInv, NumbersOK, HeapOK, GlobalHeapOK, FieldTypes
<1>7. dbSlot[t] <= dbSlot'[t]
  <2>1. CASE InstallDb
    BY <1>1, <1>3, <1>5, <2>1 DEF InstallDb, FieldTypes
  <2>2. CASE ~InstallDb
    <3>1. dbSlot' = dbSlot
      BY <2>2 DEF Next, Progress, Query, BeginRequest, ReadDb, ReadGlobal, ReadIface,
         EndRequest, StartGlobal, StartPerThread, SwapSingle, InsertSingle, FailSingle,
         CrashSingle, InstallGlobal, SwapGlobal, InstallWork, SleepPerThread, Wake, FreeGlobal,
         FreeSingle, FreePerThread, AnswerPerThread, Dead, Tick, vars, fields
    <3> QED BY <1>3, <3>1
  <2> QED BY <2>1, <2>2
<1>8. Bound(t) <= Bound(t)'
  <2>1. CASE InstallGlobal
    <3>1. UNCHANGED <<pGlobal, spareGlobal, pc, cmd>> /\ i' = i + 1 /\ pGlobal <= spareGlobal
      BY <1>6, <2>1 DEF InstallGlobal, InstalledOK, spares
    <3> QED BY <1>2, <1>3, <3>1 DEF Bound
  <2>2. CASE SwapGlobal
    BY <1>2, <1>3, <2>2 DEF Bound, SwapGlobal
  <2>3. CASE StartGlobal
    BY <1>2, <1>3, <2>3 DEF Bound, StartGlobal
  <2>4. CASE ~InstallGlobal /\ ~SwapGlobal /\ ~StartGlobal
    <3>1. CASE pc = "install" /\ cmd = "global"
      <4>1. UNCHANGED <<pGlobal, spareGlobal, pc, cmd, i>>
        BY <2>4, <3>1, <1>1 DEF Next, Progress, Query, BeginRequest, ReadDb, ReadGlobal, ReadIface,
           EndRequest, StartPerThread, SwapSingle, InsertSingle, FailSingle,
           CrashSingle, InstallDb, InstallWork, SleepPerThread, Wake, FreeGlobal,
           FreeSingle, FreePerThread, AnswerPerThread, Dead, Tick, vars, fields, control, spares,
           ControlOK
      <4> QED BY <1>3, <4>1 DEF Bound
    <3>2. CASE ~(pc = "install" /\ cmd = "global")
      <4>1. pGlobal' = pGlobal
        BY <2>4 DEF Next, Progress, Query, BeginRequest, ReadDb, ReadGlobal, ReadIface,
           EndRequest, StartPerThread, SwapSingle, InsertSingle, FailSingle,
           CrashSingle, InstallDb, InstallWork, SleepPerThread, Wake, FreeGlobal,
           FreeSingle, FreePerThread, AnswerPerThread, Dead, Tick, vars, fields
      <4>2. ~(pc' = "install" /\ cmd' = "global")
        BY <1>1, <2>4, <3>2 DEF Next, Progress, Query, BeginRequest, ReadDb, ReadGlobal, ReadIface,
           EndRequest, StartPerThread, SwapSingle, InsertSingle, FailSingle,
           CrashSingle, InstallDb, InstallWork, SleepPerThread, Wake, FreeGlobal,
           FreeSingle, FreePerThread, AnswerPerThread, Dead, Tick, vars, control,
           Answer, ControlOK
      <4> QED BY <1>3, <3>2, <4>1, <4>2 DEF Bound
    <3> QED BY <3>1, <3>2
  <2> QED BY <2>1, <2>2, <2>3, <2>4
<1> QED BY <1>3, <1>4, <1>7, <1>8

\* A request that goes on has read what it had read and what it reads now.
LEMMA ReadsNext ==
  ASSUME IInv, [Next]_vars, NEW t \in Thread
  PROVE  /\ \A v \in heldDb'[t] \ heldDb[t] : v = dbSlot[t] /\ dbSlot' = dbSlot
         /\ \A g \in heldGlobal'[t] \ heldGlobal[t] : g = Bound(t) /\ Bound(t)' = Bound(t)
<1>1. FieldTypes /\ RequestTypes
  BY DEF IInv, TypeOK
<1>2. CASE \E u \in Thread : Query(u)
  <2>1. PICK u \in Thread : Query(u)
    BY <1>2
  <2>2. UNCHANGED <<dbSlot, pGlobal, spareGlobal, pc, cmd, i>>
    BY <2>1 DEF Query, BeginRequest, ReadDb, ReadGlobal, ReadIface, EndRequest, fields, control,
       spares
  <2>3. \A v \in heldDb'[t] \ heldDb[t] : v = dbSlot[t]
    BY <1>1, <2>1 DEF Query, BeginRequest, ReadDb, ReadGlobal, ReadIface, EndRequest, RequestTypes
  <2>4. \A g \in heldGlobal'[t] \ heldGlobal[t] : g = Bound(t)
    <3> SUFFICES ASSUME NEW g \in heldGlobal'[t] \ heldGlobal[t] PROVE g = Bound(t)
      OBVIOUS
    <3>1. PICK v \in heldDb[t] : g = globalOf[t][v]
      BY <1>1, <2>1 DEF Query, BeginRequest, ReadDb, ReadGlobal, ReadIface, EndRequest,
         RequestTypes
    <3>2. v \in Version /\ <<t, v>> \in dbs
      BY <1>1, <3>1 DEF RequestTypes, IInv, NoUseAfterFree
    <3> QED BY <3>1, <3>2 DEF IInv, BindingOK, Bound
  <2> QED BY <2>2, <2>3, <2>4 DEF Bound
<1>3. CASE ~\E u \in Thread : Query(u)
  <2>1. heldDb' = heldDb /\ heldGlobal' = heldGlobal
    BY <1>3 DEF Next, Progress, StartGlobal, StartPerThread, SwapSingle, InsertSingle, FailSingle,
       CrashSingle, InstallGlobal, SwapGlobal, InstallDb, InstallWork, SleepPerThread, Wake,
       FreeGlobal, FreeSingle, FreePerThread, AnswerPerThread, Dead, Tick, vars, requests, held
  <2> QED BY <2>1
<1> QED BY <1>2, <1>3

LEMMA ViewsStep ==
  ASSUME IInv, InstalledOK, ViewsOK, [Next]_vars, Typed'
  PROVE  ViewsOK'
<1>1. Advance
  BY NumbersAdvance
<1> SUFFICES ASSUME NEW t \in Thread
             PROVE  /\ \A v \in heldDb'[t] : v <= dbSlot'[t]
                    /\ \A g \in heldGlobal'[t] : g <= Bound(t)'
  BY DEF ViewsOK, Bound
<1>2. \A v \in Version : v \in Int
  BY DEF Version
<1>3. heldDb[t] \subseteq Version /\ heldGlobal[t] \subseteq Version
  BY DEF IInv, TypeOK, RequestTypes
<1>4. ASSUME NEW v \in heldDb'[t] PROVE v <= dbSlot'[t]
  <2>1. CASE v \in heldDb[t]
    <3>1. v \in Int /\ v <= dbSlot[t]
      BY <1>2, <1>3, <2>1 DEF ViewsOK
    <3> QED BY <1>1, <3>1 DEF Advance
  <2>2. CASE v \notin heldDb[t]
    BY <1>1, <1>4, <2>2, ReadsNext DEF Advance
  <2> QED BY <2>1, <2>2
<1>5. ASSUME NEW g \in heldGlobal'[t] PROVE g <= Bound(t)'
  <2>1. CASE g \in heldGlobal[t]
    <3>1. g \in Int /\ g <= Bound(t)
      BY <1>2, <1>3, <2>1 DEF ViewsOK
    <3> QED BY <1>1, <3>1 DEF Advance, Bound
  <2>2. CASE g \notin heldGlobal[t]
    <3>1. g = Bound(t) /\ Bound(t)' = Bound(t)
      BY <1>5, <2>2, ReadsNext DEF Bound
    <3> QED BY <1>1, <3>1 DEF Advance, Bound
  <2> QED BY <2>1, <2>2
<1> QED BY <1>4, <1>5

\* The data a request sees never go back: the DbCompany or GlobalDbCompany it
\* reads next is not older than one it has read, although it reads the slot
\* again at each use while the control thread swaps (thread_data.h, db_company.h).
\* Requests have to be shorter than the sleep: what is read in a deleted
\* DbCompany is anything.
THEOREM ViewsGoOn ==
  ASSUME MaxReq < SleepTime
  PROVE  Spec => ViewNeverGoesBack
<1>1. Init => InstalledOK /\ ViewsOK
  BY DEF Init, InstalledOK, Installed, ViewsOK
<1>2. IInv /\ [Next]_vars => IInv'
  BY InvStep
<1>3. IInv /\ InstalledOK /\ ViewsOK /\ [Next]_vars => InstalledOK' /\ ViewsOK'
  BY ViewsStep, InstalledStep, InvTyped, TypedStep
<1>4. IInv /\ ViewsOK /\ [Next]_vars =>
        [\A t \in Thread :
           /\ \A v \in heldDb[t], w \in heldDb'[t] \ heldDb[t] : v <= w
           /\ \A v \in heldGlobal[t], w \in heldGlobal'[t] \ heldGlobal[t] : v <= w]_vars
  BY ReadsNext DEF ViewsOK
<1> QED BY InvInit, <1>1, <1>2, <1>3, <1>4, PTL DEF Spec, ViewNeverGoesBack

-----------------------------------------------------------------------------
(* The refinement. *)

\* What the abstract objects are made of has its type.
LEMMA LiveAreObjects ==
  ASSUME HeapTypes
  PROVE  Live \subseteq Objects
BY DEF HeapTypes, Live, Objects, Tagged

\* What can be reached is allocated, and what a request holds too.
LEMMA ReachableAreLive == IInv => Reachable \subseteq Live
<1> SUFFICES ASSUME IInv PROVE Reachable \subseteq Live
  OBVIOUS
<1>1. FieldsPointToLive
  BY InvLive
<1>2. /\ FieldTypes
      /\ \A t \in Thread : globalOf[t][dbSlot[t]] \in globals
  BY <1>1 DEF IInv, TypeOK, FieldsPointToLive
<1>3. \A g \in {pGlobal} \cup {globalOf[t][dbSlot[t]] : t \in Thread} :
        g \in globals /\ OwnedIfaces(g) \subseteq ifaces
  BY <1>1, <1>2 DEF FieldsPointToLive
<1> QED BY <1>1, <1>3 DEF FieldsPointToLive, Reachable, Live, Tagged

LEMMA ReachableStayLive == IInv' => (Reachable \subseteq Live)'
BY ReachableAreLive, PTL

LEMMA HeldAreLive ==
  ASSUME NoUseAfterFree, NEW t \in Thread
  PROVE  Holds[t] \subseteq Live
BY DEF NoUseAfterFree, Holds, Live, Tagged

LEMMA InitImplements == Init => Reclaim!Init
<1> SUFFICES ASSUME Init PROVE Reclaim!Init
  OBVIOUS
<1>1. IInv /\ HeapTypes
  BY InvInit DEF IInv, TypeOK
<1>2. Holds = [t \in Thread |-> {}]
  BY DEF Init, Holds, Tagged
<1> QED BY <1>1, <1>2, LiveAreObjects, ReachableAreLive DEF Reclaim!Init

\* One more pointer of thread t is one more abstract object held.
LEMMA HoldsPlus ==
  ASSUME NEW t \in Thread, NEW o,
         \A u \in Thread \ {t} : Holds'[u] = Holds[u],
         Holds'[t] = Holds[t] \cup {o}
  PROVE  Holds' = [Holds EXCEPT ![t] = @ \cup {o}]
BY DEF Holds

\* A step of a query thread follows a pointer, drops all, or finds nothing.
LEMMA QueryImplements ==
  ASSUME IInv, NEW t \in Thread, Query(t)
  PROVE  Reclaim!Acquire(t) \/ Reclaim!Release(t)
<1>1. UNCHANGED <<heap, fields>>
  BY DEF Query, BeginRequest, ReadDb, ReadGlobal, ReadIface, EndRequest
<1>2. Live' = Live /\ Reachable' = Reachable
  BY <1>1 DEF heap, fields, Live, Reachable, OwnedIfaces
<1>3. RequestTypes /\ FieldTypes /\ FieldsPointToLive /\ IInv'
  BY InvLive, QueryInv DEF IInv, TypeOK
<1>4. \A u \in Thread : Holds'[u] \subseteq Live'
  BY <1>3, HeldAreLive DEF IInv, NoUseAfterFree, Holds, Live, Tagged
<1> DEFINE Got(o) == Holds' = [Holds EXCEPT ![t] = @ \cup {o}]
<1>10. \A u \in Thread \ {t} : Holds'[u] = Holds[u]
  BY <1>3 DEF Query, BeginRequest, ReadDb, ReadGlobal, ReadIface, EndRequest, RequestTypes, Holds
<1>5. CASE BeginRequest(t)
  <2> DEFINE o == <<"work", <<t, workSlot[t]>>>>
  <2>1. {t} \X heldWork'[t] = ({t} \X heldWork[t]) \cup {<<t, workSlot[t]>>}
    BY <1>3, <1>5 DEF BeginRequest, Busy, RequestTypes
  <2>2. UNCHANGED <<heldDb, heldGlobal, heldIface>>
    BY <1>5 DEF BeginRequest
  <2>3. Holds'[t] = Holds[t] \cup {o}
    <3>1. Tagged("work", {t} \X heldWork'[t]) = Tagged("work", {t} \X heldWork[t]) \cup {o}
      BY <2>1 DEF Tagged
    <3> QED BY <2>2, <3>1 DEF Holds
  <2>4. Got(o)
    BY <1>10, <2>3, HoldsPlus
  <2>5. o \in Live
    BY <1>3 DEF FieldsPointToLive, Live, Tagged
  <2> QED BY <1>2, <2>4, <2>5 DEF Reclaim!Acquire
<1>6. CASE ReadDb(t)
  <2> DEFINE o == <<"db", <<t, dbSlot[t]>>>>
  <2>1. {t} \X heldDb'[t] = ({t} \X heldDb[t]) \cup {<<t, dbSlot[t]>>}
    BY <1>3, <1>6 DEF ReadDb, RequestTypes
  <2>2. UNCHANGED <<heldWork, heldGlobal, heldIface>>
    BY <1>6 DEF ReadDb
  <2>3. Holds'[t] = Holds[t] \cup {o}
    <3>1. Tagged("db", {t} \X heldDb'[t]) = Tagged("db", {t} \X heldDb[t]) \cup {o}
      BY <2>1 DEF Tagged
    <3> QED BY <2>2, <3>1 DEF Holds
  <2>4. Got(o)
    BY <1>10, <2>3, HoldsPlus
  <2>5. o \in Live
    BY <1>3 DEF FieldsPointToLive, Live, Tagged
  <2> QED BY <1>2, <2>4, <2>5 DEF Reclaim!Acquire
<1>7. CASE ReadGlobal(t)
  <2>1. PICK v \in heldDb[t] :
          heldGlobal' = [heldGlobal EXCEPT ![t] = @ \cup {globalOf[t][v]}]
    BY <1>7 DEF ReadGlobal
  <2> DEFINE o == <<"global", globalOf[t][v]>>
  <2>2. UNCHANGED <<heldWork, heldDb, heldIface>>
    BY <1>7 DEF ReadGlobal
  <2>3. heldGlobal'[t] = heldGlobal[t] \cup {globalOf[t][v]}
    BY <1>3, <2>1 DEF RequestTypes
  <2>4. Holds'[t] = Holds[t] \cup {o}
    <3>1. Tagged("global", heldGlobal'[t]) = Tagged("global", heldGlobal[t]) \cup {o}
      BY <2>3 DEF Tagged
    <3> QED BY <2>2, <3>1 DEF Holds
  <2>5. Got(o)
    BY <1>10, <2>4, HoldsPlus
  <2>6. o \in Live
    BY <1>3, <2>1 DEF IInv, NoUseAfterFree, FieldsPointToLive, Live, Tagged
  <2> QED BY <1>2, <2>5, <2>6 DEF Reclaim!Acquire
<1>8. CASE ReadIface(t)
  <2>1. PICK g \in heldGlobal[t], d \in DbNames :
          heldIface' = [heldIface EXCEPT ![t] = @ \cup {<<d, ifaceOf[g][d]>>}]
    BY <1>8 DEF ReadIface
  <2> DEFINE o == <<"iface", <<d, ifaceOf[g][d]>>>>
  <2>2. UNCHANGED <<heldWork, heldDb, heldGlobal>>
    BY <1>8 DEF ReadIface
  <2>3. heldIface'[t] = heldIface[t] \cup {<<d, ifaceOf[g][d]>>}
    BY <1>3, <2>1 DEF RequestTypes
  <2>4. Holds'[t] = Holds[t] \cup {o}
    <3>1. Tagged("iface", heldIface'[t]) = Tagged("iface", heldIface[t]) \cup {o}
      BY <2>3 DEF Tagged
    <3> QED BY <2>2, <3>1 DEF Holds
  <2>5. Got(o)
    BY <1>10, <2>4, HoldsPlus
  <2>6. <<d, ifaceOf[g][d]>> \in ifaces
    BY <1>1, <1>3, <2>3 DEF IInv, NoUseAfterFree, heap
  <2>7. o \in Live
    BY <2>6 DEF Live, Tagged
  <2> QED BY <1>2, <2>5, <2>7 DEF Reclaim!Acquire
<1>9. CASE EndRequest(t)
  <2>1. Holds' = [Holds EXCEPT ![t] = {}]
    BY <1>3, <1>9 DEF EndRequest, RequestTypes, Holds, Tagged
  <2> QED BY <1>2, <2>1 DEF Reclaim!Release
<1> QED BY <1>5, <1>6, <1>7, <1>8, <1>9 DEF Query

\* A step that deletes nothing and leaves the requests alone.
LEMMA UpdateImplements ==
  ASSUME IInv', UNCHANGED held,
         globals \subseteq globals', ifaces \subseteq ifaces', dbs \subseteq dbs',
         works \subseteq works'
  PROVE  Reclaim!Update
<1>1. HeapTypes'
  BY DEF IInv, TypeOK
<1>2. Live' \subseteq Objects'
  BY <1>1 DEF HeapTypes, Live, Objects, Tagged
<1>3. Objects' = Objects
  BY DEF Objects, Version, Thread
<1>4. Live \subseteq Live'
  BY DEF Live, Tagged
<1>5. Reachable' \subseteq Live'
  BY ReachableStayLive
<1>6. Holds' = Holds
  BY DEF held, Holds
<1> QED BY <1>2, <1>3, <1>4, <1>5, <1>6 DEF Reclaim!Update

\* A step that only deletes.
LEMMA FreeImplements ==
  ASSUME IInv', UNCHANGED held, UNCHANGED fields,
         globals' \subseteq globals, ifaces' \subseteq ifaces, dbs' \subseteq dbs,
         works' \subseteq works
  PROVE  Reclaim!Reclaim
<1>1. Live' \subseteq Live
  BY DEF Live, Tagged
<1>2. Reachable' = Reachable
  BY DEF fields, Reachable, OwnedIfaces
<1>3. Reachable' \subseteq Live'
  BY ReachableStayLive
<1>4. Holds' = Holds
  BY DEF held, Holds
<1>5. \A t \in Thread : Holds'[t] \subseteq Live'
  BY DEF IInv, NoUseAfterFree, Holds, Live, Tagged
<1> QED BY <1>1, <1>2, <1>3, <1>4, <1>5 DEF Reclaim!Reclaim

LEMMA StepImplements ==
  ASSUME IInv, IInv', [Next]_vars
  PROVE  [Reclaim!Next]_(Reclaim!vars)
<1>1. CASE \E t \in Thread : Query(t)
  BY <1>1, QueryImplements DEF Reclaim!Next
<1>2. CASE FreeGlobal \/ FreeSingle \/ FreePerThread
  <2>1. /\ UNCHANGED held /\ UNCHANGED fields
        /\ globals' \subseteq globals /\ ifaces' \subseteq ifaces /\ dbs' \subseteq dbs
        /\ works' \subseteq works
    BY <1>2 DEF FreeGlobal, FreeSingle, FreePerThread, requests
  <2> QED BY <2>1, FreeImplements DEF Reclaim!Next
<1>3. CASE ~(\E t \in Thread : Query(t)) /\ ~(FreeGlobal \/ FreeSingle \/ FreePerThread)
  <2>1. UNCHANGED held
    BY <1>3 DEF Next, Progress, StartGlobal, StartPerThread, SwapSingle, InsertSingle, FailSingle,
       CrashSingle, InstallGlobal, SwapGlobal, InstallDb, InstallWork, SleepPerThread, Wake,
       AnswerPerThread, Dead, Tick, vars, requests
  <2>2. /\ globals \subseteq globals' /\ ifaces \subseteq ifaces' /\ dbs \subseteq dbs'
        /\ works \subseteq works'
    BY <1>3 DEF Next, Progress, StartGlobal, StartPerThread, SwapSingle, InsertSingle, FailSingle,
       CrashSingle, InstallGlobal, SwapGlobal, InstallDb, InstallWork, SleepPerThread, Wake,
       AnswerPerThread, Dead, Tick, vars, heap
  <2> QED BY <2>1, <2>2, UpdateImplements DEF Reclaim!Next
<1> QED BY <1>1, <1>2, <1>3

\* The server implements SafeReclaim: an object is deleted only when no slot
\* leads to it and no request holds it (lab_common_svr.cpp:38-263), as long as
\* requests are shorter than the sleep.
THEOREM Implements ==
  ASSUME MaxReq < SleepTime
  PROVE  Spec => ImplementsSafeReclaim
<1>1. IInv /\ IInv' /\ [Next]_vars => [Reclaim!Next]_(Reclaim!vars)
  BY StepImplements
<1>2. Spec => []IInv
  BY Inductive
<1> QED BY InitImplements, <1>1, <1>2, PTL DEF Spec, ImplementsSafeReclaim, Reclaim!Spec
=============================================================================
