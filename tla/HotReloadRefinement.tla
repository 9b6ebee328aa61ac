------------------------- MODULE HotReloadRefinement -------------------------
(* HotReload implements SafeReclaim: the four kinds of objects of the server  *)
(* are the objects, the query threads are the readers, and the control        *)
(* thread is the writer.                                                      *)
EXTENDS HotReloadInv

Tagged(kind, S) == {<<kind, o>> : o \in S}

Objects ==
  Tagged("global", Version) \cup Tagged("iface", DbNames \X Version) \cup
  Tagged("db", Thread \X Version) \cup Tagged("work", Thread \X Version)

Live ==
  Tagged("global", globals) \cup Tagged("iface", ifaces) \cup
  Tagged("db", dbs) \cup Tagged("work", works)

\* What a request that begins now can reach.
Reachable ==
  LET gs == {pGlobal} \cup {globalOf[t][dbSlot[t]] : t \in Thread}
  IN  Tagged("global", gs) \cup
      Tagged("iface", UNION {OwnedIfaces(g) : g \in gs}) \cup
      Tagged("db", {<<t, dbSlot[t]>> : t \in Thread}) \cup
      Tagged("work", {<<t, workSlot[t]>> : t \in Thread})

Holds ==
  [t \in Thread |->
     Tagged("global", heldGlobal[t]) \cup Tagged("iface", heldIface[t]) \cup
     Tagged("db", {t} \X heldDb[t]) \cup Tagged("work", {t} \X heldWork[t])]

Reclaim == INSTANCE SafeReclaim
  WITH Object <- Objects, Reader <- Thread,
       live <- Live, published <- Reachable, holds <- Holds

\* The server keeps the promise of SafeReclaim: objects are deleted only when
\* no slot leads to them and no request holds them.
ImplementsSafeReclaim == Reclaim!Spec
=============================================================================
