---------------------------- MODULE HotReloadInv ----------------------------
(***************************************************************************)
(* The inductive invariant of HotReload: what each part of the heap is for *)
(* at every step of a command, and the argument of the grace period: while *)
(* the control thread sleeps, whoever still holds a retired object began   *)
(* before the sleep did.                                                   *)
(***************************************************************************)
EXTENDS HotReload

Working == pc \notin {"idle", "dead"}

\* Which locals of the control thread are in use where.
ControlOK ==
  /\ Working => cmd # "none"
  /\ pc = "install" => cmd \in {"global", "db", "work"}
  /\ pc = "installWork" => cmd = "db" /\ i < NumThreads
  /\ pc = "sleep" /\ cmd \in {"db", "work"} => i = 0
  /\ (spareGlobal # Nil) <=> (Working /\ cmd = "global")
  /\ spareIface # {} => pc \in {"sleep", "free"} /\ cmd = "single"
  /\ \A t \in Thread :
       /\ spareDb[t] # Nil =>
            /\ Working /\ cmd = "db"
            /\ pc = "install" => t < i
            /\ pc = "installWork" => t <= i
       /\ spareWork[t] # Nil =>
            /\ Working /\ cmd \in {"db", "work"}
            /\ pc \in {"install", "installWork"} => t < i
       /\ pc = "free" /\ t < i => spareDb[t] = Nil /\ spareWork[t] = Nil

\* The next command's number is new; during the loops, this command's number
\* is still new for the threads that are to come.
NumbersOK ==
  /\ \A g \in globals : g <= ver
  /\ \A d \in DbNames, v \in Version : <<d, v>> \in ifaces => v <= ver
  /\ \A t \in Thread, v \in Version : <<t, v>> \in dbs \cup works => v <= ver
  /\ \A t \in Thread :
       /\ pc = "install" /\ cmd = "db" /\ i <= t => dbSlot[t] < ver
       /\ pc = "installWork" /\ i < t => dbSlot[t] < ver
       /\ pc \in {"install", "installWork"} /\ cmd \in {"db", "work"} /\ i <= t
            => workSlot[t] < ver

\* The heap holds what the slots lead to and the spares, nothing else, and no
\* spare is in a slot: the global companies, the interfaces, and the companies
\* of each thread.
GlobalHeapOK ==
  /\ \A g \in Version : g \in globals <=> (g = pGlobal \/ g = spareGlobal)
  /\ spareGlobal # pGlobal

IfaceHeapOK ==
  \A d \in DbNames :
    /\ \A v \in Version :
         <<d, v>> \in ifaces <=>
           \/ ifaceOf[pGlobal][d] = v
           \/ spareGlobal # Nil /\ ifaceOf[spareGlobal][d] = v
           \/ <<d, v>> \in spareIface
    /\ spareGlobal # Nil /\ ifaceOf[pGlobal][d] # Nil
         => ifaceOf[pGlobal][d] # ifaceOf[spareGlobal][d]
    /\ <<d, ifaceOf[pGlobal][d]>> \notin spareIface

ThreadHeapOK ==
  \A t \in Thread :
    /\ \A v \in Version :
         /\ <<t, v>> \in dbs <=> (v = dbSlot[t] \/ v = spareDb[t])
         /\ <<t, v>> \in works <=> (v = workSlot[t] \/ v = spareWork[t])
    /\ dbSlot[t] # spareDb[t] /\ workSlot[t] # spareWork[t]

HeapOK == GlobalHeapOK /\ IfaceHeapOK /\ ThreadHeapOK

\* Every DbCompany is bound to the published GlobalDbCompany, or to the new one
\* where the loop of update_global has passed.
BindingOK ==
  \A t \in Thread, v \in Version :
    <<t, v>> \in dbs =>
      globalOf[t][v] =
        IF pc = "install" /\ cmd = "global" /\ t < i THEN spareGlobal ELSE pGlobal

IdleHoldsNothing ==
  \A t \in Thread :
    ~Busy(t) => heldDb[t] = {} /\ heldGlobal[t] = {} /\ heldIface[t] = {}

\* The current request of t holds an object that is to be deleted.
HoldsRetired(t) ==
  \/ spareGlobal \in heldGlobal[t]
  \/ heldIface[t] \cap spareIface # {}
  \/ spareGlobal # Nil /\ heldIface[t] \cap OwnedIfaces(spareGlobal) # {}
  \/ spareDb[t] \in heldDb[t]
  \/ spareWork[t] \in heldWork[t]

\* The grace period.
GraceOK ==
  \A t \in Thread :
    HoldsRetired(t) =>
      /\ pc # "free"
      /\ pc = "sleep" => slept <= elapsed[t]

IInv ==
  /\ TypeOK
  /\ ControlOK
  /\ NumbersOK
  /\ HeapOK
  /\ BindingOK
  /\ IdleHoldsNothing
  /\ NoUseAfterFree
  /\ GraceOK

-----------------------------------------------------------------------------
\* The command has put what it built in place, and may have been answered.
Installed == pc \in {"sleep", "free"} \/ (pc = "idle" /\ reply = "success")

\* Where the loops of a command have passed, what it built is in place.
InstalledOK ==
  /\ pc = "install" /\ cmd = "global" => spareGlobal = ver
  /\ cmd = "single" /\ Installed => \E d \in DbNames : ifaceOf[pGlobal][d] = ver
  /\ \A t \in Thread :
       /\ cmd = "global" /\ (Installed \/ (pc = "install" /\ t < i))
            => globalOf[t][dbSlot[t]] = ver
       /\ cmd = "db" /\ \/ Installed
                        \/ pc = "install" /\ t < i
                        \/ pc = "installWork" /\ t <= i
            => dbSlot[t] = ver
       /\ cmd \in {"db", "work"} /\ (Installed \/ (pc \in {"install", "installWork"} /\ t < i))
            => workSlot[t] = ver

\* The GlobalDbCompany that every DbCompany of thread t is bound to.
Bound(t) == IF pc = "install" /\ cmd = "global" /\ t < i THEN spareGlobal ELSE pGlobal

\* What a request has read is not newer than what it would read next.
ViewsOK ==
  \A t \in Thread :
    /\ \A v \in heldDb[t] : v <= dbSlot[t]
    /\ \A g \in heldGlobal[t] : g <= Bound(t)
=============================================================================
