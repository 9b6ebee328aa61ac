------------------------------ MODULE HotReload ------------------------------
(***************************************************************************)
(* Hot reload of the online service (src/program/src/lab_common_svr.cpp).  *)
(*                                                                         *)
(* Every query thread t owns a thread_data_t with two slots, the           *)
(* DbCompany and the WorkCompany it serves requests with.  All threads     *)
(* share one GlobalDbCompany, a map from database names to                 *)
(* GlobalDbInterface objects.  One control thread executes update_work,    *)
(* update_db, update_global and the update of a single global database,    *)
(* one command at a time: it builds new objects, swaps them into the slots *)
(* without a lock, sleeps SLEEP_TIME and deletes the old objects.          *)
(*                                                                         *)
(* An object is named by the number of the command that built it (0 is     *)
(* the start of the process): a DbCompany or WorkCompany by its thread and *)
(* that number, a GlobalDbInterface by its database and that number.  A    *)
(* name is never reused, so a pointer to a deleted object stays visible as *)
(* a name that is no longer in the heap.                                   *)
(***************************************************************************)
EXTENDS Integers, FiniteSets

CONSTANTS
  NumThreads,  \* g_conf.thread_num: query threads, each with its own slots
  DbNames,     \* the names a global_db_config.ini may list
  SleepTime,   \* SLEEP_TIME, in ticks
  MaxReq,      \* a request is over within MaxReq ticks (environment)
  MaxCmd       \* bound on the number of commands

ASSUME HotReloadAssumption ==
  /\ NumThreads \in Nat \ {0}
  /\ SleepTime \in Nat
  /\ MaxReq \in Nat
  /\ MaxCmd \in Nat

Thread  == 0 .. NumThreads - 1
Version == 0 .. MaxCmd
Nil     == -1
VersionOrNil == Version \cup {Nil}

VARIABLES
  \* The heap: the objects that are allocated and not yet deleted.
  globals,     \* GlobalDbCompany
  ifaces,      \* GlobalDbInterface, pairs <<name, version>>
  dbs,         \* DbCompany, pairs <<thread, version>>
  works,       \* WorkCompany, pairs <<thread, version>>
  \* The fields through which objects are reached.
  pGlobal,     \* p_global_db_company
  ifaceOf,     \* map_global_db_interface_ of each GlobalDbCompany
  globalOf,    \* global_db_company_ of each DbCompany
  dbSlot,      \* thread_data_t.db_company_
  workSlot,    \* thread_data_t.work_company_
  \* The control thread.
  ver,         \* number of the last command that built objects
  pc, cmd,     \* where the command is, and which one it is or was
  i,           \* loop counter of the update functions
  slept,       \* how long sleep(SLEEP_TIME) has lasted
  spareGlobal, \* p_new_global_db_company: first the new, then the old one
  spareIface,  \* p_new_db_interface after the swap: {} or the old one
  spareDb,     \* db_company_array
  spareWork,   \* work_company_array
  reply,       \* what the last command was answered
  \* The query threads: the raw pointers the current request has read.
  elapsed, heldWork, heldDb, heldGlobal, heldIface

heap     == <<globals, ifaces, dbs, works>>
fields   == <<pGlobal, ifaceOf, globalOf, dbSlot, workSlot>>
spares   == <<spareGlobal, spareIface, spareDb, spareWork>>
control  == <<ver, pc, cmd, i, slept, spares, reply>>
held     == <<heldWork, heldDb, heldGlobal, heldIface>>
requests == <<elapsed, held>>
vars     == <<heap, fields, control, requests>>

HeapTypes ==
  /\ globals \in SUBSET Version
  /\ ifaces \in SUBSET (DbNames \X Version)
  /\ dbs \in SUBSET (Thread \X Version)
  /\ works \in SUBSET (Thread \X Version)

FieldTypes ==
  /\ pGlobal \in Version
  /\ ifaceOf \in [Version -> [DbNames -> VersionOrNil]]
  /\ globalOf \in [Thread -> [Version -> Version]]
  /\ dbSlot \in [Thread -> Version]
  /\ workSlot \in [Thread -> Version]

SpareTypes ==
  /\ spareGlobal \in VersionOrNil
  /\ spareIface \in SUBSET (DbNames \X Version)
  /\ spareDb \in [Thread -> VersionOrNil]
  /\ spareWork \in [Thread -> VersionOrNil]

ControlTypes ==
  /\ ver \in Version
  /\ pc \in {"idle", "install", "installWork", "sleep", "free", "dead"}
  /\ cmd \in {"none", "global", "single", "db", "work"}
  /\ i \in 0 .. NumThreads
  /\ slept \in 0 .. SleepTime
  /\ reply \in {"none", "success", "fail"}

RequestTypes ==
  /\ elapsed \in [Thread -> 0 .. MaxReq]
  /\ heldWork \in [Thread -> SUBSET Version]
  /\ heldDb \in [Thread -> SUBSET Version]
  /\ heldGlobal \in [Thread -> SUBSET Version]
  /\ heldIface \in [Thread -> SUBSET (DbNames \X Version)]

TypeOK == HeapTypes /\ FieldTypes /\ SpareTypes /\ ControlTypes /\ RequestTypes

-----------------------------------------------------------------------------
(* The state main() reaches before it starts the two servers. *)

\* The map that GlobalDbCompany::load_config builds as command v, when the
\* databases in S are listed and usable.
LoadedMap(S, v) == [d \in DbNames |-> IF d \in S THEN v ELSE Nil]

\* The interfaces a GlobalDbCompany owns: its destructor deletes them.
OwnedIfaces(g) == {<<d, ifaceOf[g][d]>> : d \in {e \in DbNames : ifaceOf[g][e] # Nil}}

NoSpare == [t \in Thread |-> Nil]

Init ==
  /\ \E S \in SUBSET DbNames :
       /\ ifaceOf = [v \in Version |-> LoadedMap(IF v = 0 THEN S ELSE {}, v)]
       /\ ifaces = S \X {0}
  /\ globals = {0} /\ pGlobal = 0
  /\ dbs = Thread \X {0} /\ works = Thread \X {0}
  /\ globalOf = [t \in Thread |-> [v \in Version |-> 0]]
  /\ dbSlot = [t \in Thread |-> 0] /\ workSlot = [t \in Thread |-> 0]
  /\ ver = 0 /\ pc = "idle" /\ cmd = "none" /\ i = 0 /\ slept = 0
  /\ spareGlobal = Nil /\ spareIface = {}
  /\ spareDb = NoSpare /\ spareWork = NoSpare
  /\ reply = "none"
  /\ elapsed = [t \in Thread |-> 0]
  /\ heldWork = [t \in Thread |-> {}]
  /\ heldDb = [t \in Thread |-> {}]
  /\ heldGlobal = [t \in Thread |-> {}]
  /\ heldIface = [t \in Thread |-> {}]

-----------------------------------------------------------------------------
(* Query threads. *)

Busy(t) == heldWork[t] # {}
Up      == pc # "dead"

\* query_req_handle reads thr->work_company_ once and calls work_core on it.
BeginRequest(t) ==
  /\ Up /\ ~Busy(t)
  /\ heldWork' = [heldWork EXCEPT ![t] = {workSlot[t]}]
  /\ elapsed' = [elapsed EXCEPT ![t] = 0]
  /\ UNCHANGED <<heap, fields, control, heldDb, heldGlobal, heldIface>>

\* A work interface holds a reference to the slot, not to the DbCompany: each
\* use reads the slot again.  The DbInterface buffers it gets results in
\* belong to the DbCompany, so the pointer counts as held to the end.
ReadDb(t) ==
  /\ Up /\ Busy(t)
  /\ heldDb' = [heldDb EXCEPT ![t] = @ \cup {dbSlot[t]}]
  /\ UNCHANGED <<heap, fields, control, elapsed, heldWork, heldGlobal, heldIface>>

\* DbCompany::get_global_db_company.
ReadGlobal(t) ==
  /\ Up
  /\ \E v \in heldDb[t] :
       heldGlobal' = [heldGlobal EXCEPT ![t] = @ \cup {globalOf[t][v]}]
  /\ UNCHANGED <<heap, fields, control, elapsed, heldWork, heldDb, heldIface>>

\* GlobalDbCompany::get_global_db_interface: NULL when the name is not loaded.
ReadIface(t) ==
  /\ Up
  /\ \E g \in heldGlobal[t], d \in DbNames :
       /\ ifaceOf[g][d] # Nil
       /\ heldIface' = [heldIface EXCEPT ![t] = @ \cup {<<d, ifaceOf[g][d]>>}]
  /\ UNCHANGED <<heap, fields, control, elapsed, heldWork, heldDb, heldGlobal>>

\* query_req_handle returns, after any of work_core's paths: every pointer of
\* the request is dropped.
EndRequest(t) ==
  /\ Up /\ Busy(t)
  /\ heldWork' = [heldWork EXCEPT ![t] = {}]
  /\ heldDb' = [heldDb EXCEPT ![t] = {}]
  /\ heldGlobal' = [heldGlobal EXCEPT ![t] = {}]
  /\ heldIface' = [heldIface EXCEPT ![t] = {}]
  /\ elapsed' = [elapsed EXCEPT ![t] = 0]
  /\ UNCHANGED <<heap, fields, control>>

-----------------------------------------------------------------------------
(* The control thread: control_req_handle dispatches one command at a time. *)

Answer(r) == pc' = "idle" /\ reply' = r

\* update_global_handle_data: new GlobalDbCompany and its load_config, whose
\* failures are ignored; S is what could be loaded.
StartGlobal ==
  /\ pc = "idle" /\ ver < MaxCmd
  /\ ver' = ver + 1 /\ cmd' = "global" /\ pc' = "install" /\ i' = 0
  /\ globals' = globals \cup {ver + 1}
  /\ spareGlobal' = ver + 1
  /\ \E S \in SUBSET DbNames :
       /\ ifaceOf' = [ifaceOf EXCEPT ![ver + 1] = LoadedMap(S, ver + 1)]
       /\ ifaces' = ifaces \cup (S \X {ver + 1})
  /\ UNCHANGED <<dbs, works, pGlobal, globalOf, dbSlot, workSlot, slept,
                 spareIface, spareDb, spareWork, reply, requests>>

\* Its loop over the threads: thr->db_company_->initialize(new company).
InstallGlobal ==
  /\ pc = "install" /\ cmd = "global" /\ i < NumThreads
  /\ globalOf' = [globalOf EXCEPT ![i][dbSlot[i]] = spareGlobal]
  /\ i' = i + 1
  /\ UNCHANGED <<heap, pGlobal, ifaceOf, dbSlot, workSlot, ver, pc, cmd, slept,
                 spares, reply, requests>>

\* Variant of SwapGlobal: the loop stops one thread early.
SwapGlobalEarly ==
  /\ pc = "install" /\ cmd = "global" /\ i = NumThreads - 1
  /\ pGlobal' = spareGlobal /\ spareGlobal' = pGlobal
  /\ pc' = "sleep" /\ slept' = 0 /\ i' = 0
  /\ UNCHANGED <<heap, ifaceOf, globalOf, dbSlot, workSlot, ver, cmd,
                 spareIface, spareDb, spareWork, reply, requests>>

\* Variant of SwapGlobal: the swap is missing, the new company is deleted.
SwapGlobalMissing ==
  /\ pc = "install" /\ cmd = "global" /\ i = NumThreads
  /\ pc' = "sleep" /\ slept' = 0 /\ i' = 0
  /\ UNCHANGED <<heap, fields, ver, cmd, spares, reply, requests>>

\* std::swap(p_global_db_company, p_new_global_db_company), then sleep.
SwapGlobal ==
  /\ pc = "install" /\ cmd = "global" /\ i = NumThreads
  /\ pGlobal' = spareGlobal /\ spareGlobal' = pGlobal
  /\ pc' = "sleep" /\ slept' = 0 /\ i' = 0
  /\ UNCHANGED <<heap, ifaceOf, globalOf, dbSlot, workSlot, ver, cmd,
                 spareIface, spareDb, spareWork, reply, requests>>

\* Variant of SwapSingle: does not look whether the name is in the map.
SwapSingleUnchecked(d) ==
  /\ pc = "idle" /\ ver < MaxCmd
  /\ ver' = ver + 1 /\ cmd' = "single" /\ pc' = "sleep" /\ slept' = 0
  /\ ifaces' = ifaces \cup {<<d, ver + 1>>}
  /\ spareIface' = {<<d, ifaceOf[pGlobal][d]>>}
  /\ ifaceOf' = [ifaceOf EXCEPT ![pGlobal][d] = ver + 1]
  /\ UNCHANGED <<globals, dbs, works, pGlobal, globalOf, dbSlot, workSlot, i,
                 spareGlobal, spareDb, spareWork, reply, requests>>

\* update_global_single_handle_data on a name the map holds: the interface is
\* rebuilt from its stored description and swapped in, then sleep.
SwapSingle(d) ==
  /\ pc = "idle" /\ ver < MaxCmd /\ ifaceOf[pGlobal][d] # Nil
  /\ ver' = ver + 1 /\ cmd' = "single" /\ pc' = "sleep" /\ slept' = 0
  /\ ifaces' = ifaces \cup {<<d, ver + 1>>}
  /\ spareIface' = {<<d, ifaceOf[pGlobal][d]>>}
  /\ ifaceOf' = [ifaceOf EXCEPT ![pGlobal][d] = ver + 1]
  /\ UNCHANGED <<globals, dbs, works, pGlobal, globalOf, dbSlot, workSlot, i,
                 spareGlobal, spareDb, spareWork, reply, requests>>

\* ... on a new name: inserted in the map, answered at once, nothing to free.
InsertSingle(d) ==
  /\ pc = "idle" /\ ver < MaxCmd /\ ifaceOf[pGlobal][d] = Nil
  /\ ver' = ver + 1 /\ cmd' = "single" /\ Answer("success")
  /\ ifaces' = ifaces \cup {<<d, ver + 1>>}
  /\ ifaceOf' = [ifaceOf EXCEPT ![pGlobal][d] = ver + 1]
  /\ UNCHANGED <<globals, dbs, works, pGlobal, globalOf, dbSlot, workSlot, i,
                 slept, spares, requests>>

\* ... on a new name whose description cannot be read: -1, "fail".
FailSingle(d) ==
  /\ pc = "idle" /\ ifaceOf[pGlobal][d] = Nil
  /\ cmd' = "single" /\ Answer("fail")
  /\ UNCHANGED <<heap, fields, ver, i, slept, spares, requests>>

\* ... on a new name of an unknown DB_TYPE: the factory returns NULL and
\* load_db_config is called on it (global_db_company.h:86-88).
CrashSingle(d) ==
  /\ pc = "idle" /\ ifaceOf[pGlobal][d] = Nil
  /\ pc' = "dead" /\ cmd' = "single"
  /\ UNCHANGED <<heap, fields, ver, i, slept, spares, reply, requests>>

\* The process is gone.  The one that bin/saferun starts in its place begins
\* at Init again: it is another behaviour of this specification.
Dead == pc = "dead" /\ UNCHANGED vars

\* update_db_handle_data and update_work_handle_data start their loops.
StartPerThread ==
  /\ pc = "idle" /\ ver < MaxCmd
  /\ cmd' \in {"db", "work"}
  /\ ver' = ver + 1 /\ pc' = "install" /\ i' = 0
  /\ spareDb' = NoSpare /\ spareWork' = NoSpare
  /\ UNCHANGED <<heap, fields, slept, spareGlobal, spareIface, reply, requests>>

\* Variant of InstallDb: the array keeps the new company, which is deleted.
InstallDbKeepsNew ==
  /\ pc = "install" /\ cmd = "db" /\ i < NumThreads
  /\ dbs' = dbs \cup {<<i, ver>>}
  /\ globalOf' = [globalOf EXCEPT ![i][ver] = pGlobal]
  /\ spareDb' = [spareDb EXCEPT ![i] = ver]
  /\ dbSlot' = [dbSlot EXCEPT ![i] = ver]
  /\ pc' = "installWork"
  /\ UNCHANGED <<globals, ifaces, works, pGlobal, ifaceOf, workSlot, ver, cmd, i,
                 slept, spareGlobal, spareIface, spareWork, reply, requests>>

\* Variant of InstallDb: bound to the global company of the start.
InstallDbStale ==
  /\ pc = "install" /\ cmd = "db" /\ i < NumThreads
  /\ dbs' = dbs \cup {<<i, ver>>}
  /\ globalOf' = [globalOf EXCEPT ![i][ver] = 0]
  /\ spareDb' = [spareDb EXCEPT ![i] = dbSlot[i]]
  /\ dbSlot' = [dbSlot EXCEPT ![i] = ver]
  /\ pc' = "installWork"
  /\ UNCHANGED <<globals, ifaces, works, pGlobal, ifaceOf, workSlot, ver, cmd, i,
                 slept, spareGlobal, spareIface, spareWork, reply, requests>>

\* update_db, thread i: a new DbCompany, bound to p_global_db_company and
\* loaded, is swapped into the slot.
InstallDb ==
  /\ pc = "install" /\ cmd = "db" /\ i < NumThreads
  /\ dbs' = dbs \cup {<<i, ver>>}
  /\ globalOf' = [globalOf EXCEPT ![i][ver] = pGlobal]
  /\ spareDb' = [spareDb EXCEPT ![i] = dbSlot[i]]
  /\ dbSlot' = [dbSlot EXCEPT ![i] = ver]
  /\ pc' = "installWork"
  /\ UNCHANGED <<globals, ifaces, works, pGlobal, ifaceOf, workSlot, ver, cmd, i,
                 slept, spareGlobal, spareIface, spareWork, reply, requests>>

\* Variant of InstallWork: the slot keeps the old company.
InstallWorkNotSwapped ==
  /\ \/ pc = "installWork"
     \/ pc = "install" /\ cmd = "work" /\ i < NumThreads
  /\ works' = works \cup {<<i, ver>>}
  /\ spareWork' = [spareWork EXCEPT ![i] = ver]
  /\ pc' = "install" /\ i' = i + 1
  /\ UNCHANGED <<globals, ifaces, dbs, fields, ver, cmd, slept, spareGlobal, spareIface,
                 spareDb, reply, requests>>

\* update_db and update_work, thread i: a new WorkCompany on the slot.
InstallWork ==
  /\ \/ pc = "installWork"
     \/ pc = "install" /\ cmd = "work" /\ i < NumThreads
  /\ works' = works \cup {<<i, ver>>}
  /\ spareWork' = [spareWork EXCEPT ![i] = workSlot[i]]
  /\ workSlot' = [workSlot EXCEPT ![i] = ver]
  /\ pc' = "install" /\ i' = i + 1
  /\ UNCHANGED <<globals, ifaces, dbs, pGlobal, ifaceOf, globalOf, dbSlot, ver,
                 cmd, slept, spareGlobal, spareIface, spareDb, reply, requests>>

\* The loop is over: sleep(SLEEP_TIME).
SleepPerThread ==
  /\ pc = "install" /\ cmd \in {"db", "work"} /\ i = NumThreads
  /\ pc' = "sleep" /\ slept' = 0 /\ i' = 0
  /\ UNCHANGED <<heap, fields, ver, cmd, spares, reply, requests>>

\* Variant of Wake: the sleep may be over at any time.
WakeEarly ==
  /\ pc = "sleep"
  /\ pc' = "free"
  /\ UNCHANGED <<heap, fields, ver, cmd, i, slept, spares, reply, requests>>

\* sleep returns once the whole time has passed.
Wake ==
  /\ pc = "sleep" /\ slept = SleepTime
  /\ pc' = "free"
  /\ UNCHANGED <<heap, fields, ver, cmd, i, slept, spares, reply, requests>>

\* Variant of FreeGlobal: the destructor forgets the interfaces.
FreeGlobalOnly ==
  /\ pc = "free" /\ cmd = "global"
  /\ globals' = globals \ {spareGlobal}
  /\ spareGlobal' = Nil
  /\ Answer("success")
  /\ UNCHANGED <<ifaces, dbs, works, fields, ver, cmd, i, slept, spareIface, spareDb,
                 spareWork, requests>>

\* delete p_new_global_db_company: the old company and the interfaces it owns.
FreeGlobal ==
  /\ pc = "free" /\ cmd = "global"
  /\ globals' = globals \ {spareGlobal}
  /\ ifaces' = ifaces \ OwnedIfaces(spareGlobal)
  /\ spareGlobal' = Nil
  /\ Answer("success")
  /\ UNCHANGED <<dbs, works, fields, ver, cmd, i, slept, spareIface, spareDb,
                 spareWork, requests>>

\* delete p_new_db_interface: the interface that was swapped out.
FreeSingle ==
  /\ pc = "free" /\ cmd = "single"
  /\ ifaces' = ifaces \ spareIface
  /\ spareIface' = {}
  /\ Answer("success")
  /\ UNCHANGED <<globals, dbs, works, fields, ver, cmd, i, slept, spareGlobal,
                 spareDb, spareWork, requests>>

\* Variant of FreePerThread: waits for a DbCompany that update_work never set.
FreePerThreadStuck ==
  /\ pc = "free" /\ cmd \in {"db", "work"} /\ i < NumThreads /\ spareDb[i] # Nil
  /\ works' = works \ {<<i, spareWork[i]>>}
  /\ dbs' = dbs \ {<<i, spareDb[i]>>}
  /\ spareWork' = [spareWork EXCEPT ![i] = Nil]
  /\ spareDb' = [spareDb EXCEPT ![i] = Nil]
  /\ i' = i + 1
  /\ UNCHANGED <<globals, ifaces, fields, ver, pc, cmd, slept, spareGlobal,
                 spareIface, reply, requests>>

\* The last loop: delete work_company_array[i], then db_company_array[i].
FreePerThread ==
  /\ pc = "free" /\ cmd \in {"db", "work"} /\ i < NumThreads
  /\ works' = works \ {<<i, spareWork[i]>>}
  /\ dbs' = dbs \ {<<i, spareDb[i]>>}
  /\ spareWork' = [spareWork EXCEPT ![i] = Nil]
  /\ spareDb' = [spareDb EXCEPT ![i] = Nil]
  /\ i' = i + 1
  /\ UNCHANGED <<globals, ifaces, fields, ver, pc, cmd, slept, spareGlobal,
                 spareIface, reply, requests>>

AnswerPerThread ==
  /\ pc = "free" /\ cmd \in {"db", "work"} /\ i = NumThreads
  /\ Answer("success")
  /\ UNCHANGED <<heap, fields, ver, cmd, i, slept, spares, requests>>

-----------------------------------------------------------------------------
(* One unit of time passes, for the sleeping control thread and for every   *)
(* request in progress; no request lasts longer than MaxReq.                *)
Tick ==
  /\ Up
  /\ \A t \in Thread : Busy(t) => elapsed[t] < MaxReq
  /\ elapsed' = [t \in Thread |-> IF Busy(t) THEN elapsed[t] + 1 ELSE 0]
  /\ slept' = IF pc = "sleep" /\ slept < SleepTime THEN slept + 1 ELSE slept
  /\ UNCHANGED <<heap, fields, ver, pc, cmd, i, spares, reply, held>>

Query(t) ==
  BeginRequest(t) \/ ReadDb(t) \/ ReadGlobal(t) \/ ReadIface(t) \/ EndRequest(t)

\* The steps that carry an accepted command on.
Progress ==
  \/ InstallGlobal \/ SwapGlobal
  \/ InstallDb \/ InstallWork \/ SleepPerThread
  \/ Wake
  \/ FreeGlobal \/ FreeSingle \/ FreePerThread \/ AnswerPerThread

Next ==
  \/ \E t \in Thread : Query(t)
  \/ StartGlobal \/ StartPerThread
  \/ \E d \in DbNames :
       SwapSingle(d) \/ InsertSingle(d) \/ FailSingle(d) \/ CrashSingle(d)
  \/ Progress
  \/ Dead
  \/ Tick

Spec == Init /\ [][Next]_vars

\* The control thread and time go on, and requests end (MaxReq).  No client is
\* obliged to send requests or commands.
Fairness ==
  /\ WF_vars(Progress)
  /\ WF_vars(Tick)
  /\ \A t \in Thread : WF_vars(EndRequest(t))

FairSpec == Spec /\ Fairness

-----------------------------------------------------------------------------
(* Safety. *)

\* What the requests have in their hands is still allocated: no query thread
\* uses an object the control thread has deleted (lab_common_svr.cpp:38-50,
\* the sleep after the swap is there for this).
NoUseAfterFree ==
  \A t \in Thread :
    /\ \A v \in heldWork[t] : <<t, v>> \in works
    /\ \A v \in heldDb[t] : <<t, v>> \in dbs
    /\ heldGlobal[t] \subseteq globals
    /\ heldIface[t] \subseteq ifaces

\* Every pointer a request could still follow leads to an allocated object:
\* the slots of every thread, the global company of every DbCompany (a
\* retired one too) and the interfaces of every GlobalDbCompany.
FieldsPointToLive ==
  /\ pGlobal \in globals
  /\ \A t \in Thread : <<t, dbSlot[t]>> \in dbs /\ <<t, workSlot[t]>> \in works
  /\ \A p \in dbs : globalOf[p[1]][p[2]] \in globals
  /\ \A g \in globals : OwnedIfaces(g) \subseteq ifaces

\* What the control thread is about to delete is allocated and is in no slot:
\* nothing is deleted twice, nothing in use by later requests is deleted.
Retired ==
  pc \in {"sleep", "free"} =>
    /\ spareGlobal # Nil =>
         /\ spareGlobal \in globals \ {pGlobal}
         /\ \A t \in Thread : globalOf[t][dbSlot[t]] # spareGlobal
    /\ spareIface \subseteq ifaces
    /\ \A g \in globals : spareIface \cap OwnedIfaces(g) = {}
    /\ \A t \in Thread :
         /\ spareDb[t] # Nil => <<t, spareDb[t]>> \in dbs /\ spareDb[t] # dbSlot[t]
         /\ spareWork[t] # Nil => <<t, spareWork[t]>> \in works /\ spareWork[t] # workSlot[t]

\* Between two commands the heap holds what the slots reach and nothing else:
\* each command deletes all it replaced.
NoLeakWhenIdle ==
  pc = "idle" =>
    /\ globals = {pGlobal}
    /\ ifaces = OwnedIfaces(pGlobal)
    /\ dbs = {<<t, dbSlot[t]>> : t \in Thread}
    /\ works = {<<t, workSlot[t]>> : t \in Thread}

\* Between two commands all query threads serve from the same global data.
ThreadsAgree ==
  pc = "idle" => \A t \in Thread : globalOf[t][dbSlot[t]] = pGlobal

\* A command that was answered "success" took effect in every query thread:
\* the requests that begin now see only what it built.
AnswerMeansInstalled ==
  pc = "idle" /\ reply = "success" =>
    /\ cmd = "global" => \A t \in Thread : globalOf[t][dbSlot[t]] = ver
    /\ cmd = "single" => \E d \in DbNames : ifaceOf[pGlobal][d] = ver
    /\ cmd \in {"db", "work"} => \A t \in Thread : workSlot[t] = ver
    /\ cmd = "db" => \A t \in Thread : dbSlot[t] = ver

\* The data a request sees never go back: the DbCompany or GlobalDbCompany it
\* reads next is not older than one it has already read, although it reads
\* the slot again at each use while the control thread swaps.
ViewNeverGoesBack ==
  [][\A t \in Thread :
       /\ \A v \in heldDb[t], w \in heldDb'[t] \ heldDb[t] : v <= w
       /\ \A v \in heldGlobal[t], w \in heldGlobal'[t] \ heldGlobal[t] : v <= w]_vars

\* What lab_common_svr.cpp:50 says of the sleep: when it is over, nobody uses
\* an old pointer.
NobodyUsesOldPointer ==
  pc = "free" =>
    \A t \in Thread :
      /\ spareGlobal \notin heldGlobal[t]
      /\ heldIface[t] \cap spareIface = {}
      /\ spareDb[t] \notin heldDb[t]
      /\ spareWork[t] \notin heldWork[t]

(* Liveness. *)

\* Every command is answered in the end: it waits for a fixed time, never for
\* a particular request.
CommandAnswered == (pc \notin {"idle", "dead"}) ~> (pc = "idle")
=============================================================================
