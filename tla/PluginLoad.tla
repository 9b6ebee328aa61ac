----------------------------- MODULE PluginLoad -----------------------------
(***************************************************************************)
(* The shared objects of the work plugins and of their algorithms          *)
(* (src/program/include/work/work_interface_factory.h,                     *)
(* src/program/include/algorithm/algorithm_func.h): update_work and        *)
(* update_db build a WorkCompany per query thread, which opens the         *)
(* libraries of the configuration anew, and delete the retired ones after  *)
(* the sleep.  That no request uses a retired one by then is HotReload's   *)
(* subject and is taken for granted here.                                  *)
(*                                                                         *)
(* dlopen counts references by file name and reads the file only when the  *)
(* library is not mapped.  A reference is modelled by a handle of its own, *)
(* named by the loop that opened it; the count of a library is the number  *)
(* of its handles.                                                         *)
(***************************************************************************)
EXTENDS Integers, Sequences

CONSTANTS
  ThreadNum,   \* query threads
  Lib,         \* the libraries (SO_NAME)
  Version,     \* what the file of a library may contain
  Broken,      \* the versions that lack the create function
  Absent,      \* no file, or nothing mapped
  Section,     \* the sections of work_config.ini
  Api,         \* API of each section
  So,          \* SO_NAME of each section
  Plan,        \* libraries of UID_PLAN in each section's ALG_INI
  Configs,     \* the WORK_NAMES that the operator may write
  MaxGen       \* bound on the number of times the factories are built

ASSUME PluginLoadAssumption ==
  /\ ThreadNum \in Nat \ {0} /\ MaxGen \in Nat
  /\ Broken \subseteq Version /\ Absent \notin Version
  /\ Absent \notin [lib : Lib, gen : Nat, thread : Nat, pos : Nat, alg : Nat]
  /\ So \in [Section -> Lib] /\ Plan \in [Section -> Seq(Lib)]
  /\ DOMAIN Api = Section
  /\ Configs \subseteq Seq(Section)

Thread == 1 .. ThreadNum

VARIABLES
  file,       \* the files in LIB_FOLDER and SO_FOLDER
  work_names, \* WORK_NAMES in the file work_config.ini
  image,      \* what is mapped of each library
  handles,    \* the references dlopen has given and dlclose not taken back
  objects,    \* the interfaces and algorithms, by the handles of their code
  orphans,    \* handles no data structure of the program holds any more
  gen,        \* number of times the factories were built
  pc,         \* where the update is
  t,          \* loop counter over the threads
  names,      \* the WORK_NAMES thread t's factory is built from
  pos,        \* the place in it
  loading,    \* the map_work_interface_so_ of thread t's new factory
  factory,    \* that of the factory each thread uses
  retired,    \* that of the factory each thread used before
  closing     \* a work interface's handle between delete and dlclose

disk  == <<file, work_names>>
code  == <<image, handles, objects, orphans>>
loop  == <<gen, pc, t, names, pos>>
maps  == <<loading, factory, retired>>
vars  == <<disk, code, loop, maps, closing>>

\* The handles of the section at place p of the current factory: its own has
\* alg = 0, its algorithms' have their place in the plan.
Handle(lib, p, j) == [lib |-> lib, gen |-> gen, thread |-> t, pos |-> p, alg |-> j]

\* The interfaces of a map, and everything they own.
Interfaces(map) == {map[a] : a \in DOMAIN map}
SameOwner(h, w) == h.gen = w.gen /\ h.thread = w.thread /\ h.pos = w.pos
Owned(W) == {h \in handles \ orphans : \E w \in W : SameOwner(h, w)}

NoInterface == [a \in {} |-> Absent]

Mapped(l) == \E h \in handles : h.lib = l

\* What is mapped of a library once it is opened.
Opened(l) == IF Mapped(l) THEN image[l] ELSE file[l]

\* What is mapped once only the handles H are left.
Left(H) == [l \in Lib |-> IF \E h \in H : h.lib = l THEN image[l] ELSE Absent]

Init ==
  /\ file \in [Lib -> Version \cup {Absent}] /\ work_names \in Configs
  /\ image = [l \in Lib |-> Absent]
  /\ handles = {} /\ objects = {} /\ orphans = {}
  /\ gen = 0 /\ pc = "idle" /\ t = 1 /\ names = <<>> /\ pos = 1
  /\ loading = NoInterface
  /\ factory = [x \in Thread |-> NoInterface]
  /\ retired = [x \in Thread |-> NoInterface]
  /\ closing = Absent

-----------------------------------------------------------------------------
\* The operator: a file is replaced, or the configuration is edited, at any
\* moment.
Deploy ==
  /\ \E l \in Lib, v \in Version \cup {Absent} : file' = [file EXCEPT ![l] = v]
  /\ UNCHANGED <<work_names, code, loop, maps, closing>>

EditConfig ==
  /\ work_names' \in Configs
  /\ UNCHANGED <<file, code, loop, maps, closing>>

-----------------------------------------------------------------------------
\* Variant of Update: the factories in use are taken away first.
UpdateFromNothing ==
  /\ pc = "idle" /\ gen < MaxGen
  /\ gen' = gen + 1 /\ pc' = "load"
  /\ t' = 1 /\ names' = work_names /\ pos' = 1
  /\ factory' = [x \in Thread |-> NoInterface]
  /\ UNCHANGED <<disk, code, loading, retired, closing>>

\* Start of the process, update_db or update_work: for each thread in turn a
\* factory is built and put in place.
Update ==
  /\ pc = "idle" /\ gen < MaxGen
  /\ gen' = gen + 1 /\ pc' = "load"
  /\ t' = 1 /\ names' = work_names /\ pos' = 1
  /\ UNCHANGED <<disk, code, maps, closing>>

AtSection == pc = "load" /\ pos <= Len(names)

\* dlopen fails.
OpenFails ==
  /\ AtSection /\ Opened(So[names[pos]]) = Absent
  /\ pos' = pos + 1
  /\ UNCHANGED <<disk, code, gen, pc, t, names, maps, closing>>

\* Variant of NoCreate: the library is left open.
NoCreateLeft ==
  /\ AtSection /\ Opened(So[names[pos]]) \in Broken
  /\ LET own == Handle(So[names[pos]], pos, 0)
     IN /\ image' = [image EXCEPT ![own.lib] = Opened(own.lib)]
        /\ handles' = handles \cup {own}
        /\ orphans' = orphans \cup {own}
  /\ pos' = pos + 1
  /\ UNCHANGED <<disk, objects, gen, pc, t, names, maps, closing>>

\* dlsym fails: the library is closed again.
NoCreate ==
  /\ AtSection /\ Opened(So[names[pos]]) \in Broken
  /\ pos' = pos + 1
  /\ UNCHANGED <<disk, code, gen, pc, t, names, maps, closing>>

\* The interface is created and opens its algorithms.  An algorithm without a
\* create function is skipped with its library left open.  If an interface of
\* the same API is there already, insert does nothing and the new one is lost
\* with all it has opened.
LoadSection ==
  /\ AtSection
  /\ LET sec     == names[pos]
         own     == Handle(So[sec], pos, 0)
         openAlg == {j \in DOMAIN Plan[sec] : Opened(Plan[sec][j]) # Absent}
         algs    == {Handle(Plan[sec][j], pos, j) : j \in openAlg}
         lacking == {h \in algs : Opened(h.lib) \in Broken}
         known   == Api[sec] \in DOMAIN loading
     IN /\ Opened(own.lib) \in Version \ Broken
        /\ image' = [l \in Lib |-> IF \E h \in algs \cup {own} : h.lib = l
                                   THEN Opened(l) ELSE image[l]]
        /\ handles' = handles \cup algs \cup {own}
        /\ objects' = objects \cup (algs \ lacking) \cup {own}
        /\ orphans' = orphans \cup (IF known THEN algs \cup {own} ELSE lacking)
        /\ loading' = [a \in DOMAIN loading \cup {Api[sec]} |->
                         IF a = Api[sec] /\ ~known THEN own ELSE loading[a]]
  /\ pos' = pos + 1
  /\ UNCHANGED <<disk, gen, pc, t, names, factory, retired, closing>>

\* The new factory takes the place of the thread's old one; the next thread's
\* reads the configuration again.
Swap ==
  /\ pc = "load" /\ pos > Len(names)
  /\ factory' = [factory EXCEPT ![t] = loading]
  /\ retired' = [retired EXCEPT ![t] = factory[t]]
  /\ loading' = NoInterface
  /\ IF t < ThreadNum THEN t' = t + 1 /\ pc' = pc ELSE t' = 1 /\ pc' = "free"
  /\ names' = work_names /\ pos' = 1
  /\ UNCHANGED <<disk, code, gen, closing>>

-----------------------------------------------------------------------------
\* Variant of DeleteInterface: release_algorithm forgets dlclose.
DeleteInterfaceOnly ==
  /\ pc = "free" /\ closing = Absent
  /\ \E a \in DOMAIN retired[t] :
       /\ objects' = objects \ Owned({retired[t][a]})
       /\ closing' = retired[t][a]
       /\ retired' = [retired EXCEPT ![t] = [b \in DOMAIN retired[t] \ {a} |-> retired[t][b]]]
  /\ UNCHANGED <<disk, image, handles, orphans, loop, loading, factory>>

\* Variant of DeleteInterface: dlclose before delete.
CloseBeforeDelete ==
  /\ pc = "free" /\ closing = Absent
  /\ \E a \in DOMAIN retired[t] :
       /\ handles' = handles \ {retired[t][a]}
       /\ image' = Left(handles')
       /\ closing' = retired[t][a]
       /\ retired' = [retired EXCEPT ![t] = [b \in DOMAIN retired[t] \ {a} |-> retired[t][b]]]
  /\ UNCHANGED <<disk, objects, orphans, loop, loading, factory>>

\* release_work_interface_so, for one entry of a retired factory's map: the
\* interface is deleted, and in its destructor release_algorithm deletes and
\* closes the algorithms ...
DeleteInterface ==
  /\ pc = "free" /\ closing = Absent
  /\ \E a \in DOMAIN retired[t] :
       LET own == retired[t][a]
           all == Owned({own})
       IN /\ objects' = objects \ all
          /\ handles' = handles \ (all \ {own})
          /\ image' = Left(handles')
          /\ closing' = own
          /\ retired' = [retired EXCEPT ![t] = [b \in DOMAIN retired[t] \ {a} |-> retired[t][b]]]
  /\ UNCHANGED <<disk, orphans, loop, loading, factory>>

\* ... and its own library is closed.
CloseHandle ==
  /\ closing # Absent
  /\ handles' = handles \ {closing}
  /\ image' = Left(handles')
  /\ closing' = Absent
  /\ UNCHANGED <<disk, objects, orphans, loop, maps>>

\* Variant of Freed: the loop over the threads does not end.
FreedAgain ==
  /\ pc = "free" /\ closing = Absent /\ retired[t] = NoInterface
  /\ t' = IF t < ThreadNum THEN t + 1 ELSE 1
  /\ UNCHANGED <<disk, code, gen, pc, names, pos, maps, closing>>

\* The thread's retired factory is gone.
Freed ==
  /\ pc = "free" /\ closing = Absent /\ retired[t] = NoInterface
  /\ IF t < ThreadNum THEN t' = t + 1 /\ pc' = pc ELSE t' = 1 /\ pc' = "idle"
  /\ UNCHANGED <<disk, code, gen, names, pos, maps, closing>>

Load == OpenFails \/ NoCreate \/ LoadSection \/ Swap
Free == DeleteInterface \/ CloseHandle \/ Freed
Next == Deploy \/ EditConfig \/ Update \/ Load \/ Free

Spec == Init /\ [][Next]_vars

-----------------------------------------------------------------------------
TypeOK ==
  /\ file \in [Lib -> Version \cup {Absent}] /\ work_names \in Configs
  /\ image \in [Lib -> Version \cup {Absent}]
  /\ handles \subseteq [lib : Lib, gen : 1 .. MaxGen, thread : Thread, pos : Nat, alg : Nat]
  /\ orphans \subseteq handles
  /\ gen \in 0 .. MaxGen /\ pc \in {"idle", "load", "free"}
  /\ t \in Thread /\ names \in Configs \cup {<<>>} /\ pos \in 1 .. Len(names) + 1
  /\ \A x \in Thread : Interfaces(factory[x]) \cup Interfaces(retired[x]) \subseteq handles
  /\ Interfaces(loading) \subseteq handles
  /\ closing \in handles \cup {Absent}

\* No object outlives its code: as long as an interface or an algorithm
\* exists, the library it was created from is open, and mapped.
ObjectsHaveCode ==
  \A h \in objects : h \in handles /\ image[h.lib] # Absent

\* When no update is in progress, the open handles are those of the interfaces
\* the threads use and of their algorithms, besides those the program has lost:
\* nothing of a retired factory stays, and it was released once.
OnlyServingIsOpen ==
  pc = "idle" =>
    /\ handles = orphans \cup UNION {Owned(Interfaces(factory[x])) : x \in Thread}
    /\ \A x \in Thread : Interfaces(factory[x]) \subseteq objects

\* Handles are lost in two ways only: an algorithm without a create function,
\* and a section whose API is another's.  Every other path of the loops closes
\* what it has opened, so that without these two nothing is ever lost.
LostOnlyBy ==
  \A h \in orphans :
    \/ h.alg # 0 /\ image[h.lib] \in Broken
    \/ \E c \in Configs : \E i \in DOMAIN c : i < h.pos /\ h.pos \in DOMAIN c /\ Api[c[i]] = Api[c[h.pos]]

\* The code of a library does not change under its objects.
CodeStays ==
  [][\A h \in objects : h \in objects' => image'[h.lib] = image[h.lib]]_vars

\* An interface that is loaded runs what is in the file now, if nothing has
\* kept the library open: this is what removing a plugin before adding it
\* again is for.
FreshCode ==
  [][\A h \in objects' \ objects :
       (\A o \in objects \cup orphans : o.lib # h.lib) => image'[h.lib] = file[h.lib]]_vars
=============================================================================
