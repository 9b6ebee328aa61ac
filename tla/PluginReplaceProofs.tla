------------------------- MODULE PluginReplaceProofs -------------------------
(***************************************************************************)
(* Theorems about the work plugins, for every configuration, every number  *)
(* of threads, libraries, sections and updates.                            *)
(*                                                                         *)
(* PluginLoad: no object outlives its code, the code does not change under *)
(* it, and nothing stays open but what serves and what is known to be      *)
(* lost.  What has to be known for this is that an interface in a map is   *)
(* not one of those the program has lost: otherwise its deletion would     *)
(* leave an object behind whose library is closed next.  New handles are   *)
(* named after the place of the loop, so the invariant says that the       *)
(* interfaces in the maps come from earlier places.  For what stays open,  *)
(* a second invariant says who owns a handle: each that is not lost        *)
(* belongs to exactly one entry of the maps, or is the one that is closed  *)
(* next.                                                                   *)
(*                                                                         *)
(* PluginReplace, the procedure that replaces a plugin: the other plugins  *)
(* are served throughout; no file is overwritten while its code is mapped; *)
(* afterwards every thread runs the new code.  The procedure is Update     *)
(* with an operator, so the invariants of PluginLoad hold of it.  To them  *)
(* come the operator's state and what the last update has opened: once a   *)
(* command sent after the edit has been executed, only libraries of the    *)
(* edited configuration are open, because nothing is ever lost.  That is   *)
(* where the second and third theorem need Orderly; without it the run     *)
(* plugin_replace_broken shows how the old code stays.                     *)
(***************************************************************************)
EXTENDS PluginReplace, TLAPS

InMaps ==
  Interfaces(loading)
    \cup UNION {Interfaces(factory[x]) \cup Interfaces(retired[x]) : x \in Thread}

\* The loop over the sections has passed the place of w.
Passed(w) == w.thread < t \/ (w.thread = t /\ w.pos < pos)

ShapeOK ==
  /\ file \in [Lib -> Version \cup {Absent}] /\ image \in [Lib -> Version \cup {Absent}]
  /\ \A h \in handles : h.lib \in Lib
  /\ DOMAIN factory = Thread /\ DOMAIN retired = Thread
  /\ gen \in Nat /\ t \in Thread /\ pos \in Nat \ {0}
  /\ work_names \in Configs /\ names \in Seq(Section)
  /\ pc # "free" => closing = Absent

CodeOK ==
  /\ objects \subseteq handles
  /\ \A h \in handles : image[h.lib] # Absent
  /\ closing # Absent => closing \notin objects

NamesOK ==
  \A h \in handles \cup orphans \cup InMaps :
    /\ h.gen \in Nat /\ h.gen <= gen /\ h.thread \in Int /\ h.pos \in Int
    /\ pc = "load" /\ h.gen = gen => Passed(h)

MapsOK == \A w \in InMaps : w \notin orphans

IInv == ShapeOK /\ CodeOK /\ NamesOK /\ MapsOK

-----------------------------------------------------------------------------
\* A library with an open handle stays as it is when it is opened again.
LEMMA OpenedMapped ==
  ASSUME NEW h \in handles
  PROVE  Opened(h.lib) = image[h.lib]
BY DEF Opened, Mapped

\* What dlclose leaves: the libraries of the remaining handles.
LEMMA LeftOver ==
  ASSUME ShapeOK, NEW H \in SUBSET handles
  PROVE  /\ Left(H) \in [Lib -> Version \cup {Absent}]
         /\ \A h \in H : Left(H)[h.lib] = image[h.lib]
BY DEF ShapeOK, Left

\* The names of the handles that the loop opens at its place.
NewHandle == [lib : Lib, gen : {gen}, thread : {t}, pos : {pos}, alg : Nat]

\* The libraries of a section's algorithms, and those of its work interface too.
AlgLibs(s) == {Plan[s][j] : j \in DOMAIN Plan[s]}
Libs(s)    == {So[s]} \cup AlgLibs(s)

\* What loading a section does: it opens the handles new, own among them.
Opens(new, own) ==
  /\ own \in new /\ Opened(So[names[pos]]) \in Version \ Broken
  /\ \A h \in new : h.lib \in Libs(names[pos]) /\ (h.alg # 0 => h.lib \in AlgLibs(names[pos]))
  /\ \A l \in Libs(names[pos]) : Opened(l) # Absent => \E h \in new : h.lib = l
  /\ handles' = handles \cup new
  /\ objects \subseteq objects' /\ objects' \subseteq objects \cup new
  /\ orphans \subseteq orphans' /\ orphans' \subseteq orphans \cup new
  /\ image' \in [Lib -> Version \cup {Absent}]
  /\ \A h \in handles : image'[h.lib] = image[h.lib]
  /\ \A h \in new : image'[h.lib] = Opened(h.lib) /\ Opened(h.lib) # Absent
  /\ \A l \in Lib : image'[l] = image[l] \/ \E h \in new : h.lib = l
  /\ new \subseteq objects' \cup orphans'
  /\ \A a \in DOMAIN loading : loading'[a] = loading[a]

\* An interface of the same API is there already, and the new one is lost ...
Loses(new, api) ==
  /\ api \in DOMAIN loading
  /\ DOMAIN loading' = DOMAIN loading /\ new \subseteq orphans'

\* ... or it is the one of its API, and only algorithms are lost.
Installs(own, api) ==
  /\ api \notin DOMAIN loading
  /\ DOMAIN loading' = DOMAIN loading \cup {api} /\ loading'[api] = own
  /\ own \in objects' /\ own \notin orphans' \ orphans
  /\ \A h \in orphans' \ orphans : h.alg # 0 /\ image'[h.lib] \in Broken

LEMMA Loaded ==
  ASSUME ShapeOK, CodeOK, LoadSection
  PROVE  \E new \in SUBSET NewHandle : \E own \in new :
           /\ Opens(new, own)
           /\ Loses(new, Api[names[pos]]) \/ Installs(own, Api[names[pos]])
<1> DEFINE sec     == names[pos]
           own     == Handle(So[sec], pos, 0)
           openAlg == {j \in DOMAIN Plan[sec] : Opened(Plan[sec][j]) # Absent}
           algs    == {Handle(Plan[sec][j], pos, j) : j \in openAlg}
           lacking == {h \in algs : Opened(h.lib) \in Broken}
           known   == Api[sec] \in DOMAIN loading
           new     == algs \cup {own}
<1>1. /\ Opened(own.lib) \in Version \ Broken
      /\ image' = [l \in Lib |-> IF \E h \in algs \cup {own} : h.lib = l
                                 THEN Opened(l) ELSE image[l]]
      /\ handles' = handles \cup algs \cup {own}
      /\ objects' = objects \cup (algs \ lacking) \cup {own}
      /\ orphans' = orphans \cup (IF known THEN algs \cup {own} ELSE lacking)
      /\ loading' = [a \in DOMAIN loading \cup {Api[sec]} |->
                       IF a = Api[sec] /\ ~known THEN own ELSE loading[a]]
  BY DEF LoadSection
<1>2. sec \in Section
  BY DEF LoadSection, AtSection, ShapeOK
<1>3. So[sec] \in Lib /\ Plan[sec] \in Seq(Lib)
  BY <1>2, PluginLoadAssumption
<1>4. \A j \in openAlg : Plan[sec][j] \in Lib /\ j \in Nat /\ j # 0
  BY <1>3
<1>5. /\ new \subseteq NewHandle
      /\ own \in new /\ own.alg = 0 /\ own.lib = So[sec]
      /\ \A h \in algs : h.alg # 0 /\ h.lib \in Lib /\ Opened(h.lib) # Absent
  BY <1>3, <1>4 DEF Handle, NewHandle
<1> HIDE DEF own, algs, openAlg
<1>6. \A a \in DOMAIN loading : loading'[a] = loading[a]
  BY <1>1
<1>7. image' \in [Lib -> Version \cup {Absent}]
  BY <1>1 DEF ShapeOK, Opened
<1>8. \A h \in handles : image'[h.lib] = image[h.lib]
  BY <1>1, OpenedMapped DEF ShapeOK
<1>9. \A h \in new : image'[h.lib] = Opened(h.lib) /\ Opened(h.lib) # Absent
  <2>1. Absent \notin Version  BY PluginLoadAssumption
  <2> QED  BY <1>1, <1>3, <1>5, <2>1
<1>10. Opens(new, own)
  <2>1. new \subseteq objects' \cup orphans'
    <3>1. CASE known  BY <1>1, <3>1
    <3>2. CASE ~known  BY <1>1, <3>2
    <3> QED  BY <3>1, <3>2
  <2>2. /\ handles' = handles \cup new
        /\ objects \subseteq objects' /\ objects' \subseteq objects \cup new
        /\ orphans \subseteq orphans' /\ orphans' \subseteq orphans \cup new
    BY <1>1
  <2>3. \A h \in new : h.lib \in Libs(sec) /\ (h.alg # 0 => h.lib \in AlgLibs(sec))
    BY <1>5 DEF algs, openAlg, Handle, Libs, AlgLibs
  <2>4. \A l \in Libs(sec) : Opened(l) # Absent => \E h \in new : h.lib = l
    <3>1. SUFFICES ASSUME NEW l \in Libs(sec), Opened(l) # Absent
                   PROVE  \E h \in new : h.lib = l
      OBVIOUS
    <3>2. CASE l = So[sec]  BY <1>5, <3>2
    <3>3. CASE l \in AlgLibs(sec)
      <4>1. PICK j \in openAlg : l = Plan[sec][j]  BY <3>1, <3>3 DEF AlgLibs, openAlg
      <4>2. Handle(Plan[sec][j], pos, j) \in algs /\ Handle(Plan[sec][j], pos, j).lib = l
        BY <4>1 DEF algs, Handle
      <4> QED  BY <4>2
    <3> QED  BY <3>1, <3>2, <3>3 DEF Libs
  <2>5. Opened(So[sec]) \in Version \ Broken  BY <1>1, <1>5
  <2>6. \A l \in Lib : image'[l] = image[l] \/ \E h \in new : h.lib = l  BY <1>1
  <2> HIDE DEF new
  <2> QED  BY <1>5, <1>6, <1>7, <1>8, <1>9, <2>1, <2>2, <2>3, <2>4, <2>5, <2>6 DEF Opens
<1>11. CASE known
  <2>1. DOMAIN loading' = DOMAIN loading /\ new \subseteq orphans'  BY <1>1, <1>11
  <2>2. Loses(new, Api[names[pos]])  BY <1>11, <2>1 DEF Loses
  <2> QED  BY <1>5, <1>10, <2>2
<1>12. CASE ~known
  <2>1. \A h \in lacking : h.alg # 0 /\ image'[h.lib] \in Broken
    <3>1. \A h \in lacking : h.alg # 0 /\ h.lib \in Lib /\ Opened(h.lib) \in Broken
      BY <1>5
    <3>2. \A h \in algs : h.lib \in Lib => image'[h.lib] = Opened(h.lib)
      BY <1>1
    <3> QED  BY <3>1, <3>2
  <2>2. orphans' \ orphans \subseteq lacking /\ own \notin lacking
    BY <1>1, <1>5, <1>12
  <2>3. own \in objects' /\ DOMAIN loading' = DOMAIN loading \cup {Api[sec]} /\ loading'[Api[sec]] = own
    BY <1>1, <1>12
  <2> HIDE DEF lacking
  <2>4. Installs(own, Api[names[pos]])  BY <1>12, <2>1, <2>2, <2>3 DEF Installs
  <2> QED  BY <1>5, <1>10, <2>4
<1> QED  BY <1>11, <1>12

-----------------------------------------------------------------------------
\* Nothing is open, and no interface in a map, when the process starts.
LEMMA InitInv == Init => IInv
<1> SUFFICES ASSUME Init PROVE IInv  OBVIOUS
<1> USE DEF Init
<1>1. ShapeOK
  <2>1. work_names \in Configs /\ 1 \in Thread  BY PluginLoadAssumption DEF Thread
  <2> QED  BY <2>1 DEF ShapeOK
<1>2. CodeOK  BY DEF CodeOK
<1>3. InMaps = {}  BY DEF InMaps, Interfaces, NoInterface
<1>4. NamesOK /\ MapsOK  BY <1>3 DEF NamesOK, MapsOK
<1> QED  BY <1>1, <1>2, <1>4 DEF IInv

\* A step that loses nothing and loads nothing keeps the names in order, if the
\* loop does not fall back.
LEMMA NamesKept ==
  ASSUME IInv, handles' \subseteq handles, orphans' = orphans, InMaps' \subseteq InMaps,
         gen' \in Nat, gen <= gen', t' \in Int, pos' \in Int,
         pc' = "load" =>
           \/ gen < gen'
           \/ gen' = gen /\ pc = "load" /\ (t < t' \/ (t' = t /\ pos <= pos'))
  PROVE  NamesOK' /\ MapsOK'
<1>1. gen \in Nat /\ t \in Int /\ pos \in Int  BY DEF IInv, ShapeOK, Thread
<1>2. ASSUME NEW h \in handles \cup orphans \cup InMaps
      PROVE  /\ h.gen \in Nat /\ h.gen <= gen' /\ h.thread \in Int /\ h.pos \in Int
             /\ pc' = "load" /\ h.gen = gen' => Passed(h)'
  <2>1. /\ h.gen \in Nat /\ h.gen <= gen /\ h.thread \in Int /\ h.pos \in Int
        /\ pc = "load" /\ h.gen = gen => Passed(h)
    BY <1>2 DEF IInv, NamesOK
  <2> QED  BY <1>1, <2>1 DEF Passed
<1>3. NamesOK'  BY <1>2 DEF NamesOK
<1>4. MapsOK'  BY DEF IInv, MapsOK
<1> QED  BY <1>3, <1>4

\* A section that is loaded takes names no earlier one has: its interface is
\* none of those lost before.
LEMMA LoadSectionKeeps ==
  ASSUME IInv, LoadSection
  PROVE  IInv'
<1>1. ShapeOK /\ CodeOK /\ NamesOK /\ MapsOK  BY DEF IInv
<1>2. PICK new \in SUBSET NewHandle : \E own \in new :
        /\ Opens(new, own)
        /\ Loses(new, Api[names[pos]]) \/ Installs(own, Api[names[pos]])
  BY <1>1, Loaded
<1>3. PICK own \in new :
        /\ Opens(new, own)
        /\ Loses(new, Api[names[pos]]) \/ Installs(own, Api[names[pos]])
  BY <1>2
<1>4. /\ handles' = handles \cup new /\ objects' \subseteq objects \cup new
      /\ orphans' \subseteq orphans \cup new
      /\ image' \in [Lib -> Version \cup {Absent}]
      /\ \A h \in handles : image'[h.lib] = image[h.lib]
      /\ \A h \in new : image'[h.lib] # Absent
  BY <1>3 DEF Opens
<1>5. /\ Interfaces(loading') \subseteq Interfaces(loading) \cup {own}
      /\ \/ Interfaces(loading') \subseteq Interfaces(loading)
         \/ own \notin orphans' \ orphans
  BY <1>3 DEF Opens, Loses, Installs, Interfaces
<1>6. /\ pc = "load" /\ pos' = pos + 1
      /\ UNCHANGED <<file, work_names, gen, pc, t, names, factory, retired, closing>>
  BY DEF LoadSection, AtSection, disk
<1>7. gen \in Nat /\ t \in Int /\ pos \in Int  BY <1>1 DEF ShapeOK, Thread
<1>8. ShapeOK'
  <2>1. \A h \in new : h.lib \in Lib  BY DEF NewHandle
  <2>2. pos' \in Nat \ {0}  BY <1>1, <1>6 DEF ShapeOK
  <2>3. \A h \in handles' : h.lib \in Lib  BY <1>1, <1>4, <2>1 DEF ShapeOK
  <2> QED  BY <1>1, <1>4, <1>6, <2>2, <2>3 DEF ShapeOK
<1>9. CodeOK'
  <2>1. closing' = Absent  BY <1>1, <1>6 DEF ShapeOK
  <2>2. objects \subseteq handles /\ \A h \in handles : image[h.lib] # Absent
    BY <1>1 DEF CodeOK
  <2>3. objects' \subseteq handles'  BY <1>4, <2>2
  <2>4. \A h \in handles' : image'[h.lib] # Absent  BY <1>4, <2>2
  <2> QED  BY <2>1, <2>3, <2>4 DEF CodeOK
<1>10. \A h \in new : h.gen = gen /\ h.thread = t /\ h.pos = pos  BY DEF NewHandle
<1>11. InMaps' \subseteq InMaps \cup new  BY <1>5, <1>6 DEF InMaps
<1>12. NamesOK'
  <2>1. SUFFICES ASSUME NEW h \in handles' \cup orphans' \cup InMaps'
                 PROVE  /\ h.gen \in Nat /\ h.gen <= gen' /\ h.thread \in Int /\ h.pos \in Int
                        /\ pc' = "load" /\ h.gen = gen' => Passed(h)'
    BY DEF NamesOK
  <2>2. CASE h \in new  BY <1>6, <1>7, <1>10, <2>2 DEF Passed
  <2>3. CASE h \notin new
    <3>1. h \in handles \cup orphans \cup InMaps  BY <1>4, <1>11, <2>1, <2>3
    <3>2. /\ h.gen \in Nat /\ h.gen <= gen /\ h.thread \in Int /\ h.pos \in Int
          /\ pc = "load" /\ h.gen = gen => Passed(h)
      BY <1>1, <3>1 DEF NamesOK
    <3> QED  BY <1>6, <1>7, <3>2 DEF Passed
  <2> QED  BY <2>2, <2>3
<1>13. MapsOK'
  <2>1. SUFFICES ASSUME NEW w \in InMaps' PROVE w \notin orphans'
    BY DEF MapsOK
  <2>2. InMaps \cap new = {}
    <3>1. \A h \in InMaps : h.gen = gen => Passed(h)  BY <1>1, <1>6 DEF NamesOK
    <3>2. \A h \in new : h.gen = gen /\ ~Passed(h)  BY <1>7, <1>10 DEF Passed
    <3> QED  BY <3>1, <3>2
  <2>3. CASE w \in InMaps  BY <1>1, <1>4, <2>2, <2>3 DEF MapsOK
  <2>4. CASE w \notin InMaps
    <3>2. w \in Interfaces(loading') /\ w \notin Interfaces(loading)
      BY <1>6, <2>4 DEF InMaps
    <3>3. w = own /\ w \notin orphans' \ orphans  BY <1>5, <3>2
    <3>4. w \notin orphans
      <4>1. w.gen = gen /\ ~Passed(w)  BY <1>7, <1>10, <3>3 DEF Passed
      <4> QED  BY <1>1, <1>6, <4>1 DEF NamesOK
    <3> QED  BY <3>3, <3>4
  <2> QED  BY <2>3, <2>4
<1> QED  BY <1>8, <1>9, <1>12, <1>13 DEF IInv

\* A factory changes its place with everything in it, and the loop goes on.
LEMMA SwapKeeps ==
  ASSUME IInv, Swap
  PROVE  IInv'
<1>1. ShapeOK /\ CodeOK  BY DEF IInv
<1>2. /\ pc = "load" /\ names' = work_names /\ pos' = 1 /\ loading' = NoInterface
      /\ factory' = [factory EXCEPT ![t] = loading]
      /\ retired' = [retired EXCEPT ![t] = factory[t]]
      /\ UNCHANGED <<disk, code, gen, closing>>
      /\ \/ t < ThreadNum /\ t' = t + 1 /\ pc' = pc
         \/ t' = 1 /\ pc' = "free"
  BY DEF Swap
<1>3. /\ gen \in Nat /\ t \in Thread /\ t \in Int /\ pos \in Int /\ 1 \in Thread /\ ThreadNum \in Nat
      /\ DOMAIN factory = Thread /\ DOMAIN retired = Thread
  BY <1>1, PluginLoadAssumption DEF ShapeOK, Thread
<1>4. ShapeOK'
  <2>1. t' \in Thread  BY <1>2, <1>3 DEF Thread
  <2>2. names' \in Seq(Section)  BY <1>1, <1>2, PluginLoadAssumption DEF ShapeOK
  <2> QED  BY <1>1, <1>2, <2>1, <2>2 DEF ShapeOK, disk, code
<1>5. CodeOK'  BY <1>1, <1>2 DEF CodeOK, code
<1>6. InMaps' \subseteq InMaps
  <2>1. Interfaces(loading') = {}  BY <1>2 DEF Interfaces, NoInterface
  <2>2. ASSUME NEW x \in Thread
        PROVE  Interfaces(factory'[x]) \subseteq InMaps /\ Interfaces(retired'[x]) \subseteq InMaps
    <3>1. factory'[x] = loading \/ factory'[x] = factory[x]  BY <1>2, <1>3
    <3>2. retired'[x] = factory[x] \/ retired'[x] = retired[x]  BY <1>2, <1>3
    <3> QED  BY <3>1, <3>2 DEF InMaps
  <2> QED  BY <2>1, <2>2 DEF InMaps
<1>7. NamesOK' /\ MapsOK'
  <2>1. gen' = gen /\ handles' = handles /\ orphans' = orphans  BY <1>2 DEF code
  <2>2. t' \in Int /\ pos' \in Int  BY <1>2, <1>3
  <2>3. pc' = "load" => t < t'  BY <1>2, <1>3
  <2> QED  BY <1>2, <1>3, <1>6, <2>1, <2>2, <2>3, NamesKept
<1> QED  BY <1>4, <1>5, <1>7 DEF IInv

\* Deleting an interface takes its objects away before the handles of its
\* algorithms are closed, since it is not a lost one.
LEMMA DeleteInterfaceKeeps ==
  ASSUME IInv, DeleteInterface
  PROVE  IInv'
<1>1. ShapeOK /\ CodeOK /\ MapsOK  BY DEF IInv
<1>2. PICK a \in DOMAIN retired[t] :
        /\ objects' = objects \ Owned({retired[t][a]})
        /\ handles' = handles \ (Owned({retired[t][a]}) \ {retired[t][a]})
        /\ closing' = retired[t][a]
        /\ retired' = [retired EXCEPT ![t] = [b \in DOMAIN retired[t] \ {a} |-> retired[t][b]]]
  BY DEF DeleteInterface
<1>3. /\ pc = "free" /\ image' = Left(handles')
      /\ UNCHANGED <<disk, orphans, loop, loading, factory>>
  BY DEF DeleteInterface
<1> DEFINE own == retired[t][a]
           all == Owned({own})
<1>4. t \in Thread /\ DOMAIN retired = Thread  BY <1>1 DEF ShapeOK
<1>5. own \in InMaps /\ own \notin orphans
  BY <1>1, <1>4 DEF InMaps, Interfaces, MapsOK
<1>6. own \in handles => own \in all  BY <1>5 DEF Owned, SameOwner
<1> HIDE DEF own, all
<1>7. objects' = objects \ all /\ handles' = handles \ (all \ {own}) /\ closing' = own
  BY <1>2 DEF own, all
<1>8. /\ image' \in [Lib -> Version \cup {Absent}]
      /\ \A h \in handles' : image'[h.lib] = image[h.lib]
  BY <1>1, <1>3, <1>7, LeftOver
<1>9. ShapeOK'
  BY <1>1, <1>2, <1>3, <1>7, <1>8 DEF ShapeOK, disk, loop
<1>10. CodeOK'  BY <1>1, <1>6, <1>7, <1>8 DEF CodeOK
<1>11. InMaps' \subseteq InMaps
  <2>1. \A x \in Thread : Interfaces(retired'[x]) \subseteq Interfaces(retired[x])
    <3>1. SUFFICES ASSUME NEW x \in Thread PROVE Interfaces(retired'[x]) \subseteq Interfaces(retired[x])
      OBVIOUS
    <3>2. CASE x = t
      <4>1. retired'[x] = [b \in DOMAIN retired[t] \ {a} |-> retired[t][b]]
        BY <1>2, <1>4, <3>2
      <4> QED  BY <3>2, <4>1 DEF Interfaces
    <3>3. CASE x # t
      <4>1. retired'[x] = retired[x]  BY <1>2, <1>4, <3>3
      <4> QED  BY <4>1
    <3> QED  BY <3>2, <3>3
  <2> QED  BY <1>3, <2>1 DEF InMaps
<1>12. NamesOK' /\ MapsOK'
  <2>1. gen' = gen /\ t' = t /\ pos' = pos /\ pc' # "load" /\ orphans' = orphans
    BY <1>3 DEF loop
  <2>2. gen \in Nat /\ t \in Int /\ pos \in Int  BY <1>1 DEF ShapeOK, Thread
  <2>3. handles' \subseteq handles  BY <1>7
  <2> QED  BY <1>11, <2>1, <2>2, <2>3, NamesKept
<1> QED  BY <1>9, <1>10, <1>12 DEF IInv

\* The handle that is closed after the delete has no object any more.
LEMMA CloseHandleKeeps ==
  ASSUME IInv, CloseHandle
  PROVE  IInv'
<1>1. ShapeOK /\ CodeOK  BY DEF IInv
<1>2. /\ closing # Absent /\ handles' = handles \ {closing} /\ image' = Left(handles')
      /\ closing' = Absent /\ UNCHANGED <<disk, objects, orphans, loop, maps>>
  BY DEF CloseHandle
<1>3. /\ image' \in [Lib -> Version \cup {Absent}]
      /\ \A h \in handles' : image'[h.lib] = image[h.lib]
  BY <1>1, <1>2, LeftOver
<1>4. ShapeOK'  BY <1>1, <1>2, <1>3 DEF ShapeOK, disk, loop, maps
<1>5. CodeOK'  BY <1>1, <1>2, <1>3 DEF CodeOK
<1>6. NamesOK' /\ MapsOK'
  <2>1. InMaps' = InMaps  BY <1>2 DEF InMaps, maps
  <2>2. pc # "load"  BY <1>1, <1>2 DEF ShapeOK
  <2>3. gen' = gen /\ t' = t /\ pos' = pos /\ pc' = pc  BY <1>2 DEF loop
  <2>4. gen \in Nat /\ t \in Int /\ pos \in Int  BY <1>1 DEF ShapeOK, Thread
  <2> QED  BY <1>2, <2>1, <2>2, <2>3, <2>4, NamesKept
<1> QED  BY <1>4, <1>5, <1>6 DEF IInv

\* Every step keeps the invariant.
LEMMA IInvKept ==
  ASSUME IInv, [Next]_vars
  PROVE  IInv'
<1>1. ShapeOK /\ CodeOK  BY DEF IInv
<1>2. gen \in Nat /\ t \in Int /\ pos \in Int /\ 1 \in Thread /\ ThreadNum \in Nat
  BY <1>1, PluginLoadAssumption DEF ShapeOK, Thread
<1>3. CASE Deploy
  <2>1. PICK l \in Lib, v \in Version \cup {Absent} : file' = [file EXCEPT ![l] = v]
    BY <1>3 DEF Deploy
  <2>2. UNCHANGED <<work_names, code, loop, maps, closing>>  BY <1>3 DEF Deploy
  <2>3. ShapeOK' /\ CodeOK'
    BY <1>1, <2>1, <2>2 DEF ShapeOK, CodeOK, code, loop, maps
  <2>4. InMaps' = InMaps  BY <2>2 DEF InMaps, maps
  <2>5. NamesOK' /\ MapsOK'  BY <1>2, <2>2, <2>4, NamesKept DEF code, loop
  <2> QED  BY <2>3, <2>5 DEF IInv
<1>4. CASE EditConfig
  <2>1. work_names' \in Configs /\ UNCHANGED <<file, code, loop, maps, closing>>
    BY <1>4 DEF EditConfig
  <2>2. ShapeOK' /\ CodeOK'
    BY <1>1, <2>1 DEF ShapeOK, CodeOK, code, loop, maps
  <2>3. InMaps' = InMaps  BY <2>1 DEF InMaps, maps
  <2>4. NamesOK' /\ MapsOK'  BY <1>2, <2>1, <2>3, NamesKept DEF code, loop
  <2> QED  BY <2>2, <2>4 DEF IInv
<1>5. CASE Update
  <2>1. /\ pc = "idle" /\ gen' = gen + 1 /\ pc' = "load" /\ t' = 1 /\ names' = work_names
        /\ pos' = 1 /\ UNCHANGED <<disk, code, maps, closing>>
    BY <1>5 DEF Update
  <2>2. closing = Absent  BY <1>1, <1>5 DEF Update, ShapeOK
  <2>3. ShapeOK' /\ CodeOK'
    BY <1>1, <1>2, <2>1, <2>2, PluginLoadAssumption DEF ShapeOK, CodeOK, disk, code, maps
  <2>4. InMaps' = InMaps  BY <2>1 DEF InMaps, maps
  <2>5. NamesOK' /\ MapsOK'  BY <1>2, <2>1, <2>4, NamesKept DEF code
  <2> QED  BY <2>3, <2>5 DEF IInv
<1>6. CASE OpenFails \/ NoCreate
  <2>1. /\ pc = "load" /\ pos' = pos + 1
        /\ UNCHANGED <<disk, code, gen, pc, t, names, maps, closing>>
    BY <1>6 DEF OpenFails, NoCreate, AtSection
  <2>2. ShapeOK' /\ CodeOK'
    BY <1>1, <2>1 DEF ShapeOK, CodeOK, disk, code, maps
  <2>3. InMaps' = InMaps  BY <2>1 DEF InMaps, maps
  <2>4. NamesOK' /\ MapsOK'  BY <1>2, <2>1, <2>3, NamesKept DEF code
  <2> QED  BY <2>2, <2>4 DEF IInv
<1>7. CASE LoadSection  BY <1>7, LoadSectionKeeps
<1>8. CASE Swap  BY <1>8, SwapKeeps
<1>9. CASE DeleteInterface  BY <1>9, DeleteInterfaceKeeps
<1>10. CASE CloseHandle  BY <1>10, CloseHandleKeeps
<1>11. CASE Freed
  <2>1. /\ pc = "free" /\ closing = Absent /\ pc' # "load" /\ t' \in Thread /\ t' \in Int
        /\ UNCHANGED <<disk, code, gen, names, pos, maps, closing>>
    <3>1. t \in Thread  BY <1>1 DEF ShapeOK
    <3> QED  BY <1>2, <1>11, <3>1 DEF Freed, Thread
  <2>2. ShapeOK' /\ CodeOK'
    BY <1>1, <2>1 DEF ShapeOK, CodeOK, disk, code, maps
  <2>3. InMaps' = InMaps  BY <2>1 DEF InMaps, maps
  <2>4. NamesOK' /\ MapsOK'  BY <1>2, <2>1, <2>3, NamesKept DEF code
  <2> QED  BY <2>2, <2>4 DEF IInv
<1>12. CASE UNCHANGED vars
  <2>1. UNCHANGED <<disk, code, loop, maps, closing>>  BY <1>12 DEF vars
  <2>2. ShapeOK' /\ CodeOK'
    BY <1>1, <2>1 DEF ShapeOK, CodeOK, disk, code, loop, maps
  <2>3. InMaps' = InMaps  BY <2>1 DEF InMaps, maps
  <2>4. NamesOK' /\ MapsOK'  BY <1>2, <2>1, <2>3, NamesKept DEF code, loop
  <2> QED  BY <2>2, <2>4 DEF IInv
<1> QED  BY <1>3, <1>4, <1>5, <1>6, <1>7, <1>8, <1>9, <1>10, <1>11, <1>12 DEF Next, Load, Free

\* The inductive invariant.
THEOREM Inductive == Spec => []IInv
<1>1. IInv /\ [Next]_vars => IInv'  BY IInvKept
<1> QED  BY InitInv, <1>1, PTL DEF Spec

\* No interface and no algorithm outlives the library it was created from.
THEOREM CodeLoaded == Spec => []ObjectsHaveCode
<1>1. IInv => ObjectsHaveCode  BY DEF IInv, CodeOK, ObjectsHaveCode
<1> QED  BY <1>1, Inductive, PTL

\* What is mapped of a library stays as long as a handle of it.
LEMMA ImagesKept ==
  ASSUME IInv, [Next]_vars, NEW h \in handles, h \in handles'
  PROVE  image'[h.lib] = image[h.lib]
<1>1. ShapeOK /\ CodeOK  BY DEF IInv
<1>2. CASE LoadSection  BY <1>1, <1>2, Loaded DEF Opens
<1>3. CASE DeleteInterface \/ CloseHandle
  <2>1. image' = Left(handles') /\ handles' \subseteq handles
    BY <1>3 DEF DeleteInterface, CloseHandle
  <2> QED  BY <1>1, <2>1, LeftOver
<1>4. CASE UNCHANGED image  BY <1>4
<1> QED
  BY <1>2, <1>3, <1>4
  DEF Next, Load, Free, Deploy, EditConfig, Update, OpenFails, NoCreate, Swap, Freed, code, vars

\* The code of a library does not change under its objects.
THEOREM CodeUnchanged == Spec => CodeStays
<1>1. IInv /\ IInv' /\ [Next]_vars =>
        [\A h \in objects : h \in objects' => image'[h.lib] = image[h.lib]]_vars
  <2> SUFFICES ASSUME IInv, IInv', Next, NEW h \in objects, h \in objects'
               PROVE  image'[h.lib] = image[h.lib]
    OBVIOUS
  <2>1. h \in handles /\ h \in handles'  BY DEF IInv, CodeOK
  <2> QED  BY <2>1, ImagesKept
<1> QED  BY <1>1, Inductive, PTL DEF Spec, CodeStays

-----------------------------------------------------------------------------
\* The handles that are neither lost nor about to be closed have their object,
\* and belong to an interface in a map.
OpenOK ==
  /\ handles \subseteq [lib : Lib, gen : Nat, thread : Nat, pos : Nat, alg : Nat]
  /\ orphans \subseteq handles /\ InMaps \subseteq objects
  /\ closing # Absent => closing \in handles \ orphans
  /\ \A h \in handles \ orphans :
       \/ closing # Absent /\ h = closing
       \/ h \in objects /\ \E w \in InMaps : SameOwner(h, w)

\* The entries of a map are interfaces of different sections.
Entries(map) == \A a, b \in DOMAIN map : SameOwner(map[a], map[b]) => a = b

\* No two entries of the maps share an interface: each thread has its own, and
\* what is retired comes from an earlier update than what took its place.
ApartOK ==
  /\ Entries(loading) /\ \A w \in Interfaces(loading) : w.thread = t /\ w.gen = gen
  /\ closing # Absent => closing.gen < gen
  /\ \A x \in Thread :
       /\ Entries(factory[x]) /\ Entries(retired[x])
       /\ \A w \in Interfaces(factory[x]) :
            w.thread = x /\ (pc = "load" /\ t <= x => w.gen < gen)
       /\ \A v \in Interfaces(retired[x]) :
            /\ v.thread = x /\ v.gen < gen
            /\ \A w \in Interfaces(factory[x]) : v.gen < w.gen

\* The retired factories are those the loops have yet to free.
RetiredOK ==
  /\ pc # "load" => loading = NoInterface
  /\ \A x \in Thread :
       (pc = "idle" \/ (pc = "load" /\ t <= x) \/ (pc = "free" /\ x < t))
         => retired[x] = NoInterface

\* An entry of the new map comes from a section before the place of the loop.
LoadingOK ==
  pc = "load" =>
    /\ names \in Configs
    /\ \A a \in DOMAIN loading : \E i \in DOMAIN names : i < pos /\ Api[names[i]] = a

OwnersInv == OpenOK /\ ApartOK /\ RetiredOK /\ LoadingOK /\ LostOnlyBy

\* Two handles of one place of the loop.
LEMMA SamePlace ==
  ASSUME NEW h \in NewHandle, NEW w \in NewHandle
  PROVE  SameOwner(h, w)
BY DEF NewHandle, SameOwner

\* What the step of a section does, by the place it has in the loop.
LEMMA LoadSectionOwners ==
  ASSUME IInv, OwnersInv, LoadSection
  PROVE  OwnersInv'
<1> DEFINE api == Api[names[pos]]
<1>1. /\ ShapeOK /\ CodeOK /\ NamesOK /\ MapsOK
      /\ OpenOK /\ ApartOK /\ RetiredOK /\ LoadingOK /\ LostOnlyBy
  BY DEF IInv, OwnersInv
<1>2. PICK new \in SUBSET NewHandle : \E own \in new :
        Opens(new, own) /\ (Loses(new, api) \/ Installs(own, api))
  BY <1>1, Loaded
<1>3. PICK own \in new : Opens(new, own) /\ (Loses(new, api) \/ Installs(own, api))
  BY <1>2
<1>4. /\ pc = "load" /\ pos \in DOMAIN names /\ pos' = pos + 1
      /\ UNCHANGED <<gen, pc, t, names, factory, retired, closing>>
  BY <1>1 DEF LoadSection, AtSection, ShapeOK
<1>5. /\ gen \in Nat /\ t \in Nat /\ pos \in Nat /\ closing = Absent /\ names \in Configs
  BY <1>1, <1>4 DEF ShapeOK, Thread, LoadingOK
<1>6. /\ handles' = handles \cup new
      /\ objects \subseteq objects'
      /\ orphans \subseteq orphans' /\ orphans' \subseteq orphans \cup new
      /\ \A h \in handles : image'[h.lib] = image[h.lib]
      /\ \A a \in DOMAIN loading : loading'[a] = loading[a]
  BY <1>3 DEF Opens
<1>7. \A h \in new : h.gen = gen /\ h.thread = t /\ h.pos = pos  BY DEF NewHandle
<1>8. InMaps \subseteq InMaps' /\ InMaps' \subseteq InMaps \cup {own}
  BY <1>3, <1>4, <1>6 DEF InMaps, Interfaces, Loses, Installs
<1>9. OpenOK'
  <2>1. orphans' \subseteq handles'  BY <1>1, <1>6 DEF OpenOK
  <2>2. InMaps' \subseteq objects'
    <3>1. CASE Loses(new, api)
      <4>1. InMaps' = InMaps
        BY <1>4, <1>6, <3>1 DEF InMaps, Interfaces, Loses
      <4> QED  BY <1>1, <1>6, <4>1 DEF OpenOK
    <3>2. CASE Installs(own, api)
      BY <1>1, <1>6, <1>8, <3>2 DEF OpenOK, Installs
    <3> QED  BY <1>3, <3>1, <3>2
  <2>3. ASSUME NEW h \in handles' \ orphans'
        PROVE  h \in objects' /\ \E w \in InMaps' : SameOwner(h, w)
    <3>1. CASE h \in new
      <4>1. ~ Loses(new, api)  BY <2>3, <3>1 DEF Loses
      <4>2. own \in InMaps'
        BY <1>3, <4>1 DEF Installs, InMaps, Interfaces
      <4>3. h \in objects'  BY <1>3, <2>3, <3>1 DEF Opens
      <4> QED  BY <3>1, <4>2, <4>3, SamePlace
    <3>2. CASE h \notin new
      BY <1>1, <1>5, <1>6, <1>8, <3>2 DEF OpenOK
    <3> QED  BY <3>1, <3>2
  <2>4. handles' \subseteq [lib : Lib, gen : Nat, thread : Nat, pos : Nat, alg : Nat]
    BY <1>1, <1>5, <1>6 DEF OpenOK, NewHandle
  <2> QED  BY <1>4, <1>5, <2>1, <2>2, <2>3, <2>4 DEF OpenOK
<1>10. ApartOK'
  <2>1. \A w \in Interfaces(loading) : ~SameOwner(w, own) /\ ~SameOwner(own, w)
    <3>1. SUFFICES ASSUME NEW w \in Interfaces(loading)
                   PROVE  ~SameOwner(w, own) /\ ~SameOwner(own, w)
      OBVIOUS
    <3>2. w \in InMaps /\ w.thread = t /\ w.gen = gen
      BY <1>1 DEF InMaps, ApartOK
    <3>3. w.pos < pos /\ w.pos \in Int
      BY <1>1, <1>4, <1>5, <3>2 DEF NamesOK, Passed
    <3> QED  BY <1>5, <1>7, <3>3 DEF SameOwner
  <2>2. Entries(loading')
    <3>1. CASE Loses(new, api)
      BY <1>1, <1>6, <3>1 DEF Loses, ApartOK, Entries
    <3>2. CASE Installs(own, api)
      <4>1. \A a \in DOMAIN loading' :
              \/ a \in DOMAIN loading /\ loading'[a] = loading[a] /\ loading[a] \in Interfaces(loading)
              \/ a = api /\ loading'[a] = own
        BY <1>6, <3>2 DEF Installs, Interfaces
      <4> QED  BY <1>1, <2>1, <4>1 DEF ApartOK, Entries
    <3> QED  BY <1>3, <3>1, <3>2
  <2>3. \A w \in Interfaces(loading') : w.thread = t /\ w.gen = gen
    <3>1. Interfaces(loading') \subseteq Interfaces(loading) \cup {own}
      BY <1>3, <1>6 DEF Loses, Installs, Interfaces
    <3> QED  BY <1>1, <1>7, <3>1 DEF ApartOK
  <2> QED  BY <1>1, <1>4, <2>2, <2>3 DEF ApartOK
<1>11. RetiredOK'  BY <1>1, <1>4 DEF RetiredOK
<1>12. LoadingOK'
  <2>1. \A a \in DOMAIN loading' : a \in DOMAIN loading \/ a = api
    BY <1>3 DEF Loses, Installs
  <2>2. \A a \in DOMAIN loading : \E i \in DOMAIN names : i < pos /\ Api[names[i]] = a
    BY <1>1, <1>4 DEF LoadingOK
  <2>3. \A i \in DOMAIN names : i < pos => i < pos + 1
    BY <1>1, <1>5 DEF ShapeOK
  <2>4. pos < pos + 1  BY <1>5
  <2>5. \A a \in DOMAIN loading' : \E i \in DOMAIN names : i < pos + 1 /\ Api[names[i]] = a
    BY <1>4, <2>1, <2>2, <2>3, <2>4
  <2> QED  BY <1>4, <1>5, <2>5 DEF LoadingOK
<1>13. LostOnlyBy'
  <2>1. SUFFICES ASSUME NEW h \in orphans'
                 PROVE  \/ h.alg # 0 /\ image'[h.lib] \in Broken
                        \/ \E c \in Configs : \E i \in DOMAIN c :
                             i < h.pos /\ h.pos \in DOMAIN c /\ Api[c[i]] = Api[c[h.pos]]
    BY DEF LostOnlyBy
  <2>2. CASE h \in orphans
    <3>1. image'[h.lib] = image[h.lib]  BY <1>1, <1>6, <2>2 DEF OpenOK
    <3> QED  BY <1>1, <2>2, <3>1 DEF LostOnlyBy
  <2>3. CASE h \notin orphans /\ Loses(new, api)
    <3>1. h.pos = pos  BY <1>6, <1>7, <2>1, <2>3
    <3>2. PICK i \in DOMAIN names : i < pos /\ Api[names[i]] = api
      BY <1>1, <1>4, <2>3 DEF Loses, LoadingOK
    <3> QED  BY <1>4, <1>5, <3>1, <3>2
  <2>4. CASE h \notin orphans /\ Installs(own, api)
    BY <2>1, <2>4 DEF Installs
  <2> QED  BY <1>3, <2>2, <2>3, <2>4
<1> QED  BY <1>9, <1>10, <1>11, <1>12, <1>13 DEF OwnersInv

\* A factory that is in place is the new one of its thread, and what it took
\* the place of is retired: nothing was retired of that thread before.
LEMMA SwapOwners ==
  ASSUME IInv, OwnersInv, Swap
  PROVE  OwnersInv'
<1>1. /\ ShapeOK /\ OpenOK /\ ApartOK /\ RetiredOK /\ LostOnlyBy
  BY DEF IInv, OwnersInv
<1>2. /\ pc = "load" /\ names' = work_names /\ loading' = NoInterface
      /\ factory' = [factory EXCEPT ![t] = loading]
      /\ retired' = [retired EXCEPT ![t] = factory[t]]
      /\ UNCHANGED <<code, gen, closing>>
      /\ \/ pc' = "load" /\ t' = t + 1
         \/ pc' = "free" /\ t' = 1
  BY DEF Swap
<1>3. /\ t \in Thread /\ \A x \in Thread : x \in Int /\ x >= 1
      /\ DOMAIN factory = Thread /\ DOMAIN retired = Thread
  BY <1>1, PluginLoadAssumption DEF ShapeOK, Thread
<1>4. /\ factory'[t] = loading /\ retired'[t] = factory[t] /\ retired[t] = NoInterface
      /\ \A x \in Thread \ {t} : factory'[x] = factory[x] /\ retired'[x] = retired[x]
  BY <1>1, <1>2, <1>3 DEF RetiredOK
<1>5. Interfaces(NoInterface) = {} /\ Entries(NoInterface)
  BY DEF Interfaces, NoInterface, Entries
<1>6. InMaps' = InMaps
  <2>1. Interfaces(loading') = {} /\ Interfaces(retired[t]) = {}  BY <1>2, <1>4, <1>5
  <2>2. ASSUME NEW x \in Thread
        PROVE  Interfaces(factory'[x]) \subseteq InMaps /\ Interfaces(retired'[x]) \subseteq InMaps
    BY <1>4 DEF InMaps
  <2>3. ASSUME NEW x \in Thread
        PROVE  Interfaces(factory[x]) \subseteq InMaps' /\ Interfaces(retired[x]) \subseteq InMaps'
    BY <1>4, <2>1 DEF InMaps
  <2>4. Interfaces(loading) \subseteq InMaps'  BY <1>3, <1>4 DEF InMaps
  <2> QED  BY <2>1, <2>2, <2>3, <2>4 DEF InMaps
<1>7. OpenOK' /\ LostOnlyBy'
  BY <1>1, <1>2, <1>6 DEF OpenOK, LostOnlyBy, SameOwner, code
<1>8. ApartOK'
  <2>1. SUFFICES ASSUME NEW x \in Thread
                 PROVE  /\ Entries(factory'[x]) /\ Entries(retired'[x])
                        /\ \A w \in Interfaces(factory'[x]) :
                             w.thread = x /\ (pc' = "load" /\ t' <= x => w.gen < gen)
                        /\ \A v \in Interfaces(retired'[x]) :
                             /\ v.thread = x /\ v.gen < gen
                             /\ \A w \in Interfaces(factory'[x]) : v.gen < w.gen
    <3>1. closing' = Absent  BY <1>1, <1>2 DEF ShapeOK
    <3> QED  BY <1>2, <1>5, <3>1 DEF ApartOK
  <2>2. CASE x = t
    <3>1. /\ Entries(loading) /\ Entries(factory[t])
          /\ \A w \in Interfaces(loading) : w.thread = t /\ w.gen = gen
          /\ \A v \in Interfaces(factory[t]) : v.thread = t /\ v.gen < gen
      BY <1>1, <1>2, <1>3 DEF ApartOK
    <3>2. ~(pc' = "load" /\ t' <= t)  BY <1>2, <1>3
    <3> QED  BY <1>4, <2>2, <3>1, <3>2
  <2>3. CASE x # t
    <3>1. factory'[x] = factory[x] /\ retired'[x] = retired[x]  BY <1>4, <2>3
    <3>2. pc' = "load" /\ t' <= x => t <= x  BY <1>2, <1>3
    <3> QED  BY <1>1, <1>2, <3>1, <3>2 DEF ApartOK
  <2> QED  BY <2>2, <2>3
<1>9. RetiredOK'
  <2>1. SUFFICES ASSUME NEW x \in Thread,
                        pc' = "idle" \/ (pc' = "load" /\ t' <= x) \/ (pc' = "free" /\ x < t')
                 PROVE  retired'[x] = NoInterface
    BY <1>2 DEF RetiredOK
  <2>2. t <= x /\ x # t  BY <1>2, <1>3, <2>1
  <2> QED  BY <1>1, <1>2, <1>4, <2>2 DEF RetiredOK
<1>10. LoadingOK'  BY <1>1, <1>2 DEF LoadingOK, ShapeOK, NoInterface
<1> QED  BY <1>7, <1>8, <1>9, <1>10 DEF OwnersInv

\* Deleting an interface and its algorithms leaves all other interfaces their
\* objects, since no two share a place; what is left open of it is its own
\* handle.
LEMMA DeleteInterfaceOwners ==
  ASSUME IInv, OwnersInv, DeleteInterface
  PROVE  OwnersInv'
<1>1. /\ ShapeOK /\ CodeOK /\ NamesOK /\ MapsOK
      /\ OpenOK /\ ApartOK /\ RetiredOK /\ LostOnlyBy
  BY DEF IInv, OwnersInv
<1>2. PICK a \in DOMAIN retired[t] :
        /\ objects' = objects \ Owned({retired[t][a]})
        /\ handles' = handles \ (Owned({retired[t][a]}) \ {retired[t][a]})
        /\ closing' = retired[t][a]
        /\ retired' = [retired EXCEPT ![t] = [b \in DOMAIN retired[t] \ {a} |-> retired[t][b]]]
  BY DEF DeleteInterface
<1>3. /\ pc = "free" /\ closing = Absent
      /\ UNCHANGED <<orphans, gen, pc, t, loading, factory>>
      /\ loading = NoInterface
  BY <1>1 DEF DeleteInterface, loop, RetiredOK
<1> DEFINE own == retired[t][a]
           all == Owned({own})
<1>4. t \in Thread /\ DOMAIN retired = Thread /\ \A x \in Thread : x \in Int
  BY <1>1 DEF ShapeOK, Thread
<1>5. /\ retired'[t] = [b \in DOMAIN retired[t] \ {a} |-> retired[t][b]]
      /\ \A x \in Thread \ {t} : retired'[x] = retired[x]
  BY <1>2, <1>4
<1>6. /\ own \in Interfaces(retired[t]) /\ own \in InMaps /\ own \notin orphans
      /\ own \in objects /\ own \in handles /\ own # Absent
  <2>1. own \in Interfaces(retired[t])  BY DEF Interfaces
  <2>2. own \in InMaps  BY <1>4, <2>1 DEF InMaps
  <2>3. own \notin orphans /\ own \in objects /\ own \in handles
    BY <1>1, <2>2 DEF MapsOK, OpenOK, CodeOK
  <2> HIDE DEF own
  <2>4. own # Absent  BY <1>1, <2>3, PluginLoadAssumption DEF OpenOK
  <2> QED  BY <2>1, <2>2, <2>3, <2>4
<1>7. all = {h \in handles \ orphans : SameOwner(h, own)}  BY DEF Owned
<1>8. \A x \in Thread :
        /\ Interfaces(retired'[x]) \subseteq Interfaces(retired[x])
        /\ Interfaces(retired[x]) \subseteq Interfaces(retired'[x]) \cup {own}
  <2>1. SUFFICES ASSUME NEW x \in Thread
                 PROVE  /\ Interfaces(retired'[x]) \subseteq Interfaces(retired[x])
                        /\ Interfaces(retired[x]) \subseteq Interfaces(retired'[x]) \cup {own}
    OBVIOUS
  <2>2. CASE x = t  BY <1>5, <2>2 DEF Interfaces
  <2>3. CASE x # t  BY <1>5, <2>3
  <2> QED  BY <2>2, <2>3
<1>9. ASSUME NEW w \in InMaps' PROVE w \in InMaps /\ ~SameOwner(w, own)
  <2>1. CASE w \in Interfaces(loading')
    BY <1>3, <2>1 DEF Interfaces, NoInterface
  <2>2. ASSUME NEW x \in Thread, w \in Interfaces(factory'[x])
        PROVE  w \in InMaps /\ ~SameOwner(w, own)
    <3>1. w \in Interfaces(factory[x]) /\ w \in InMaps  BY <1>3, <2>2 DEF InMaps
    <3>2. w.thread = x /\ own.thread = t  BY <1>1, <1>4, <1>6, <3>1 DEF ApartOK
    <3>3. w.gen \in Nat /\ own.gen \in Nat  BY <1>1, <1>6, <3>1 DEF NamesOK
    <3>4. x = t => own.gen < w.gen  BY <1>1, <1>6, <3>1 DEF ApartOK
    <3> HIDE DEF own
    <3> QED  BY <3>1, <3>2, <3>3, <3>4 DEF SameOwner
  <2>3. ASSUME NEW x \in Thread, w \in Interfaces(retired'[x])
        PROVE  w \in InMaps /\ ~SameOwner(w, own)
    <3>1. w \in Interfaces(retired[x]) /\ w \in InMaps  BY <1>8, <2>3 DEF InMaps
    <3>2. w.thread = x /\ own.thread = t  BY <1>1, <1>4, <1>6, <3>1 DEF ApartOK
    <3>3. CASE x = t
      <4>1. PICK b \in DOMAIN retired[t] : b # a /\ w = retired[t][b]
        BY <1>5, <2>3, <3>3 DEF Interfaces
      <4>2. Entries(retired[t])  BY <1>1, <1>4 DEF ApartOK
      <4> QED  BY <3>1, <4>1, <4>2 DEF Entries
    <3>4. CASE x # t  BY <3>1, <3>2, <3>4 DEF SameOwner
    <3> QED  BY <3>3, <3>4
  <2> QED  BY <2>1, <2>2, <2>3 DEF InMaps
<1>10. InMaps \subseteq InMaps' \cup {own}
  BY <1>3, <1>8 DEF InMaps
<1> HIDE DEF own, all
<1>11. objects' = objects \ all /\ handles' = handles \ (all \ {own}) /\ closing' = own
  BY <1>2 DEF own, all
<1>12. OpenOK'
  <2>1. orphans' \subseteq handles' /\ own \in handles' \ orphans'
    BY <1>1, <1>3, <1>6, <1>7, <1>11 DEF OpenOK
  <2>2. InMaps' \subseteq objects'
    BY <1>1, <1>7, <1>9, <1>11 DEF OpenOK
  <2>3. ASSUME NEW h \in handles' \ orphans', h # own
        PROVE  h \in objects' /\ \E w \in InMaps' : SameOwner(h, w)
    <3>1. h \in handles \ orphans /\ h \notin all  BY <1>3, <1>11, <2>3
    <3>2. h \in objects  BY <1>1, <1>3, <3>1 DEF OpenOK
    <3>3. PICK w \in InMaps : SameOwner(h, w)  BY <1>1, <1>3, <3>1 DEF OpenOK
    <3>4. w # own  BY <1>7, <3>1, <3>3
    <3> QED  BY <1>10, <1>11, <3>1, <3>2, <3>3, <3>4
  <2>4. handles' \subseteq handles  BY <1>11
  <2> QED  BY <1>1, <1>6, <1>11, <2>1, <2>2, <2>3, <2>4 DEF OpenOK
<1>13. ApartOK'
  <2>1. \A x \in Thread : Entries(retired'[x])
    <3>1. Entries(retired'[t])
      <4>1. Entries(retired[t])  BY <1>1, <1>4 DEF ApartOK
      <4> QED  BY <1>5, <4>1 DEF Entries
    <3>2. \A x \in Thread \ {t} : Entries(retired'[x])  BY <1>1, <1>5 DEF ApartOK
    <3> QED  BY <3>1, <3>2
  <2>2. \A x \in Thread : \A v \in Interfaces(retired'[x]) :
          /\ v.thread = x /\ v.gen < gen
          /\ \A w \in Interfaces(factory'[x]) : v.gen < w.gen
    BY <1>1, <1>3, <1>8 DEF ApartOK
  <2>3. closing'.gen < gen  BY <1>1, <1>4, <1>6, <1>11 DEF ApartOK
  <2> QED  BY <1>1, <1>3, <2>1, <2>2, <2>3 DEF ApartOK
<1>14. RetiredOK'
  <2>1. \A x \in Thread : x < t => retired'[x] = NoInterface
    BY <1>1, <1>3, <1>4, <1>5 DEF RetiredOK
  <2> QED  BY <1>3, <2>1 DEF RetiredOK
<1>15. LoadingOK'  BY <1>3 DEF LoadingOK
<1>16. LostOnlyBy'
  <2>1. \A h \in orphans : h \in handles /\ h \in handles'
    BY <1>1, <1>3, <1>7, <1>11 DEF OpenOK
  <2>2. \A h \in orphans : image'[h.lib] = image[h.lib]
    BY <2>1, ImagesKept DEF Next, Free
  <2> QED  BY <1>1, <1>3, <2>2 DEF LostOnlyBy
<1> QED  BY <1>12, <1>13, <1>14, <1>15, <1>16 DEF OwnersInv

\* The handle of the deleted interface is the last that is open of it.
LEMMA CloseHandleOwners ==
  ASSUME IInv, OwnersInv, CloseHandle
  PROVE  OwnersInv'
<1>1. ShapeOK /\ CodeOK /\ OpenOK /\ ApartOK /\ RetiredOK /\ LoadingOK /\ LostOnlyBy
  BY DEF IInv, OwnersInv
<1>2. /\ closing # Absent /\ handles' = handles \ {closing} /\ closing' = Absent
      /\ UNCHANGED <<objects, orphans, gen, pc, t, names, pos, loading, factory, retired>>
  BY DEF CloseHandle, loop, maps
<1>3. InMaps' = InMaps  BY <1>2 DEF InMaps
<1>4. OpenOK'  BY <1>1, <1>2, <1>3 DEF OpenOK, SameOwner
<1>5. ApartOK' /\ RetiredOK' /\ LoadingOK'
  BY <1>1, <1>2 DEF ApartOK, RetiredOK, LoadingOK, Entries, SameOwner, Interfaces
<1>6. LostOnlyBy'
  <2>1. \A h \in orphans : h \in handles /\ h \in handles'
    BY <1>1, <1>2 DEF OpenOK
  <2>2. \A h \in orphans : image'[h.lib] = image[h.lib]
    BY <2>1, ImagesKept DEF Next, Free
  <2> QED  BY <1>1, <1>2, <2>2 DEF LostOnlyBy
<1> QED  BY <1>4, <1>5, <1>6 DEF OwnersInv

\* At the start nothing is open and nobody owns anything.
LEMMA InitOwners ==
  ASSUME Init
  PROVE  OwnersInv
<1> USE DEF Init
<1>1. InMaps = {} /\ Interfaces(NoInterface) = {} /\ Entries(NoInterface)
  BY DEF InMaps, Interfaces, NoInterface, Entries
<1>2. OpenOK  BY <1>1 DEF OpenOK
<1>3. ApartOK  BY <1>1 DEF ApartOK
<1>4. RetiredOK /\ LoadingOK /\ LostOnlyBy  BY DEF RetiredOK, LoadingOK, LostOnlyBy
<1> QED  BY <1>2, <1>3, <1>4 DEF OwnersInv

\* Every step leaves each handle its one owner.
LEMMA OwnersKept ==
  ASSUME IInv, OwnersInv, [Next]_vars
  PROVE  OwnersInv'
<1>1. /\ ShapeOK /\ NamesOK /\ OpenOK /\ ApartOK /\ RetiredOK /\ LoadingOK /\ LostOnlyBy
  BY DEF IInv, OwnersInv
<1>2. ASSUME UNCHANGED <<code, maps, closing>>
      PROVE  OpenOK' /\ LostOnlyBy'
  <2>1. InMaps' = InMaps  BY <1>2 DEF InMaps, maps
  <2> QED  BY <1>1, <1>2, <2>1 DEF OpenOK, LostOnlyBy, SameOwner, code
<1>3. gen \in Nat /\ t \in Int /\ pos \in Int /\ \A x \in Thread : x \in Int /\ x >= 1
  BY <1>1 DEF ShapeOK, Thread
<1>4. CASE Update
  <2>1. /\ pc = "idle" /\ gen' = gen + 1 /\ pc' = "load" /\ t' = 1 /\ names' = work_names
        /\ UNCHANGED <<code, maps, closing>>
    BY <1>4 DEF Update
  <2>2. /\ loading = NoInterface /\ \A x \in Thread : retired[x] = NoInterface
    BY <1>1, <2>1 DEF RetiredOK
  <2>3. \A x \in Thread : \A w \in Interfaces(factory[x]) : w.gen < gen'
    <3>1. SUFFICES ASSUME NEW x \in Thread, NEW w \in Interfaces(factory[x]) PROVE w.gen < gen'
      OBVIOUS
    <3>2. w \in InMaps  BY <3>1 DEF InMaps
    <3>3. w.gen \in Nat /\ w.gen <= gen  BY <1>1, <3>2 DEF NamesOK
    <3> QED  BY <1>3, <2>1, <3>3
  <2>4. ApartOK'
    <3>1. closing' = Absent  BY <1>1, <2>1 DEF ShapeOK
    <3> QED
      BY <1>1, <2>1, <2>2, <2>3, <3>1
      DEF ApartOK, Interfaces, NoInterface, Entries, SameOwner, maps
  <2>5. RetiredOK'  BY <2>1, <2>2 DEF RetiredOK, maps
  <2>6. LoadingOK'  BY <1>1, <2>1, <2>2 DEF LoadingOK, ShapeOK, NoInterface, maps
  <2> QED  BY <1>2, <2>1, <2>4, <2>5, <2>6 DEF OwnersInv
<1>5. CASE OpenFails \/ NoCreate
  <2>1. /\ pos' = pos + 1 /\ UNCHANGED <<code, gen, pc, t, names, maps, closing>>
    BY <1>5 DEF OpenFails, NoCreate
  <2>2. ApartOK' /\ RetiredOK'
    BY <1>1, <2>1 DEF ApartOK, RetiredOK, Entries, SameOwner, Interfaces, maps
  <2>3. LoadingOK'
    <3>1. SUFFICES ASSUME pc = "load", NEW a \in DOMAIN loading
                   PROVE  \E i \in DOMAIN names : i < pos + 1 /\ Api[names[i]] = a
      BY <1>1, <2>1 DEF LoadingOK, maps
    <3>2. PICK i \in DOMAIN names : i < pos /\ Api[names[i]] = a
      BY <1>1, <3>1 DEF LoadingOK
    <3>3. i \in Int  BY <1>1 DEF ShapeOK
    <3> QED  BY <1>3, <3>2, <3>3
  <2> QED  BY <1>2, <2>1, <2>2, <2>3 DEF OwnersInv
<1>6. CASE LoadSection  BY <1>6, LoadSectionOwners
<1>7. CASE Swap  BY <1>7, SwapOwners
<1>8. CASE DeleteInterface  BY <1>8, DeleteInterfaceOwners
<1>9. CASE CloseHandle  BY <1>9, CloseHandleOwners
<1>10. CASE Freed
  <2>1. /\ pc = "free" /\ retired[t] = NoInterface /\ loading = NoInterface
        /\ \/ pc' = "free" /\ t' = t + 1
           \/ pc' = "idle" /\ t = ThreadNum
        /\ UNCHANGED <<code, gen, maps, closing>>
    <3>1. ThreadNum \in Nat /\ t \in 1 .. ThreadNum
      BY <1>1, PluginLoadAssumption DEF ShapeOK, Thread
    <3>2. t < ThreadNum \/ t = ThreadNum  BY <3>1
    <3> QED  BY <1>1, <1>10, <3>2 DEF Freed, RetiredOK
  <2>2. ApartOK'
    BY <1>1, <2>1 DEF ApartOK, Entries, SameOwner, Interfaces, NoInterface, maps
  <2>3. RetiredOK'
    <3>1. ASSUME NEW x \in Thread, pc' = "idle" \/ x < t'
          PROVE  retired[x] = NoInterface
      <4>1. x < t \/ x = t
        BY <1>3, <2>1, <3>1, PluginLoadAssumption DEF Thread
      <4> QED  BY <1>1, <2>1, <4>1 DEF RetiredOK
    <3> QED  BY <2>1, <3>1 DEF RetiredOK, maps
  <2>4. LoadingOK'  BY <2>1 DEF LoadingOK
  <2> QED  BY <1>2, <2>1, <2>2, <2>3, <2>4 DEF OwnersInv
<1>11. CASE Deploy \/ EditConfig \/ UNCHANGED vars
  <2>1. UNCHANGED <<code, loop, maps, closing>>
    BY <1>11 DEF Deploy, EditConfig, vars
  <2>2. ApartOK' /\ RetiredOK' /\ LoadingOK'
    BY <1>1, <2>1 DEF ApartOK, RetiredOK, LoadingOK, Entries, SameOwner, Interfaces, loop, maps
  <2> QED  BY <1>2, <2>1, <2>2 DEF OwnersInv
<1> QED
  BY <1>4, <1>5, <1>6, <1>7, <1>8, <1>9, <1>10, <1>11 DEF Next, Load, Free

\* Every open handle has an owner or is lost, and the owners are apart.
THEOREM Owners == Spec => []OwnersInv
<1>1. Init => OwnersInv  BY InitOwners
<1>2. IInv /\ OwnersInv /\ [Next]_vars => OwnersInv'  BY OwnersKept
<1> QED  BY <1>1, <1>2, Inductive, PTL DEF Spec

\* When no update is in progress, all that is open is lost or serves, and all
\* that serves is alive.
THEOREM OnlyServing == Spec => []OnlyServingIsOpen
<1>1. IInv /\ OwnersInv => OnlyServingIsOpen
  <2> SUFFICES ASSUME IInv, OwnersInv, pc = "idle"
               PROVE  /\ handles = orphans \cup UNION {Owned(Interfaces(factory[x])) : x \in Thread}
                      /\ \A x \in Thread : Interfaces(factory[x]) \subseteq objects
    BY DEF OnlyServingIsOpen
  <2>1. /\ closing = Absent /\ OpenOK
        /\ loading = NoInterface /\ \A x \in Thread : retired[x] = NoInterface
    BY DEF IInv, ShapeOK, OwnersInv, RetiredOK
  <2>2. InMaps = UNION {Interfaces(factory[x]) : x \in Thread}
    BY <2>1 DEF InMaps, Interfaces, NoInterface
  <2>3. \A x \in Thread : Interfaces(factory[x]) \subseteq objects
    BY <2>1, <2>2 DEF OpenOK
  <2>4. ASSUME NEW h \in handles \ orphans
        PROVE  \E x \in Thread : h \in Owned(Interfaces(factory[x]))
    <3>1. PICK w \in InMaps : SameOwner(h, w)  BY <2>1, <2>4 DEF OpenOK
    <3>2. PICK x \in Thread : w \in Interfaces(factory[x])  BY <2>2
    <3> QED  BY <2>4, <3>1, <3>2 DEF Owned
  <2>5. \A x \in Thread : Owned(Interfaces(factory[x])) \subseteq handles  BY DEF Owned
  <2>6. orphans \subseteq handles  BY <2>1 DEF OpenOK
  <2> QED  BY <2>3, <2>4, <2>5, <2>6
<1> QED  BY <1>1, Inductive, Owners, PTL

\* Handles are lost by an algorithm without a create function and by a section
\* whose API is another's, and by nothing else.
THEOREM Lost == Spec => []LostOnlyBy
<1>1. OwnersInv => LostOnlyBy  BY DEF OwnersInv
<1> QED  BY <1>1, Owners, PTL

\* An interface or an algorithm that is created runs what is in the file now,
\* if nothing has kept its library open.
THEOREM Fresh == Spec => FreshCode
<1>1. IInv /\ OwnersInv /\ [Next]_vars =>
        [\A h \in objects' \ objects :
           (\A o \in objects \cup orphans : o.lib # h.lib) => image'[h.lib] = file[h.lib]]_vars
  <2> SUFFICES ASSUME IInv, OwnersInv, Next, NEW h \in objects', h \notin objects,
                      \A o \in objects \cup orphans : o.lib # h.lib
               PROVE  image'[h.lib] = file[h.lib]
    OBVIOUS
  <2>1. ShapeOK /\ CodeOK /\ OpenOK  BY DEF IInv, OwnersInv
  <2>2. CASE LoadSection
    <3>1. closing = Absent  BY <2>1, <2>2 DEF LoadSection, AtSection, ShapeOK
    <3>2. handles \subseteq objects \cup orphans  BY <2>1, <3>1 DEF OpenOK
    <3>3. ~ Mapped(h.lib)  BY <3>2 DEF Mapped
    <3>4. PICK new \in SUBSET NewHandle : \E own \in new : Opens(new, own)
      BY <2>1, <2>2, Loaded
    <3>5. image'[h.lib] = Opened(h.lib)  BY <3>4 DEF Opens
    <3> QED  BY <3>3, <3>5 DEF Opened
  <2>3. CASE objects' \subseteq objects  BY <2>3
  <2> QED
    BY <2>2, <2>3
    DEF Next, Load, Free, Deploy, EditConfig, Update, OpenFails, NoCreate, Swap,
        DeleteInterface, CloseHandle, Freed, code
<1> QED  BY <1>1, Inductive, Owners, PTL DEF Spec, FreshCode

-----------------------------------------------------------------------------
(* The procedure that replaces a plugin. *)

Others  == {Without[i] : i \in DOMAIN Without}
Good(l) == file[l] \in Version \ Broken

\* A library that is mapped is what its file is.
Steady(l) == image[l] \in {Absent, file[l]}

\* No copy of the last command is accepted yet, or the command is over: the
\* last update has read work_config.ini as it is now.
UpToDate == op \in {"removing", "adding", "done"} => pending < sent

\* Where the procedure is, what the operator has sent, and what the file says.
ProcedureOK ==
  /\ pending \in Nat /\ sent \in Nat /\ early \in BOOLEAN
  /\ op \in {"serving", "removing", "replaced", "adding", "done"}
  /\ op # "serving" => gen > 0 /\ (pc = "load" => gen > 1)
  /\ work_names = IF op \in {"removing", "replaced"} THEN Without ELSE All
  /\ pc = "load" => names \in {All, Without}

\* What is known besides as long as no files were replaced early: no update of
\* one step of the procedure runs into the next.
PacedOK ==
  /\ op \in {"serving", "replaced"} => pending = 0
  /\ op = "replaced" => pc = "idle"
  /\ op \in {"removing", "adding", "done"} =>
       sent > 0 /\ pending <= sent /\ (pending = sent => pc = "idle")
  /\ pc = "load" => names = work_names

\* The sections of S that the loop has passed are served, if their file is good.
Loading(S) ==
  pc = "load" => \A i \in DOMAIN names :
    i < pos /\ names[i] \in S /\ Good(So[names[i]]) => Api[names[i]] \in DOMAIN loading

\* Every thread has been given a factory, and it serves the others.
OthersInv ==
  /\ \A l \in Lib \ OnlyHere : Steady(l)
  /\ Loading(Others)
  /\ \A x \in Thread : gen > 1 \/ (gen = 1 /\ (pc = "load" => x < t)) =>
       \A s \in Others : Good(So[s]) => Api[s] \in DOMAIN factory[x]

\* Nothing is lost, and all that an update has opened is of its configuration.
OrderInv ==
  /\ orphans = {}
  /\ \A l \in Lib : Steady(l) /\ (image[l] # Absent => Mapped(l))
  /\ \A c \in {All, Without} : \A i \in DOMAIN c : \A l \in AlgLibs(c[i]) : file[l] \notin Broken
  /\ \A h \in handles : h.gen = gen /\ UpToDate =>
       \E i \in DOMAIN work_names : h.lib \in Libs(work_names[i])
  /\ \A x \in Thread : (pc = "load" => x < t) =>
       \A w \in Interfaces(factory[x]) : w.gen = gen

\* What is open of a library since this update.
OpenNow(l) == \E h \in handles : h.lib = l /\ h.gen = gen

\* The replaced section is in the factories that the update has built, ...
ThreadsServe ==
  \A x \in Thread : (pc = "load" => x < t) => Api[Replaced] \in DOMAIN factory[x]

\* ... and, once the first of them has come past it, its libraries are open.
Through ==
  pc = "load" => t > 1 \/ \E i \in DOMAIN names : i < pos /\ names[i] = Replaced

\* The replaced section is loaded from the new files.
NewInv ==
  /\ op \in {"replaced", "adding", "done"} => \A l \in OnlyHere : file[l] = New
  /\ Loading({Replaced})
  /\ op \in {"adding", "done"} /\ UpToDate =>
       ThreadsServe /\ (Through => \A l \in OnlyHere : OpenNow(l))

\* The procedure as its author must have meant it: what is edited is one
\* section of the configuration, ...
OneSection ==
  /\ \E i \in DOMAIN All : All[i] = Replaced
  /\ \A s \in Others : \E i \in DOMAIN All : All[i] = s

\* ... each section has an API of its own, all algorithms have a create
\* function, and the plugin's library is not that of another one.
Orderly ==
  /\ OneSection
  /\ \A c \in {All, Without} : \A i, j \in DOMAIN c : Api[c[i]] = Api[c[j]] => i = j
  /\ \A f \in OldFiles : \A c \in {All, Without} : \A i \in DOMAIN c :
       \A l \in AlgLibs(c[i]) : f[l] \notin Broken
  /\ So[Replaced] \in OnlyHere

-----------------------------------------------------------------------------
\* The procedure, seen from the program, is the program's own steps, edits of
\* the configuration, and the replacement of the files.
LEMMA StepOfProgram ==
  ASSUME [NextReplace]_varsReplace
  PROVE  ReplaceFiles \/ ([Next]_vars /\ file' = file)
<1>1. CASE RemoveSection \/ AddSection
  BY <1>1, PluginReplaceAssumption DEF RemoveSection, AddSection, Next, EditConfig
<1>2. CASE Service
  BY <1>2 DEF Service, Accept, Update, Load, Free, OpenFails, NoCreate, LoadSection, Swap,
              DeleteInterface, CloseHandle, Freed, Next, disk
<1>3. CASE UNCHANGED vars  BY <1>3 DEF vars, disk
<1> QED
  BY <1>1, <1>2, <1>3 DEF NextReplace, Procedure, Resend, Done, varsReplace

\* The invariants of the program do not depend on what its files are.
LEMMA ProgramKept ==
  ASSUME IInv, OwnersInv, [NextReplace]_varsReplace
  PROVE  IInv' /\ OwnersInv'
<1>1. CASE ReplaceFiles
  <2>1. /\ file' = [l \in Lib |-> IF l \in OnlyHere THEN New ELSE file[l]]
        /\ UNCHANGED <<work_names, code, loop, maps, closing>>
    BY <1>1 DEF ReplaceFiles
  <2>2. file' \in [Lib -> Version \cup {Absent}]
    BY <2>1, PluginReplaceAssumption DEF IInv, ShapeOK
  <2>3. InMaps' = InMaps  BY <2>1 DEF InMaps, maps
  <2>4. ShapeOK' /\ CodeOK' /\ NamesOK' /\ MapsOK'
    BY <2>1, <2>2, <2>3
    DEF IInv, ShapeOK, CodeOK, NamesOK, MapsOK, Passed, code, loop, maps
  <2>5. OpenOK' /\ LostOnlyBy'
    BY <2>1, <2>3 DEF OwnersInv, OpenOK, LostOnlyBy, SameOwner, code
  <2>6. ApartOK' /\ RetiredOK' /\ LoadingOK'
    BY <2>1 DEF OwnersInv, ApartOK, RetiredOK, LoadingOK, Entries, SameOwner, Interfaces, loop, maps
  <2> QED  BY <2>4, <2>5, <2>6 DEF IInv, OwnersInv
<1>2. CASE [Next]_vars  BY <1>2, IInvKept, OwnersKept
<1> QED  BY <1>1, <1>2, StepOfProgram

\* A step of the service between two commands.
LEMMA ServiceStep ==
  ASSUME IInv, Load \/ Free
  PROVE  /\ pc # "idle" /\ UNCHANGED <<file, work_names, gen>>
         /\ pc' = "load" => pc = "load" /\ (names' = names \/ names' = work_names)
<1>1. closing # Absent => pc = "free"  BY DEF IInv, ShapeOK
<1>2. CASE Load
  BY <1>2 DEF Load, OpenFails, NoCreate, LoadSection, Swap, AtSection, disk
<1>3. CASE Free
  BY <1>1, <1>3 DEF Free, DeleteInterface, CloseHandle, Freed, disk, loop
<1> QED  BY <1>2, <1>3

\* Where the operator is.
LEMMA ProcedureKept ==
  ASSUME IInv, ProcedureOK, [NextReplace]_varsReplace
  PROVE  ProcedureOK'
<1>1. pending \in Nat /\ sent \in Nat /\ gen \in Nat /\ early \in BOOLEAN
  BY DEF ProcedureOK, IInv, ShapeOK
<1>2. CASE Accept
  <2>1. /\ pc = "idle" /\ gen' = gen + 1 /\ pc' = "load" /\ names' = work_names
        /\ UNCHANGED <<work_names, op, sent, early>>
        /\ gen = 0 \/ pending > 0
        /\ pending' = IF gen = 0 THEN 0 ELSE pending - 1
    BY <1>2 DEF Accept, Update, disk
  <2>2. op # "serving" => gen > 0
    BY DEF ProcedureOK
  <2> QED  BY <1>1, <2>1, <2>2 DEF ProcedureOK
<1>3. CASE (Load \/ Free) /\ UNCHANGED <<op, pending, sent, early>>
  BY <1>1, <1>3, ServiceStep DEF ProcedureOK
<1>4. CASE RemoveSection
  BY <1>1, <1>4 DEF RemoveSection, Answered, ProcedureOK, loop
<1>5. CASE ReplaceFiles
  BY <1>1, <1>5 DEF ReplaceFiles, Answered, ProcedureOK, loop
<1>6. CASE AddSection
  BY <1>1, <1>6 DEF AddSection, ProcedureOK, loop
<1>7. CASE Done
  BY <1>1, <1>7 DEF Done, ProcedureOK, vars, disk, loop
<1>8. CASE Resend
  BY <1>1, <1>8 DEF Resend, ProcedureOK, vars, disk, loop
<1>9. CASE UNCHANGED varsReplace
  BY <1>9 DEF varsReplace, ProcedureOK, vars, disk, loop
<1> QED
  BY <1>2, <1>3, <1>4, <1>5, <1>6, <1>7, <1>8, <1>9 DEF NextReplace, Procedure, Service

\* Who has been early stays so, and who replaces the files without being early
\* has waited for the update.
LEMMA EarlyStays ==
  ASSUME ProcedureOK, [NextReplace]_varsReplace, ~early'
  PROVE  ~early /\ (ReplaceFiles => Answered)
BY DEF ProcedureOK, NextReplace, Procedure, Service, Accept, Resend, RemoveSection, ReplaceFiles,
       AddSection, Done, varsReplace

\* No command is executed between the steps in which the operator rightly
\* believes there is none.
LEMMA PacedKept ==
  ASSUME IInv, ProcedureOK, PacedOK, [NextReplace]_varsReplace, ~early'
  PROVE  PacedOK'
<1>1. pending \in Nat /\ sent \in Nat /\ gen \in Nat
  BY DEF ProcedureOK, IInv, ShapeOK
<1>2. CASE Accept
  <2>1. /\ pc = "idle" /\ pc' = "load" /\ names' = work_names
        /\ UNCHANGED <<work_names, op, sent>>
        /\ gen = 0 \/ pending > 0
        /\ pending' = IF gen = 0 THEN 0 ELSE pending - 1
    BY <1>2 DEF Accept, Update, disk
  <2>2. op \in {"serving", "removing", "adding", "done"} /\ (op # "serving" => gen > 0)
    BY <2>1 DEF ProcedureOK, PacedOK
  <2> QED  BY <1>1, <2>1, <2>2 DEF PacedOK
<1>3. CASE (Load \/ Free) /\ UNCHANGED <<op, pending, sent, early>>
  <2>1. op # "replaced"  BY <1>3, ServiceStep DEF PacedOK
  <2>2. op \in {"removing", "adding", "done"} => pending # sent
    BY <1>3, ServiceStep DEF PacedOK
  <2> QED  BY <1>1, <1>3, <2>1, <2>2, ServiceStep DEF PacedOK
<1>4. CASE RemoveSection
  BY <1>1, <1>4 DEF RemoveSection, Answered, PacedOK, loop
<1>5. CASE ReplaceFiles
  BY <1>1, <1>5, EarlyStays DEF ReplaceFiles, Answered, PacedOK, loop
<1>6. CASE AddSection
  BY <1>1, <1>6 DEF AddSection, PacedOK, loop
<1>7. CASE Done
  BY <1>1, <1>7 DEF Done, PacedOK, vars, disk, loop
<1>8. CASE Resend
  BY <1>1, <1>8 DEF Resend, PacedOK, vars, disk, loop
<1>9. CASE UNCHANGED varsReplace
  BY <1>9 DEF varsReplace, PacedOK, vars, disk, loop
<1> QED
  BY <1>2, <1>3, <1>4, <1>5, <1>6, <1>7, <1>8, <1>9 DEF NextReplace, Procedure, Service

-----------------------------------------------------------------------------
\* What dlopen gives of a library that is mapped as its file is.
LEMMA OpenedSteady ==
  ASSUME CodeOK, NEW l, Steady(l)
  PROVE  Opened(l) = file[l]
BY DEF CodeOK, Opened, Mapped, Steady

\* As long as a file stays, nothing else comes to be mapped of it.
LEMMA SteadyKept ==
  ASSUME IInv, [Next]_vars, file' = file, NEW l \in Lib, Steady(l)
  PROVE  Steady(l)'
<1>1. ShapeOK /\ CodeOK  BY DEF IInv
<1>2. CASE LoadSection
  <2>1. PICK new \in SUBSET NewHandle : \E own \in new : Opens(new, own)
    BY <1>1, <1>2, Loaded
  <2>2. image'[l] = image[l] \/ image'[l] = Opened(l)  BY <2>1 DEF Opens
  <2> QED  BY <1>1, <2>2, OpenedSteady DEF Steady
<1>3. CASE DeleteInterface \/ CloseHandle
  <2>1. image' = Left(handles')  BY <1>3 DEF DeleteInterface, CloseHandle
  <2> QED  BY <2>1 DEF Left, Steady
<1>4. CASE UNCHANGED image  BY <1>4 DEF Steady
<1> QED
  BY <1>2, <1>3, <1>4
  DEF Next, Load, Free, Deploy, EditConfig, Update, OpenFails, NoCreate, Swap, Freed, code, vars

\* What is mapped is open.
LEMMA MappedKept ==
  ASSUME IInv, [Next]_vars, NEW l \in Lib, image[l] # Absent => Mapped(l)
  PROVE  image'[l] # Absent => Mapped(l)'
<1>1. ShapeOK /\ CodeOK  BY DEF IInv
<1>2. CASE LoadSection
  <2>1. PICK new \in SUBSET NewHandle : \E own \in new : Opens(new, own)
    BY <1>1, <1>2, Loaded
  <2>2. /\ handles' = handles \cup new
        /\ image'[l] = image[l] \/ \E h \in new : h.lib = l
    BY <2>1 DEF Opens
  <2> QED  BY <2>2 DEF Mapped
<1>3. CASE DeleteInterface \/ CloseHandle
  <2>1. image' = Left(handles')  BY <1>3 DEF DeleteInterface, CloseHandle
  <2> QED  BY <2>1 DEF Left, Mapped
<1>4. CASE UNCHANGED <<image, handles>>  BY <1>4 DEF Mapped
<1> QED
  BY <1>2, <1>3, <1>4
  DEF Next, Load, Free, Deploy, EditConfig, Update, OpenFails, NoCreate, Swap, Freed, code, vars

\* The loop leaves no section out whose file is good.
LEMMA LoadingKept ==
  ASSUME IInv, NEW S, \A s \in S : Steady(So[s]), Loading(S), [Next]_vars, file' = file
  PROVE  Loading(S)'
<1>1. ShapeOK /\ CodeOK  BY DEF IInv
<1>2. /\ pos \in Nat /\ names \in Seq(Section) /\ \A i \in DOMAIN names : i \in Nat /\ i >= 1
  BY <1>1 DEF ShapeOK
<1>3. \A l : Good(l)' = Good(l)  BY DEF Good
<1>4. ASSUME AtSection, pos' = pos + 1, pc' = pc, names' = names,
             DOMAIN loading \subseteq DOMAIN loading',
             names[pos] \in S /\ Good(So[names[pos]]) => Api[names[pos]] \in DOMAIN loading'
      PROVE  Loading(S)'
  <2>1. pc = "load"  BY <1>4 DEF AtSection
  <2>2. SUFFICES ASSUME NEW i \in DOMAIN names, i < pos + 1, names[i] \in S, Good(So[names[i]])
                 PROVE  Api[names[i]] \in DOMAIN loading'
    BY <1>3, <1>4 DEF Loading
  <2>3. i < pos \/ i = pos  BY <1>2, <2>2
  <2> QED  BY <1>4, <2>1, <2>2, <2>3 DEF Loading
<1>5. CASE OpenFails \/ NoCreate
  <2>1. /\ AtSection /\ pos' = pos + 1 /\ UNCHANGED <<pc, names, loading>>
        /\ Opened(So[names[pos]]) = Absent \/ Opened(So[names[pos]]) \in Broken
    BY <1>5 DEF OpenFails, NoCreate, maps
  <2>2. ASSUME names[pos] \in S, Good(So[names[pos]])
        PROVE  FALSE
    BY <1>1, <2>1, <2>2, OpenedSteady, PluginLoadAssumption DEF Good
  <2> QED  BY <1>4, <2>1, <2>2
<1>6. CASE LoadSection
  <2>1. PICK new \in SUBSET NewHandle : \E own \in new :
          Loses(new, Api[names[pos]]) \/ Installs(own, Api[names[pos]])
    BY <1>1, <1>6, Loaded
  <2>2. DOMAIN loading' = DOMAIN loading \cup {Api[names[pos]]}
    BY <2>1 DEF Loses, Installs
  <2> QED  BY <1>4, <1>6, <2>2 DEF LoadSection
<1>7. CASE Update \/ Swap
  <2>1. pos' = 1 /\ names' = work_names  BY <1>7 DEF Update, Swap
  <2>2. names' \in Seq(Section)  BY <1>1, <2>1, PluginLoadAssumption DEF ShapeOK
  <2>3. \A i \in DOMAIN names' : ~(i < pos')  BY <2>1, <2>2
  <2> QED  BY <2>3 DEF Loading
<1>8. CASE DeleteInterface \/ CloseHandle \/ Freed
  <2>1. pc' # "load"
    BY <1>1, <1>8 DEF ShapeOK, DeleteInterface, CloseHandle, Freed, loop
  <2> QED  BY <2>1 DEF Loading
<1>9. CASE UNCHANGED <<pc, names, pos, loading>>
  BY <1>3, <1>9 DEF Loading
<1> QED
  BY <1>5, <1>6, <1>7, <1>8, <1>9
  DEF Next, Load, Free, Deploy, EditConfig, loop, maps, vars

\* Where the loop has ended, a section of the configuration is served.
LEMMA LoadedAll ==
  ASSUME IInv, NEW S, Loading(S), Swap, NEW i \in DOMAIN names, names[i] \in S, Good(So[names[i]])
  PROVE  i < pos /\ Api[names[i]] \in DOMAIN loading
<1>1. pc = "load" /\ pos > Len(names)  BY DEF Swap
<1>2. i <= Len(names) /\ i \in Nat /\ Len(names) \in Nat /\ pos \in Nat  BY DEF IInv, ShapeOK
<1>3. i < pos  BY <1>1, <1>2
<1> QED  BY <1>1, <1>3 DEF Loading

-----------------------------------------------------------------------------
\* The steps that change a factory, or which of them an update has made.
LEMMA FactorySteps ==
  ASSUME IInv, [Next]_vars
  PROVE  \/ Update \/ Swap
         \/ UNCHANGED <<gen, factory, pc, t>>
         \/ UNCHANGED <<gen, factory>> /\ pc = "free" /\ pc' # "load"
<1>1. CASE OpenFails \/ NoCreate \/ LoadSection
  BY <1>1 DEF OpenFails, NoCreate, LoadSection, maps
<1>2. CASE DeleteInterface \/ CloseHandle
  BY <1>2 DEF DeleteInterface, CloseHandle, loop, maps
<1>3. CASE Freed
  BY <1>3 DEF Freed, maps, IInv, ShapeOK
<1>4. CASE Deploy \/ EditConfig \/ UNCHANGED vars
  BY <1>4 DEF Deploy, EditConfig, loop, maps, vars
<1> QED  BY <1>1, <1>2, <1>3, <1>4 DEF Next, Load, Free

\* A swap gives one thread the new factory; it is the last one's turn when the
\* loop ends.
LEMMA SwapStep ==
  ASSUME IInv, Swap
  PROVE  /\ pc = "load" /\ factory'[t] = loading /\ gen' = gen
         /\ \A x \in Thread \ {t} : factory'[x] = factory[x]
         /\ \A x \in Thread : (pc' = "load" => x < t') /\ x # t => x < t
         /\ pc' = "load" => t' > 1
<1>1. /\ t \in Thread /\ ThreadNum \in Nat /\ DOMAIN factory = Thread
  BY PluginLoadAssumption DEF IInv, ShapeOK
<1>2. /\ pc = "load" /\ factory' = [factory EXCEPT ![t] = loading] /\ gen' = gen
      /\ \/ t < ThreadNum /\ t' = t + 1 /\ pc' = "load"
         \/ ~(t < ThreadNum) /\ t' = 1 /\ pc' = "free"
  BY DEF Swap
<1>3. \A x \in Thread : (pc' = "load" => x < t') /\ x # t => x < t
  BY <1>1, <1>2 DEF Thread
<1>4. pc' = "load" => t' > 1  BY <1>1, <1>2 DEF Thread
<1> QED  BY <1>1, <1>2, <1>3, <1>4

\* The other sections are in every factory that is put in place.
LEMMA OthersKept ==
  ASSUME OneSection, IInv, ProcedureOK, OthersInv, [NextReplace]_varsReplace
  PROVE  OthersInv'
<1>1. ShapeOK /\ gen \in Nat /\ \A x \in Thread : x \in Int /\ x >= 1
  BY DEF IInv, ShapeOK, Thread
<1>2. \A s \in Others : s \in Section /\ So[s] \in Lib /\ So[s] \notin OnlyHere
  <2>1. Without \in Seq(Section)  BY PluginReplaceAssumption, PluginLoadAssumption
  <2>2. \A i \in DOMAIN Without : Without[i] \in Section /\ So[Without[i]] \in Lib
    BY <2>1, PluginLoadAssumption
  <2>3. \A i \in DOMAIN Without : So[Without[i]] \notin OnlyHere
    BY DEF OnlyHere, LibsOf
  <2> QED  BY <2>2, <2>3 DEF Others
<1>3. \A s \in Others : Steady(So[s])  BY <1>2 DEF OthersInv
<1>4. CASE ReplaceFiles
  <2>1. /\ file' = [l \in Lib |-> IF l \in OnlyHere THEN New ELSE file[l]]
        /\ UNCHANGED <<image, gen, pc, t, pos, names, factory, loading>>
    BY <1>4 DEF ReplaceFiles, code, loop, maps
  <2>2. \A l \in Lib \ OnlyHere : Steady(l)'
    BY <2>1 DEF OthersInv, Steady
  <2>3. \A s \in Others : Good(So[s])' => Good(So[s])
    BY <1>2, <2>1 DEF Good
  <2>4. Loading(Others)'  BY <2>1, <2>3 DEF Loading, OthersInv
  <2>5. \A x \in Thread : gen' > 1 \/ (gen' = 1 /\ (pc' = "load" => x < t')) =>
          \A s \in Others : Good(So[s])' => Api[s] \in DOMAIN factory'[x]
    BY <2>1, <2>3 DEF OthersInv
  <2> QED  BY <2>2, <2>4, <2>5 DEF OthersInv
<1>5. CASE [Next]_vars /\ file' = file
  <2>1. \A l \in Lib \ OnlyHere : Steady(l)'  BY <1>5, SteadyKept DEF OthersInv
  <2>2. Loading(Others)'  BY <1>3, <1>5, LoadingKept DEF OthersInv
  <2>3. SUFFICES ASSUME NEW x \in Thread, gen' > 1 \/ (gen' = 1 /\ (pc' = "load" => x < t')),
                        NEW s \in Others, Good(So[s])'
                 PROVE  Api[s] \in DOMAIN factory'[x]
    BY <2>1, <2>2 DEF OthersInv
  <2>4. Good(So[s])  BY <1>5, <2>3 DEF Good
  <2>5. gen > 1 \/ (gen = 1 /\ (pc = "load" => x < t)) => Api[s] \in DOMAIN factory[x]
    BY <2>3, <2>4 DEF OthersInv
  <2>6. CASE Update
    <3>1. /\ pc = "idle" /\ gen' = gen + 1 /\ pc' = "load" /\ t' = 1 /\ factory' = factory
      BY <2>6 DEF Update, maps
    <3>2. gen >= 1  BY <1>1, <2>3, <3>1
    <3> QED  BY <1>1, <2>5, <3>1, <3>2
  <2>7. CASE Swap
    <3>1. CASE x = t
      <4>1. names \in {All, Without}
        BY <2>7, SwapStep DEF ProcedureOK
      <4>2. PICK i \in DOMAIN names : names[i] = s
        BY <4>1 DEF OneSection, Others
      <4>3. Api[s] \in DOMAIN loading
        BY <2>4, <2>7, <4>2, LoadedAll DEF OthersInv
      <4> QED  BY <2>7, <3>1, <4>3, SwapStep
    <3>2. CASE x # t
      <4>1. factory'[x] = factory[x] /\ gen' = gen  BY <2>7, <3>2, SwapStep
      <4>2. gen = 1 => x < t  BY <1>1, <2>3, <2>7, <3>2, <4>1, SwapStep
      <4> QED  BY <1>1, <2>3, <2>5, <4>1, <4>2
    <3> QED  BY <3>1, <3>2
  <2>8. CASE UNCHANGED <<gen, factory, pc, t>> \/ (UNCHANGED <<gen, factory>> /\ pc = "free" /\ pc' # "load")
    BY <2>3, <2>5, <2>8
  <2> QED  BY <1>5, <2>6, <2>7, <2>8, FactorySteps
<1> QED  BY <1>4, <1>5, StepOfProgram

\* The start of the procedure.
LEMMA InitAll ==
  ASSUME InitReplace
  PROVE  IInv /\ OwnersInv /\ ProcedureOK /\ OthersInv
<1>1. Init  BY DEF InitReplace
<1>2. IInv /\ OwnersInv  BY <1>1, InitInv, InitOwners
<1>3. ProcedureOK  BY DEF InitReplace, Init, ProcedureOK
<1>4. OthersInv
  BY DEF Init, InitReplace, OthersInv, Steady, Loading
<1> QED  BY <1>2, <1>3, <1>4

\* What is known of the procedure, whatever the algorithms are.
LEMMA Invariants ==
  ASSUME OneSection
  PROVE  SpecReplace => [](IInv /\ OwnersInv /\ ProcedureOK /\ OthersInv)
<1>1. /\ IInv /\ OwnersInv /\ ProcedureOK /\ OthersInv /\ [NextReplace]_varsReplace
      => (IInv /\ OwnersInv /\ ProcedureOK /\ OthersInv)'
  BY ProgramKept, ProcedureKept, OthersKept
<1>2. InitReplace => IInv /\ OwnersInv /\ ProcedureOK /\ OthersInv  BY InitAll
<1> QED  BY <1>1, <1>2, PTL DEF SpecReplace

\* While a plugin is replaced every thread serves the others, whatever else
\* happens: commands sent twice, algorithms without a create function, sections
\* that share an API.
THEOREM OthersGoOn ==
  ASSUME OneSection
  PROVE  SpecReplace => []OthersServe
<1>1. IInv /\ ProcedureOK /\ OthersInv => OthersServe
  <2> SUFFICES ASSUME IInv, ProcedureOK, OthersInv, op # "serving", NEW x \in Thread,
                      NEW i \in DOMAIN Without, file[So[Without[i]]] \in Version \ Broken
               PROVE  Api[Without[i]] \in DOMAIN factory[x]
    BY DEF OthersServe
  <2>1. gen \in Nat /\ gen > 0 /\ (pc = "load" => gen > 1)
    BY DEF ProcedureOK, IInv, ShapeOK
  <2>2. gen > 1 \/ (gen = 1 /\ pc # "load")  BY <2>1
  <2> QED  BY <2>2 DEF OthersInv, Others, Good
<1> QED  BY <1>1, Invariants, PTL

-----------------------------------------------------------------------------
\* The libraries of sections, as the two modules name them.
LEMMA LibrariesOf ==
  /\ \A s : LibsOf(s) = Libs(s)
  /\ OnlyHere \subseteq Lib /\ OnlyHere \subseteq Libs(Replaced)
<1>1. \A s : LibsOf(s) = Libs(s)  BY DEF LibsOf, Libs, AlgLibs
<1>2. So[Replaced] \in Lib /\ AlgLibs(Replaced) \subseteq Lib
  BY PluginLoadAssumption, PluginReplaceAssumption DEF AlgLibs
<1> QED  BY <1>1, <1>2 DEF OnlyHere, Libs

\* What the last update has read is still the configuration, if it was before.
LEMMA UpToDateKept ==
  ASSUME ProcedureOK, PacedOK, [NextReplace]_varsReplace, ~early', UpToDate'
  PROVE  /\ work_names' = work_names
         /\ Update \/ UpToDate
         /\ op' \in {"adding", "done"} => op \in {"adding", "done"}
<1>1. pending \in Nat /\ sent \in Nat  BY DEF ProcedureOK
<1>2. CASE Accept  BY <1>2 DEF Accept, Update, disk
<1>3. CASE (Load \/ Free) /\ UNCHANGED <<op, pending, sent, early>>
  <2>1. work_names' = work_names
    BY <1>3 DEF Load, Free, OpenFails, NoCreate, LoadSection, Swap, DeleteInterface,
                CloseHandle, Freed, disk
  <2> QED  BY <1>3, <2>1 DEF UpToDate
<1>4. CASE RemoveSection \/ AddSection
  <2>1. pending = 0 /\ pending' = pending + 1 /\ sent' = 1 /\ op' \in {"removing", "adding"}
    BY <1>4 DEF RemoveSection, AddSection, Answered, PacedOK
  <2> QED  BY <2>1 DEF UpToDate
<1>5. CASE ReplaceFiles
  BY <1>1, <1>5, EarlyStays DEF ReplaceFiles, Answered, PacedOK, UpToDate
<1>6. CASE Done
  BY <1>1, <1>6 DEF Done, UpToDate, vars, disk
<1>7. CASE Resend
  <2>1. /\ op' = op /\ work_names' = work_names
        /\ pending' = pending + 1 /\ sent' = sent + 1
    BY <1>7 DEF Resend, vars, disk
  <2> QED  BY <1>1, <2>1 DEF UpToDate
<1>8. CASE UNCHANGED varsReplace  BY <1>8 DEF varsReplace, UpToDate, vars, disk
<1> QED
  BY <1>2, <1>3, <1>4, <1>5, <1>6, <1>7, <1>8 DEF NextReplace, Procedure, Service

\* When the operator replaces the files, nothing that only the section uses is
\* open any more: every handle belongs to a factory that the last update has
\* built, and that update did not know the section.
LEMMA ReplacedUnmapped ==
  ASSUME IInv, OwnersInv, ProcedureOK, PacedOK, OrderInv, ReplaceFiles, Answered, NEW l \in OnlyHere
  PROVE  image[l] = Absent
<1> SUFFICES ASSUME image[l] # Absent PROVE FALSE
  OBVIOUS
<1>1. /\ op = "removing" /\ pc = "idle" /\ pending = 0 /\ work_names = Without
      /\ sent \in Nat /\ sent > 0
  BY DEF ReplaceFiles, Answered, ProcedureOK, PacedOK
<1>2. PICK h \in handles : h.lib = l
  BY LibrariesOf DEF OrderInv, Mapped
<1>3. closing = Absent /\ h \notin orphans  BY <1>1 DEF IInv, ShapeOK, OrderInv
<1>4. PICK w \in InMaps : SameOwner(h, w)
  BY <1>2, <1>3 DEF OwnersInv, OpenOK
<1>5. loading = NoInterface /\ \A x \in Thread : retired[x] = NoInterface
  BY <1>1 DEF OwnersInv, RetiredOK
<1>6. Interfaces(NoInterface) = {}  BY DEF Interfaces, NoInterface
<1>7. PICK x \in Thread : w \in Interfaces(factory[x])
  BY <1>4, <1>5, <1>6 DEF InMaps
<1>8. h.gen = gen  BY <1>1, <1>4, <1>7 DEF OrderInv, SameOwner
<1>9. UpToDate  BY <1>1 DEF UpToDate
<1>10. PICK i \in DOMAIN Without : l \in Libs(Without[i])
  BY <1>1, <1>2, <1>8, <1>9 DEF OrderInv
<1> QED  BY <1>10, LibrariesOf DEF OnlyHere

\* Nothing is lost: no two sections share an API, and no algorithm lacks its
\* create function.
LEMMA NothingLost ==
  ASSUME Orderly, IInv, OwnersInv, ProcedureOK, OrderInv, [Next]_vars
  PROVE  orphans' = {}
<1>1. ShapeOK /\ CodeOK  BY DEF IInv
<1>2. CASE LoadSection
  <2>1. PICK new \in SUBSET NewHandle : \E own \in new :
          Opens(new, own) /\ (Loses(new, Api[names[pos]]) \/ Installs(own, Api[names[pos]]))
    BY <1>1, <1>2, Loaded
  <2>2. PICK own \in new :
          Opens(new, own) /\ (Loses(new, Api[names[pos]]) \/ Installs(own, Api[names[pos]]))
    BY <2>1
  <2>3. /\ pc = "load" /\ pos \in DOMAIN names /\ pos \in Nat
        /\ names \in {All, Without}
    BY <1>1, <1>2 DEF LoadSection, AtSection, ShapeOK, ProcedureOK
  <2>4. ~ Loses(new, Api[names[pos]])
    <3>1. SUFFICES ASSUME Api[names[pos]] \in DOMAIN loading PROVE FALSE
      BY DEF Loses
    <3>2. PICK i \in DOMAIN names : i < pos /\ Api[names[i]] = Api[names[pos]]
      BY <2>3, <3>1 DEF OwnersInv, LoadingOK
    <3>3. i = pos  BY <2>3, <3>2 DEF Orderly
    <3> QED  BY <2>3, <3>2, <3>3
  <2>5. ASSUME NEW h \in orphans' PROVE FALSE
    <3>1. h \in new /\ h.alg # 0 /\ image'[h.lib] \in Broken
      BY <2>2, <2>4, <2>5 DEF Opens, Installs, OrderInv
    <3>2. h.lib \in AlgLibs(names[pos]) /\ image'[h.lib] = Opened(h.lib)
      BY <2>2, <3>1 DEF Opens
    <3>3. h.lib \in Lib  BY <3>1 DEF NewHandle
    <3>4. Opened(h.lib) = file[h.lib]
      BY <1>1, <3>3, OpenedSteady DEF OrderInv
    <3>5. file[h.lib] \notin Broken
      BY <2>3, <3>2 DEF OrderInv
    <3> QED  BY <3>1, <3>2, <3>4, <3>5
  <2> QED  BY <2>5
<1>3. CASE UNCHANGED orphans  BY <1>3 DEF OrderInv
<1> QED
  BY <1>2, <1>3
  DEF Next, Load, Free, Deploy, EditConfig, Update, OpenFails, NoCreate, Swap, DeleteInterface,
      CloseHandle, Freed, code, vars

\* A step opens libraries of the configuration, under the number of the update.
LEMMA OpenSteps ==
  ASSUME IInv, PacedOK, [Next]_vars, NEW h \in handles', h.gen = gen'
  PROVE  gen' = gen /\ (h \in handles \/ \E i \in DOMAIN work_names : h.lib \in Libs(work_names[i]))
<1>1. ShapeOK /\ CodeOK /\ gen \in Nat  BY DEF IInv, ShapeOK
<1>2. CASE Update
  <2>1. h \in handles /\ gen' = gen + 1  BY <1>2 DEF Update, code
  <2>2. h.gen <= gen  BY <2>1 DEF IInv, NamesOK
  <2> QED  BY <1>1, <2>1, <2>2
<1>3. CASE LoadSection
  <2>1. PICK new \in SUBSET NewHandle : \E own \in new : Opens(new, own)
    BY <1>1, <1>3, Loaded
  <2>2. h \in handles \/ h.lib \in Libs(names[pos])  BY <2>1 DEF Opens
  <2>3. pos \in DOMAIN names /\ names = work_names /\ gen' = gen
    BY <1>1, <1>3 DEF LoadSection, AtSection, ShapeOK, PacedOK
  <2> QED  BY <2>2, <2>3
<1>4. CASE handles' \subseteq handles /\ gen' = gen  BY <1>4
<1> QED
  BY <1>2, <1>3, <1>4
  DEF Next, Load, Free, Deploy, EditConfig, OpenFails, NoCreate, Swap, DeleteInterface,
      CloseHandle, Freed, code, loop, vars

\* The libraries of an orderly configuration stay in order.
LEMMA OrderKept ==
  ASSUME Orderly, IInv, OwnersInv, ProcedureOK, PacedOK, OrderInv, [NextReplace]_varsReplace, ~early'
  PROVE  OrderInv'
<1>1. ShapeOK /\ CodeOK /\ gen \in Nat  BY DEF IInv, ShapeOK
<1>2. work_names \in {All, Without}  BY DEF ProcedureOK
<1>3. CASE ReplaceFiles
  <2>1. /\ file' = [l \in Lib |-> IF l \in OnlyHere THEN New ELSE file[l]]
        /\ Answered /\ UNCHANGED <<image, handles, orphans, gen, pc, t, factory>>
    BY <1>3, EarlyStays DEF ReplaceFiles, code, loop, maps
  <2>2. ASSUME NEW l \in Lib
        PROVE  Steady(l)' /\ (image'[l] # Absent => Mapped(l)')
    <3>1. l \in OnlyHere => image[l] = Absent  BY <1>3, <2>1, ReplacedUnmapped
    <3> QED  BY <2>1, <3>1 DEF OrderInv, Steady, Mapped
  <2>3. \A c \in {All, Without} : \A i \in DOMAIN c : \A l \in AlgLibs(c[i]) : file'[l] \notin Broken
    <3>1. SUFFICES ASSUME NEW c \in {All, Without}, NEW i \in DOMAIN c, NEW l \in AlgLibs(c[i])
                   PROVE  file'[l] \notin Broken
      OBVIOUS
    <3>2. c \in Seq(Section)  BY PluginReplaceAssumption, PluginLoadAssumption
    <3>3. c[i] \in Section  BY <3>2
    <3>4. Plan[c[i]] \in Seq(Lib)  BY <3>3, PluginLoadAssumption
    <3>5. l \in Lib  BY <3>4 DEF AlgLibs
    <3>6. file[l] \notin Broken  BY DEF OrderInv
    <3> QED  BY <2>1, <3>5, <3>6, PluginReplaceAssumption
  <2>4. UpToDate' => work_names' = work_names /\ UpToDate
    BY <1>3, <2>1, UpToDateKept DEF Update, Answered
  <2>5. \A h \in handles' : h.gen = gen' /\ UpToDate' =>
          \E i \in DOMAIN work_names' : h.lib \in Libs(work_names'[i])
    BY <2>1, <2>4 DEF OrderInv
  <2>6. \A x \in Thread : (pc' = "load" => x < t') =>
          \A w \in Interfaces(factory'[x]) : w.gen = gen'
    BY <2>1 DEF OrderInv
  <2>7. orphans' = {}  BY <2>1 DEF OrderInv
  <2> QED  BY <2>2, <2>3, <2>5, <2>6, <2>7 DEF OrderInv, Libs, AlgLibs
<1>4. CASE [Next]_vars /\ file' = file
  <2>1. orphans' = {}  BY <1>4, NothingLost
  <2>2. \A l \in Lib : Steady(l)' /\ (image'[l] # Absent => Mapped(l)')
    BY <1>4, SteadyKept, MappedKept DEF OrderInv
  <2>3. \A c \in {All, Without} : \A i \in DOMAIN c : \A l \in AlgLibs(c[i]) : file'[l] \notin Broken
    BY <1>4 DEF OrderInv
  <2>4. ASSUME NEW h \in handles', h.gen = gen', UpToDate'
        PROVE  \E i \in DOMAIN work_names' : h.lib \in Libs(work_names'[i])
    <3>1. /\ gen' = gen
          /\ h \in handles \/ \E i \in DOMAIN work_names : h.lib \in Libs(work_names[i])
      BY <1>4, <2>4, OpenSteps
    <3>2. work_names' = work_names /\ (Update \/ UpToDate)
      BY <2>4, UpToDateKept
    <3>3. ~Update  BY <1>1, <3>1 DEF Update
    <3> QED  BY <2>4, <3>1, <3>2, <3>3 DEF OrderInv
  <2>5. ASSUME NEW x \in Thread, pc' = "load" => x < t', NEW w \in Interfaces(factory'[x])
        PROVE  w.gen = gen'
    <3>1. CASE Update
      <4>1. t' = 1 /\ pc' = "load"  BY <3>1 DEF Update
      <4> QED  BY <2>5, <4>1 DEF Thread
    <3>2. CASE Swap
      <4>1. CASE x = t
        BY <3>2, <2>5, <4>1, SwapStep DEF OwnersInv, ApartOK
      <4>2. CASE x # t
        BY <3>2, <2>5, <4>2, SwapStep DEF OrderInv
      <4> QED  BY <4>1, <4>2
    <3>3. CASE UNCHANGED <<gen, factory, pc, t>>
      BY <2>5, <3>3 DEF OrderInv
    <3>4. CASE UNCHANGED <<gen, factory>> /\ pc = "free" /\ pc' # "load"
      BY <2>5, <3>4 DEF OrderInv
    <3> QED  BY <1>4, <3>1, <3>2, <3>3, <3>4, FactorySteps
  <2> QED  BY <2>1, <2>2, <2>3, <2>4, <2>5 DEF OrderInv, Libs, AlgLibs
<1> QED  BY <1>3, <1>4, StepOfProgram

-----------------------------------------------------------------------------
\* What this update has opened of a library it does not close again.
LEMMA OpenNowKept ==
  ASSUME IInv, OwnersInv, [Next]_vars, gen' = gen, NEW l, OpenNow(l)
  PROVE  OpenNow(l)'
<1>1. ShapeOK /\ CodeOK /\ gen \in Nat /\ t \in Thread  BY DEF IInv, ShapeOK
<1>2. PICK h \in handles : h.lib = l /\ h.gen = gen  BY DEF OpenNow
<1>3. CASE LoadSection
  <2>1. PICK new \in SUBSET NewHandle : \E own \in new : Opens(new, own)
    BY <1>1, <1>3, Loaded
  <2>2. h \in handles'  BY <2>1 DEF Opens
  <2> QED  BY <1>2, <2>2 DEF OpenNow
<1>4. CASE DeleteInterface
  <2>1. PICK a \in DOMAIN retired[t] :
          handles' = handles \ (Owned({retired[t][a]}) \ {retired[t][a]})
    BY <1>4 DEF DeleteInterface
  <2>2. retired[t][a] \in Interfaces(retired[t])  BY DEF Interfaces
  <2>3. retired[t][a].gen < gen  BY <1>1, <2>2 DEF OwnersInv, ApartOK
  <2>4. h \notin Owned({retired[t][a]})
    BY <1>1, <1>2, <2>3 DEF Owned, SameOwner
  <2> QED  BY <1>2, <2>1, <2>4 DEF OpenNow
<1>5. CASE CloseHandle
  <2>1. handles' = handles \ {closing} /\ closing.gen < gen
    BY <1>5 DEF CloseHandle, OwnersInv, ApartOK
  <2> QED  BY <1>1, <1>2, <2>1 DEF OpenNow
<1>6. CASE UNCHANGED handles  BY <1>2, <1>6 DEF OpenNow
<1> QED
  BY <1>3, <1>4, <1>5, <1>6
  DEF Next, Load, Free, Deploy, EditConfig, Update, OpenFails, NoCreate, Swap, Freed, code, vars

\* The loop comes past the replaced section only by loading it, and then all
\* that only it uses is open.
LEMMA ThroughSteps ==
  ASSUME Orderly, IInv, OwnersInv, ProcedureOK, PacedOK, OrderInv, NewInv,
         op \in {"adding", "done"}, [Next]_vars, gen' = gen, Through'
  PROVE  Through \/ \A l \in OnlyHere : OpenNow(l)'
<1>1. /\ ShapeOK /\ CodeOK /\ gen \in Nat /\ pos \in Nat
      /\ names \in Seq(Section) /\ \A i \in DOMAIN names : i \in Nat
  BY DEF IInv, ShapeOK
<1>2. \A l \in OnlyHere : l \in Lib /\ Opened(l) = New
  BY <1>1, LibrariesOf, OpenedSteady DEF OrderInv, NewInv
<1>3. New \in Version \ Broken /\ New # Absent
  BY PluginReplaceAssumption, PluginLoadAssumption
<1>4. ASSUME AtSection, pos' = pos + 1, UNCHANGED <<pc, t, names>>, names[pos] # Replaced
      PROVE  Through
  BY <1>1, <1>4 DEF Through
<1>5. CASE OpenFails \/ NoCreate
  <2>1. /\ AtSection /\ pos' = pos + 1 /\ UNCHANGED <<pc, t, names>>
        /\ Opened(So[names[pos]]) = Absent \/ Opened(So[names[pos]]) \in Broken
    BY <1>5 DEF OpenFails, NoCreate
  <2>2. names[pos] # Replaced  BY <1>2, <1>3, <2>1 DEF Orderly
  <2> QED  BY <1>4, <2>1, <2>2
<1>6. CASE LoadSection
  <2>1. AtSection /\ pos' = pos + 1 /\ UNCHANGED <<pc, t, names>>
    BY <1>6 DEF LoadSection
  <2>2. CASE names[pos] = Replaced
    <3>1. PICK new \in SUBSET NewHandle : \E own \in new : Opens(new, own)
      BY <1>1, <1>6, Loaded
    <3>2. ASSUME NEW l \in OnlyHere
          PROVE  OpenNow(l)'
      <4>1. l \in Libs(names[pos]) /\ Opened(l) # Absent
        BY <1>2, <1>3, <2>2, <3>2, LibrariesOf
      <4>2. PICK h \in new : h.lib = l  BY <3>1, <4>1 DEF Opens
      <4>3. h \in handles'  BY <3>1 DEF Opens
      <4>4. h.gen = gen'  BY gen' = gen DEF NewHandle
      <4> QED  BY <4>2, <4>3, <4>4 DEF OpenNow
    <3> QED  BY <3>2
  <2> QED  BY <1>4, <2>1, <2>2
<1>7. CASE Swap
  <2>1. pc = "load" /\ pos > Len(names)  BY <1>7 DEF Swap
  <2>2. names = All  BY <2>1 DEF ProcedureOK, PacedOK
  <2>3. PICK i \in DOMAIN names : names[i] = Replaced
    BY <2>2 DEF Orderly, OneSection
  <2>4. i \in Nat /\ i <= Len(names) /\ Len(names) \in Nat  BY <1>1
  <2>5. i < pos  BY <1>1, <2>1, <2>4
  <2> QED  BY <2>3, <2>5 DEF Through
<1>8. CASE Update  BY <1>1, <1>8 DEF Update
<1>9. CASE UNCHANGED <<pc, t, names, pos>>  BY <1>9 DEF Through
<1>10. CASE pc = "free"  BY <1>10 DEF Through
<1> QED
  BY <1>1, <1>5, <1>6, <1>7, <1>8, <1>9, <1>10
  DEF Next, Load, Free, Deploy, EditConfig, DeleteInterface, CloseHandle, Freed, loop, vars,
      IInv, ShapeOK

\* The replaced section is in the factories that are built from the new files.
LEMMA NewKept ==
  ASSUME Orderly, IInv, OwnersInv, ProcedureOK, PacedOK, OrderInv, NewInv, [NextReplace]_varsReplace,
         ~early'
  PROVE  NewInv'
<1>1. ShapeOK /\ gen \in Nat  BY DEF IInv, ShapeOK
<1>2. So[Replaced] \in OnlyHere /\ So[Replaced] \in Lib  BY LibrariesOf DEF Orderly
<1>3. CASE ReplaceFiles
  <2>1. /\ file' = [l \in Lib |-> IF l \in OnlyHere THEN New ELSE file[l]]
        /\ pc' = "idle" /\ op' = "replaced"
    BY <1>3, EarlyStays DEF ReplaceFiles, Answered, loop
  <2>2. \A l \in OnlyHere : file'[l] = New  BY <2>1, LibrariesOf
  <2> QED  BY <2>1, <2>2 DEF NewInv, Loading
<1>4. CASE [Next]_vars /\ file' = file
  <2>1. op' \in {"replaced", "adding", "done"} => op \in {"replaced", "adding", "done"} \/ ReplaceFiles
    BY DEF NextReplace, Procedure, Resend, Service, Accept, RemoveSection, AddSection, Done,
           varsReplace
  <2>2. op' \in {"replaced", "adding", "done"} => \A l \in OnlyHere : file'[l] = New
    <3>1. CASE ReplaceFiles
      BY <3>1, LibrariesOf DEF ReplaceFiles
    <3>2. CASE ~ReplaceFiles
      BY <1>4, <2>1, <3>2 DEF NewInv
    <3> QED  BY <3>1, <3>2
  <2>3. Steady(So[Replaced])  BY <1>2 DEF OrderInv
  <2>4. Loading({Replaced})'
    BY <1>4, <2>3, LoadingKept DEF NewInv
  <2>5. ASSUME op' \in {"adding", "done"}, UpToDate'
        PROVE  ThreadsServe' /\ (Through' => \A l \in OnlyHere : OpenNow(l)')
    <3>1. op \in {"adding", "done"} /\ (Update \/ UpToDate)
      BY <2>5, UpToDateKept
    <3>2. CASE Update
      <4>1. pc' = "load" /\ t' = 1 /\ pos' = 1 /\ names' = work_names
        BY <3>2 DEF Update
      <4>2. ThreadsServe'  BY <4>1 DEF ThreadsServe, Thread
      <4>3. work_names \in Seq(Section)  BY <1>1, PluginLoadAssumption DEF ShapeOK
      <4>4. \A i \in DOMAIN names' : ~(i < pos')  BY <4>1, <4>3
      <4>5. ~Through'  BY <4>1, <4>4 DEF Through
      <4> QED  BY <4>2, <4>5
    <3>3. CASE ~Update
      <4>1. ThreadsServe /\ (Through => \A l \in OnlyHere : OpenNow(l))
        BY <3>1, <3>3 DEF NewInv
      <4>2. gen' = gen  BY <1>4, <3>3, FactorySteps, SwapStep
      <4>3. Through' => \A l \in OnlyHere : OpenNow(l)'
        BY <1>4, <3>1, <4>1, <4>2, ThroughSteps, OpenNowKept
      <4>4. ASSUME NEW x \in Thread, pc' = "load" => x < t'
            PROVE  Api[Replaced] \in DOMAIN factory'[x]
        <5>1. CASE Swap /\ x = t
          <6>1. names = All  BY <3>1, <5>1, SwapStep DEF ProcedureOK, PacedOK
          <6>2. PICK i \in DOMAIN names : names[i] = Replaced
            BY <6>1 DEF Orderly, OneSection
          <6>3. Good(So[names[i]])
            BY <1>2, <3>1, <6>2, PluginReplaceAssumption DEF NewInv, Good
          <6>4. Api[Replaced] \in DOMAIN loading
            BY <5>1, <6>2, <6>3, LoadedAll DEF NewInv
          <6> QED  BY <5>1, <6>4, SwapStep
        <5>2. CASE Swap /\ x # t
          BY <4>1, <4>4, <5>2, SwapStep DEF ThreadsServe
        <5>3. CASE UNCHANGED <<gen, factory, pc, t>>
          BY <4>1, <4>4, <5>3 DEF ThreadsServe
        <5>4. CASE UNCHANGED <<gen, factory>> /\ pc = "free" /\ pc' # "load"
          BY <4>1, <4>4, <5>4 DEF ThreadsServe
        <5> QED  BY <1>4, <3>3, <5>1, <5>2, <5>3, <5>4, FactorySteps
      <4>5. ThreadsServe'  BY <4>4 DEF ThreadsServe
      <4> QED  BY <4>3, <4>5
    <3> QED  BY <3>2, <3>3
  <2> QED  BY <2>2, <2>4, <2>5 DEF NewInv
<1> QED  BY <1>3, <1>4, StepOfProgram

\* All that is known of an orderly procedure that is not early.
PatientInv == ~early => PacedOK /\ OrderInv /\ NewInv

LEMMA OrderlyInvariants ==
  ASSUME Orderly
  PROVE  SpecReplace => [](IInv /\ OwnersInv /\ ProcedureOK /\ PatientInv)
<1>1. ASSUME InitReplace
      PROVE  IInv /\ OwnersInv /\ ProcedureOK /\ PatientInv
  <2>1. IInv /\ OwnersInv /\ ProcedureOK  BY <1>1, InitAll
  <2>2. OrderInv
    BY <1>1
    DEF InitReplace, Init, OrderInv, Orderly, Steady, Interfaces, NoInterface
  <2>3. NewInv  BY <1>1 DEF InitReplace, Init, NewInv, Loading
  <2>4. PacedOK  BY <1>1 DEF InitReplace, Init, PacedOK
  <2> QED  BY <2>1, <2>2, <2>3, <2>4 DEF PatientInv
<1>2. /\ IInv /\ OwnersInv /\ ProcedureOK /\ PatientInv /\ [NextReplace]_varsReplace
      => (IInv /\ OwnersInv /\ ProcedureOK /\ PatientInv)'
  <2> SUFFICES ASSUME IInv, OwnersInv, ProcedureOK, PatientInv, [NextReplace]_varsReplace
               PROVE  (IInv /\ OwnersInv /\ ProcedureOK /\ PatientInv)'
    OBVIOUS
  <2>1. ASSUME ~early' PROVE PacedOK' /\ OrderInv' /\ NewInv'
    <3>1. PacedOK /\ OrderInv /\ NewInv  BY <2>1, EarlyStays DEF PatientInv
    <3> QED  BY <2>1, <3>1, PacedKept, OrderKept, NewKept
  <2> QED  BY <2>1, ProgramKept, ProcedureKept DEF PatientInv
<1> QED  BY <1>1, <1>2, PTL DEF SpecReplace

\* No file is overwritten while a thread has its code mapped, unless the client
\* gave the command up: the operator puts the new files in place only after the
\* update without the section has closed all that was open of them.
THEOREM NoOverwrite ==
  ASSUME Orderly
  PROVE  SpecReplace => NoOverwriteWhileMapped
<1>1. /\ IInv /\ OwnersInv /\ ProcedureOK /\ PatientInv /\ [NextReplace]_varsReplace
      => [\A l \in Lib : file'[l] # file[l] /\ ~early' => image[l] = Absent]_varsReplace
  <2> SUFFICES ASSUME IInv, OwnersInv, ProcedureOK, PatientInv, [NextReplace]_varsReplace,
                      NEW l \in Lib, file'[l] # file[l], ~early'
               PROVE  image[l] = Absent
    OBVIOUS
  <2>1. ReplaceFiles  BY StepOfProgram
  <2>2. l \in OnlyHere  BY <2>1 DEF ReplaceFiles
  <2>3. Answered /\ PacedOK /\ OrderInv  BY <2>1, EarlyStays DEF PatientInv
  <2> QED  BY <2>1, <2>2, <2>3, ReplacedUnmapped
<1> QED  BY <1>1, OrderlyInvariants, PTL DEF SpecReplace, NoOverwriteWhileMapped

\* When the last command of the procedure is over, every thread serves the
\* section, from the new code of its plugin and of the algorithms only it uses,
\* unless the files were replaced early.
THEOREM NewCode ==
  ASSUME Orderly
  PROVE  SpecReplace => []NewCodeServes
<1>1. IInv /\ ProcedureOK /\ PatientInv => NewCodeServes
  <2> SUFFICES ASSUME IInv, ProcedureOK, PatientInv, op = "done", Answered, ~early
               PROVE  /\ \A x \in Thread : Api[Replaced] \in DOMAIN factory[x]
                      /\ \A l \in OnlyHere : image[l] = New
    BY DEF NewCodeServes
  <2>1. PacedOK /\ OrderInv /\ NewInv  BY DEF PatientInv
  <2>2. pc = "idle" /\ UpToDate  BY <2>1 DEF Answered, PacedOK, ProcedureOK, UpToDate
  <2>3. ThreadsServe /\ \A l \in OnlyHere : OpenNow(l)
    BY <2>1, <2>2 DEF NewInv, Through
  <2>4. ASSUME NEW l \in OnlyHere
        PROVE  image[l] = New
    <3>1. image[l] # Absent  BY <2>3 DEF OpenNow, IInv, CodeOK
    <3> QED  BY <2>1, <3>1, LibrariesOf DEF OrderInv, Steady, NewInv
  <2> QED  BY <2>2, <2>3, <2>4 DEF ThreadsServe
<1> QED  BY <1>1, OrderlyInvariants, PTL
=============================================================================
