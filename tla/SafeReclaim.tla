----------------------------- MODULE SafeReclaim -----------------------------
(***************************************************************************)
(* What a reload that deletes the objects it replaces promises to the      *)
(* readers: a reader only ever holds objects that are allocated, and an    *)
(* object is deleted only when it is no longer published and no reader     *)
(* holds it.  How the writer finds that out is not its concern.            *)
(***************************************************************************)
CONSTANTS Object, Reader

VARIABLES
  live,       \* the allocated objects
  published,  \* those a new reader can reach
  holds       \* the objects each reader has a pointer to

vars == <<live, published, holds>>

Init ==
  /\ live \in SUBSET Object
  /\ published \in SUBSET live
  /\ holds = [r \in Reader |-> {}]

\* The writer allocates new objects and replaces published ones by others.
Update ==
  /\ live \subseteq live' /\ live' \subseteq Object
  /\ published' \subseteq live'
  /\ UNCHANGED holds

\* The writer deletes objects that nobody can reach or holds.
Reclaim ==
  /\ live' \subseteq live
  /\ published' = published
  /\ (live \ live') \cap published = {}
  /\ \A r \in Reader : holds[r] \subseteq live'
  /\ UNCHANGED holds

\* A reader follows a pointer to one more object.
Acquire(r) ==
  /\ \E o \in live : holds' = [holds EXCEPT ![r] = @ \cup {o}]
  /\ UNCHANGED <<live, published>>

\* A reader drops all its pointers.
Release(r) ==
  /\ holds' = [holds EXCEPT ![r] = {}]
  /\ UNCHANGED <<live, published>>

Next ==
  \/ Update
  \/ Reclaim
  \/ \E r \in Reader : Acquire(r) \/ Release(r)

Spec == Init /\ [][Next]_vars
=============================================================================
