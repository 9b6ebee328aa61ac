-------------------------------- MODULE Batch --------------------------------
(***************************************************************************)
(* The two programs around Dispatch: the batch program                     *)
(* (src/program/src/lab_common_main.cpp), which answers the users of a     *)
(* file and ends, and the service, whose requests come from outside while  *)
(* update_global installs new versions.                                    *)
(***************************************************************************)
EXTENDS Dispatch

CONSTANTS
  KeyFiles,    \* the files of keys: sequences of uids
  Busy,        \* the threads of the service that get requests
  MaxRequests, \* bound on the requests of a thread of the service
  AlgNames     \* what a plugin may call run_algorithm with, "all" among them

VARIABLES
  program,     \* "batch" or "service"
  phase,       \* where main is
  file,        \* the keys file, or Missing
  canOpen,     \* the threads whose output file can be opened
  installing,  \* how many threads the update in progress has given its version
  serving      \* p_global_db_company

main == <<program, phase, file, canOpen, installing, serving>>
vars == <<version, work, resp_body, out, main>>

Missing == <<-1>>

\* vec_keys_ of each thread.
Queue(keys, t) == SelectSeq(keys, LAMBDA id : id % NumThreads = t)

Init ==
  /\ program \in {"batch", "service"}
  /\ file \in KeyFiles \cup {Missing} /\ canOpen \in SUBSET Thread
  /\ program = "service" => file = Missing /\ canOpen = {}
  /\ phase = IF program = "batch" THEN "start" ELSE "run"
  /\ installing = 0 /\ serving = 1
  /\ version = [t \in Thread |-> 1] /\ work = [t \in Thread |-> Idle]
  /\ resp_body = [t \in Thread |-> NoResponse] /\ out = [t \in Thread |-> <<>>]

\* Variant of Keys: a loop until feof sees the last line twice.
KeysTwice == IF file = <<>> THEN <<>> ELSE Append(file, file[Len(file)])

\* The loop over the keys file.
Keys == file

\* create_handle_data: a file that is missing is reported, and read all the same.
Create ==
  /\ phase = "start"
  /\ IF file = Missing
     THEN phase' = "crashed" /\ UNCHANGED work
     ELSE /\ phase' = "run"
          /\ work' = [t \in Thread |-> [Idle EXCEPT !.pc = "open", !.queue = Queue(Keys, t)]]
  /\ UNCHANGED <<version, resp_body, out, program, file, canOpen, installing, serving>>

\* Variant of Open: a thread waits for its file.
OpenWaits(t) ==
  /\ Is(t, "open") /\ t \in canOpen
  /\ Set(t, [pc |-> "next"])
  /\ UNCHANGED <<version, resp_body, out, main>>

\* query_req_handle of the batch program: without its file the thread returns.
Open(t) ==
  /\ Is(t, "open")
  /\ Set(t, [pc |-> IF t \in canOpen THEN "next" ELSE "returned"])
  /\ UNCHANGED <<version, resp_body, out, main>>

\* The request for the next key; the plugin calls all algorithms.
NextKey(t) ==
  /\ phase = "run" /\ program = "batch"
  /\ Is(t, "next") /\ work[t].pos < Len(work[t].queue)
  /\ Begin(t, work[t].queue[work[t].pos + 1], "query", "all")
  /\ UNCHANGED main

LastKey(t) ==
  /\ phase = "run" /\ program = "batch"
  /\ Is(t, "next") /\ work[t].pos = Len(work[t].queue)
  /\ Set(t, [pc |-> "returned"])
  /\ UNCHANGED <<version, resp_body, out, main>>

\* A request to the service, of any kind.
Request(t) ==
  /\ program = "service" /\ t \in Busy /\ work[t].pos < MaxRequests
  /\ \E uid \in Uid, kind \in Kinds, alg \in AlgNames : Begin(t, uid, kind, alg)
  /\ UNCHANGED main

\* main's joins.
Join ==
  /\ program = "batch" /\ phase = "run"
  /\ \A t \in Thread : Is(t, "returned")
  /\ phase' = "update"
  /\ UNCHANGED <<version, work, resp_body, out, program, file, canOpen, installing, serving>>

\* update_global_handle_data, of the service at any time, of the batch program
\* when its threads have ended: load_config, then the threads one by one.
Install ==
  /\ phase = "update" \/ program = "service"
  /\ serving + 1 \in Version
  /\ version' = [version EXCEPT ![installing] = serving + 1]
  /\ IF installing + 1 < NumThreads
     THEN installing' = installing + 1 /\ UNCHANGED <<phase, serving>>
     ELSE /\ installing' = 0 /\ serving' = serving + 1
          /\ phase' = IF program = "batch" THEN "swapped" ELSE phase
  /\ UNCHANGED <<work, resp_body, out, program, file, canOpen>>

\* The rest of it, destroy_handle_data and the end of main.
Destroy ==
  /\ phase = "swapped"
  /\ phase' = "destroyed"
  /\ UNCHANGED <<version, work, resp_body, out, program, file, canOpen, installing, serving>>

ThreadStep(t) ==
  \/ Open(t) \/ NextKey(t) \/ LastKey(t)
  \/ RequestStep(t) /\ UNCHANGED main

Next ==
  \/ Create \/ Join \/ Install \/ Destroy
  \/ \E t \in Thread : ThreadStep(t) \/ Request(t)

\* pthreads run; the calls they make come back (Query).
Spec ==
  /\ Init /\ [][Next]_vars
  /\ WF_vars(Create) /\ WF_vars(Join) /\ WF_vars(Install) /\ WF_vars(Destroy)
  /\ \A t \in Thread : WF_vars(ThreadStep(t))

-----------------------------------------------------------------------------
\* When the batch program has joined its threads, every key of the file has one
\* line, in the output file of the thread its remainder names, in the order of
\* the file, and a file that could not be opened has none, whatever the other
\* threads met (lab_common_main.cpp:44-88, 181-203).
EveryKeyOnce ==
  program = "batch" /\ phase \in {"update", "swapped", "destroyed"} =>
    \A t \in Thread :
      LET owed == IF t \in canOpen THEN SelectSeq(file, LAMBDA id : id % NumThreads = t)
                  ELSE <<>>
      IN  /\ Len(out[t]) = Len(owed)
          /\ \A n \in DOMAIN out[t] : out[t][n].uid = owed[n]

\* The batch program ends, if there is a file of keys.
BatchEnds == program = "batch" /\ file # Missing ~> phase = "destroyed"
=============================================================================
