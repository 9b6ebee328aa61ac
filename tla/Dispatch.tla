------------------------------ MODULE Dispatch ------------------------------
(***************************************************************************)
(* One request in one thread: WorkCompany::work_core finds the plugin, the *)
(* plugin SimpleFrameWorkInterface asks redis whom the user follows, keeps *)
(* those that a global database has, runs the algorithms of its plan and   *)
(* writes the response.  Every look at a global database goes through the  *)
(* pointer of the thread's DbCompany, which update_global may change       *)
(* between two looks; a version is a loaded GlobalDbCompany.               *)
(***************************************************************************)
EXTENDS Integers, Sequences, FiniteSets

CONSTANTS
  NumThreads,  \* thread_num
  Uid,         \* user ids
  Sections,    \* vec_pair_map_alg_: sections <<name, plan>>; a plan maps -2,
               \* -1 and 0 .. 9 to algorithms, and -2 has a white list
  Contents,    \* what each version has of each global database: a set of uids
  MemberDb,    \* EXAMPLE_SET_DB
  TypeDb,      \* EXAMPLE_KV_DB: the ids of type 1
  Follows      \* the sets of ids redis may answer with

ASSUME DispatchAssumption ==
  /\ NumThreads \in Nat \ {0}
  /\ Uid \subseteq Nat
  /\ Follows \subseteq SUBSET Uid

Thread == 0 .. NumThreads - 1
WHITELIST_FLAG == -2
DEFAULT_FLAG   == -1
Version == DOMAIN Contents

VARIABLES
  version,  \* global_db_company_ of each thread's DbCompany
  work,     \* the request of each thread
  resp_body,\* what each thread's response buffer holds
  out       \* ghost: the responses given, with what they were made from

-----------------------------------------------------------------------------
(* The global databases. *)

Has(v, name, id) == name \in DOMAIN Contents[v] /\ id \in Contents[v][name]

\* whitelist_is_in: -1 when the list named by the plan is not loaded.
WhitelistIsIn(v, list, uid) ==
  IF list \notin DOMAIN Contents[v] THEN -1 ELSE IF uid \in Contents[v][list] THEN 1 ELSE 0

\* get_type_from_globalDB: 0 for an id it does not find.
TypeOf(v, id) == IF Has(v, TypeDb, id) THEN 1 ELSE 0

-----------------------------------------------------------------------------
(* run_algorithm. *)

LastCode(uid) == (uid \div 10) % 10
Nobody == "no algorithm"

\* Variant of FlagFor: a white list that is not loaded has everybody.
FlagForAny(plan, uid, v) ==
  IF WHITELIST_FLAG \in DOMAIN plan /\ WhitelistIsIn(v, plan[WHITELIST_FLAG].list, uid) # 0
  THEN WHITELIST_FLAG
  ELSE IF LastCode(uid) \in DOMAIN plan THEN LastCode(uid) ELSE DEFAULT_FLAG

FlagFor(plan, uid, v) ==
  IF WHITELIST_FLAG \in DOMAIN plan /\ WhitelistIsIn(v, plan[WHITELIST_FLAG].list, uid) > 0
  THEN WHITELIST_FLAG
  ELSE IF LastCode(uid) \in DOMAIN plan THEN LastCode(uid) ELSE DEFAULT_FLAG

\* The algorithm a section runs for a user, if any.
AlgorithmFor(plan, uid, v) ==
  LET flag == FlagFor(plan, uid, v)
  IN  IF flag \in DOMAIN plan THEN plan[flag].so ELSE Nobody

\* The sections a call of run_algorithm goes through: all of them, or with a
\* name the first of that name.
Called(alg_name) ==
  IF alg_name = "all" THEN [n \in DOMAIN Sections |-> n]
  ELSE LET named == {n \in DOMAIN Sections : Sections[n].name = alg_name}
       IN  IF named = {} THEN <<>> ELSE <<CHOOSE n \in named : \A m \in named : n <= m>>

-----------------------------------------------------------------------------
(* The request. *)

\* How a request may be: it cannot be parsed, names no plugin or one that is
\* not loaded, has a command or no user the plugin knows, or is a query.
Fails == [null |-> 405, json |-> 405, noApi |-> 405, unknownApi |-> 406,
          command |-> 403, noUid |-> 403]
Kinds == DOMAIN Fails \cup {"hello", "query"}

Idle == [pc |-> "next", queue |-> <<>>, pos |-> 0, uid |-> 0, kind |-> "query", alg |-> "all",
         n_out_len |-> 0, todo |-> {}, follow |-> {}, cur |-> 0, kept |-> {}, at |-> 1,
         ran |-> <<>>, since |-> 1]

Is(t, pc) == work[t].pc = pc
Set(t, changes) ==
  work' = [work EXCEPT ![t] = [f \in DOMAIN @ |-> IF f \in DOMAIN changes THEN changes[f] ELSE @[f]]]
Respond(t, code, ids, then) ==
  /\ resp_body' = [resp_body EXCEPT ![t] = [of |-> work[t].pos + 1, code |-> code, ids |-> ids]]
  /\ Set(t, [n_out_len |-> 1, pc |-> then])

\* Variant of Begin: n_out_len is what the request before has left.
BeginLength(t, uid, kind, alg) ==
  /\ Is(t, "next")
  /\ Set(t, [pc |-> "core", uid |-> uid, kind |-> kind, alg |-> alg, todo |-> {},
             follow |-> {}, kept |-> {}, at |-> 1, ran |-> <<>>, since |-> version[t]])
  /\ UNCHANGED <<version, resp_body, out>>

\* query_req_handle, up to work_core.
Begin(t, uid, kind, alg) ==
  /\ Is(t, "next")
  /\ Set(t, [pc |-> "core", uid |-> uid, kind |-> kind, alg |-> alg, n_out_len |-> 0, todo |-> {},
             follow |-> {}, kept |-> {}, at |-> 1, ran |-> <<>>, since |-> version[t]])
  /\ UNCHANGED <<version, resp_body, out>>

\* work_core of the WorkCompany and the checks of the plugin.
Core(t) ==
  /\ Is(t, "core")
  /\ CASE work[t].kind \in DOMAIN Fails -> Respond(t, Fails[work[t].kind], {}, "reply")
       [] work[t].kind = "hello" -> Respond(t, 0, {}, "reply")
       [] work[t].kind = "query" -> Set(t, [pc |-> "fetch"]) /\ UNCHANGED resp_body
  /\ UNCHANGED <<version, out>>

\* get_data_from_remoteDB: without an answer the response stays empty.
Fetch(t) ==
  /\ Is(t, "fetch")
  /\ \/ Set(t, [pc |-> "reply"])
     \/ \E ids \in Follows : Set(t, [pc |-> "member", todo |-> ids, follow |-> ids])
  /\ UNCHANGED <<version, resp_body, out>>

\* uid_is_in_globalDB, for the ids in any order.
Member(t) ==
  /\ Is(t, "member")
  /\ \/ /\ work[t].todo = {}
        /\ Set(t, [pc |-> "section"])
     \/ \E id \in work[t].todo :
          Set(t, [pc   |-> IF Has(version[t], MemberDb, id) THEN "type" ELSE "member",
                  cur  |-> id, todo |-> work[t].todo \ {id}])
  /\ UNCHANGED <<version, resp_body, out>>

\* get_type_from_globalDB, and a candidate is made.
Type(t) ==
  /\ Is(t, "type")
  /\ Set(t, [pc   |-> "member",
             kept |-> work[t].kept \cup {<<work[t].cur, TypeOf(version[t], work[t].cur)>>}])
  /\ UNCHANGED <<version, resp_body, out>>

\* One section of run_algorithm.
Section(t) ==
  /\ Is(t, "section")
  /\ work[t].at <= Len(Called(work[t].alg))
  /\ LET section == Sections[Called(work[t].alg)[work[t].at]]
     IN  Set(t, [at  |-> work[t].at + 1,
                 ran |-> Append(work[t].ran,
                                AlgorithmFor(section.plan, work[t].uid, version[t]))])
  /\ UNCHANGED <<version, resp_body, out>>

\* generate_output_str.
Output(t) ==
  /\ Is(t, "section")
  /\ work[t].at > Len(Called(work[t].alg))
  /\ Respond(t, 0, work[t].kept, "reply")
  /\ UNCHANGED <<version, out>>

\* The first n_out_len bytes of the buffer are the response.
NoResponse == [of |-> 0, code |-> 0, ids |-> {}]
Reply(t) ==
  /\ Is(t, "reply")
  /\ LET w == work[t]
     IN  out' = [out EXCEPT ![t] = Append(@,
           [response |-> IF w.n_out_len = 0 THEN NoResponse ELSE resp_body[t],
            uid |-> w.uid, kind |-> w.kind, alg |-> w.alg, follow |-> w.follow, ran |-> w.ran,
            since |-> w.since, till |-> version[t]])]
  /\ Set(t, [pc |-> "next", pos |-> work[t].pos + 1])
  /\ UNCHANGED <<version, resp_body>>

RequestStep(t) ==
  Core(t) \/ Fetch(t) \/ Member(t) \/ Type(t) \/ Section(t) \/ Output(t) \/ Reply(t)

-----------------------------------------------------------------------------
\* Every response is that of its own request: a code for one that was not
\* understood; for a query nothing, if redis has not answered, or the ids redis
\* has answered with and a global database had during the request: all that it
\* had all the time, and none that it never had, each with a type it had then.
\* (work_company.h:33-76, simple_frame_work_interface.cpp:168-213)
OwnResponses ==
  \A t \in Thread : \A n \in DOMAIN out[t] :
    LET r == out[t][n]
        ids == r.response.ids
        during == r.since .. r.till
    IN  /\ r.kind # "query" => r.response # NoResponse
        /\ r.response # NoResponse => r.response.of = n
        /\ r.kind \in DOMAIN Fails => r.response.code = Fails[r.kind]
        /\ r.kind = "query" /\ r.response # NoResponse =>
             /\ \A pair \in ids :
                  /\ pair[1] \in r.follow /\ \E v \in during : Has(v, MemberDb, pair[1])
                  /\ \E v \in during : pair[2] = TypeOf(v, pair[1])
             /\ \A id \in r.follow :
                  (\A v \in during : Has(v, MemberDb, id)) => \E pair \in ids : pair[1] = id

\* A user is treated by the plan of each section: by the algorithm for the white
\* list if a list that was in place during the request has the user, otherwise
\* by that of the last digit but one, otherwise by the default; by one at most;
\* and a list that is not loaded has nobody (algorithm_func.h:177-412).
PlanFollowed ==
  \A t \in Thread : \A n \in DOMAIN out[t] :
    LET r == out[t][n]
        listed(plan, v) == -2 \in DOMAIN plan /\ Has(v, plan[-2].list, r.uid)
    IN  \A m \in DOMAIN r.ran :
          LET plan   == Sections[Called(r.alg)[m]].plan
              during == r.since .. r.till
              digit  == LastCode(r.uid)
          IN  \/ \E v \in during : listed(plan, v) /\ r.ran[m] = plan[-2].so
              \/ /\ \E v \in during : ~listed(plan, v)
                 /\ \/ digit \in DOMAIN plan /\ r.ran[m] = plan[digit].so
                    \/ digit \notin DOMAIN plan /\ -1 \in DOMAIN plan /\ r.ran[m] = plan[-1].so
                    \/ {digit, -1} \cap DOMAIN plan = {} /\ r.ran[m] = Nobody
=============================================================================
