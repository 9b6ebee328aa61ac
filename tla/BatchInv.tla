------------------------------- MODULE BatchInv -------------------------------
(***************************************************************************)
(* The inductive invariant of Batch: which version a thread looks at, what *)
(* a request has gathered so far and from which versions, and how far      *)
(* through its queue each thread of the batch program is.  In the          *)
(* operators w is the request of a thread, b its response buffer and       *)
(* during the versions that were in place since the request began.         *)
(***************************************************************************)
EXTENDS Batch

\* The update has passed the threads before installing.
VersionsOK ==
  /\ installing \in Thread /\ serving \in Nat
  /\ version = [t \in Thread |-> IF t < installing THEN serving + 1 ELSE serving]

\* A sequence of this length.
IsSeq(s, len) == s = [n \in 1 .. len |-> s[n]]

\* What is needed of the types: the fields of a request, the responses given.
TypesOK ==
  /\ work = [t \in Thread |-> work[t]]
  /\ resp_body = [t \in Thread |-> resp_body[t]]
  /\ out = [t \in Thread |-> out[t]]
  /\ \A t \in Thread :
       /\ DOMAIN work[t] = DOMAIN Idle
       /\ work[t].pos \in Nat
       /\ IsSeq(out[t], work[t].pos)

InRequest(w) == w.pc \in {"core", "fetch", "member", "type", "section", "reply"}

\* The ids of a response are what was in place during the request ...
Candidates(follow, ids, during) ==
  \A pair \in ids :
    /\ pair[1] \in follow /\ \E v \in during : Has(v, MemberDb, pair[1])
    /\ \E v \in during : pair[2] = TypeOf(v, pair[1])

\* ... and all that was in place throughout.
Complete(follow, ids, during) ==
  \A id \in follow :
    (\A v \in during : Has(v, MemberDb, id)) => \E pair \in ids : pair[1] = id

\* What the request has gathered of the ids redis has given it.
GatherOK(w, during) ==
  /\ Candidates(w.follow, w.kept, during)
  /\ \A id \in w.follow :
       \/ id \in w.todo
       \/ w.pc = "type" /\ id = w.cur
       \/ \E v \in during : ~Has(v, MemberDb, id)
       \/ \E pair \in w.kept : pair[1] = id
  /\ w.todo \subseteq w.follow
  /\ w.pc = "type" => w.cur \in w.follow /\ \E v \in during : Has(v, MemberDb, w.cur)
  /\ w.pc = "section" => w.todo = {}

\* What is in the response buffer when the request has written to it.
ResponseOK(w, b, during) ==
  /\ w.kind # "query" => w.n_out_len # 0
  /\ w.n_out_len # 0 =>
       /\ b.of = w.pos + 1
       /\ w.kind \in DOMAIN Fails => b.code = Fails[w.kind]
       /\ w.kind = "query" => Candidates(w.follow, b.ids, during)
                              /\ Complete(w.follow, b.ids, during)

\* The algorithms that a section of this plan may run for uid.
OnList(plan, uid, v) ==
  WHITELIST_FLAG \in DOMAIN plan /\ Has(v, plan[WHITELIST_FLAG].list, uid)
Allowed(plan, uid, so, during) ==
  \/ \E v \in during : OnList(plan, uid, v) /\ so = plan[WHITELIST_FLAG].so
  \/ /\ \E v \in during : ~OnList(plan, uid, v)
     /\ \/ LastCode(uid) \in DOMAIN plan /\ so = plan[LastCode(uid)].so
        \/ /\ LastCode(uid) \notin DOMAIN plan /\ DEFAULT_FLAG \in DOMAIN plan
           /\ so = plan[DEFAULT_FLAG].so
        \/ {LastCode(uid), DEFAULT_FLAG} \cap DOMAIN plan = {} /\ so = Nobody

\* The algorithms the request has run so far.
RanOK(w, during) ==
  /\ w.at \in Nat \ {0} /\ IsSeq(w.ran, w.at - 1)
  /\ \A m \in 1 .. w.at - 1 :
       Allowed(Sections[Called(w.alg)[m]].plan, w.uid, w.ran[m], during)

RequestOK(w, b, v) ==
  /\ w.since \in Nat /\ w.since <= v /\ w.kind \in Kinds
  /\ w.pc \in {"fetch", "member", "type", "section"} => w.kind = "query"
  /\ w.pc # "reply" => w.n_out_len = 0
  /\ w.pc \in {"core", "fetch"} => w.kept = {}
  /\ w.pc \in {"member", "type", "section"} => GatherOK(w, w.since .. v)
  /\ w.pc = "reply" => ResponseOK(w, b, w.since .. v)
  /\ RanOK(w, w.since .. v)

RequestsOK ==
  \A t \in Thread : InRequest(work[t]) => RequestOK(work[t], resp_body[t], version[t])

\* How far a thread of the batch program is through its queue.
QueueOK(t) ==
  /\ work[t].queue = Queue(file, t)
  /\ \A n \in 1 .. work[t].pos : out[t][n].uid = work[t].queue[n]
  /\ InRequest(work[t]) => work[t].uid = work[t].queue[work[t].pos + 1]
  /\ Is(t, "open") => work[t].pos = 0
  /\ Is(t, "next") \/ InRequest(work[t]) => t \in canOpen
  /\ Is(t, "returned") => work[t].pos = IF t \in canOpen THEN Len(work[t].queue) ELSE 0

Joined == {"update", "swapped", "destroyed"}

QueuesOK ==
  IF program # "batch" THEN phase = "run" ELSE
    /\ phase \in {"start", "crashed", "run"} \cup Joined
    /\ \A t \in Thread :
         /\ phase \in {"start", "crashed"} => Is(t, "next") /\ work[t].pos = 0
         /\ phase \in {"run"} \cup Joined => QueueOK(t)
         /\ phase \in Joined => Is(t, "returned")

IInv == VersionsOK /\ TypesOK /\ RequestsOK /\ QueuesOK /\ OwnResponses /\ PlanFollowed
=============================================================================
