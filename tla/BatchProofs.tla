----------------------------- MODULE BatchProofs -----------------------------
(* Proofs about Batch and Dispatch: for any number of threads, any sections of *)
(* plans, any contents of the global databases and any files of keys.          *)
EXTENDS BatchInv, TLAPS

-----------------------------------------------------------------------------
(* Lemmas about the operators. *)

LEMMA AppendOne ==
  ASSUME NEW s, NEW e, NEW len \in Nat, IsSeq(s, len), NEW n, n = len + 1
  PROVE  IsSeq(Append(s, e), n)
<1> DEFINE S == {s[m] : m \in 1 .. len} \cup {e}
<1>1. s \in Seq(S) /\ Len(s) = len
  BY DEF IsSeq
<1>2. Append(s, e) \in Seq(S) /\ Len(Append(s, e)) = len + 1
  BY <1>1
<1> QED BY <1>2 DEF IsSeq

LEMMA AppendNew ==
  ASSUME NEW s, NEW e, NEW len \in Nat, IsSeq(s, len), NEW n, n = len + 1
  PROVE  Append(s, e)[n] = e
<1> DEFINE S == {s[m] : m \in 1 .. len} \cup {e}
<1>1. s \in Seq(S) /\ Len(s) = len
  BY DEF IsSeq
<1> QED BY <1>1

LEMMA AppendOld ==
  ASSUME NEW s, NEW e, NEW len \in Nat, IsSeq(s, len), NEW n \in 1 .. len
  PROVE  Append(s, e)[n] = s[n]
<1> DEFINE S == {s[m] : m \in 1 .. len} \cup {e}
<1>1. s \in Seq(S) /\ Len(s) = len
  BY DEF IsSeq
<1> QED BY <1>1

\* What the assignments of a step leave in the request of its thread.
LEMMA SetFields ==
  ASSUME work = [t \in Thread |-> work[t]], NEW t \in Thread, NEW changes, Set(t, changes)
  PROVE  /\ work' = [u \in Thread |-> work'[u]]
         /\ DOMAIN work'[t] = DOMAIN work[t]
         /\ \A f \in DOMAIN work[t] :
              work'[t][f] = IF f \in DOMAIN changes THEN changes[f] ELSE work[t][f]
         /\ \A u \in Thread \ {t} : work'[u] = work[u]
BY DEF Set

\* What a section runs is allowed by any set of versions with the one it asked.
LEMMA AlgorithmAllowed ==
  ASSUME NEW plan, NEW uid, NEW during, NEW v \in during
  PROVE  Allowed(plan, uid, AlgorithmFor(plan, uid, v), during)
<1>1. WhitelistIsIn(v, plan[WHITELIST_FLAG].list, uid) > 0
        <=> Has(v, plan[WHITELIST_FLAG].list, uid)
  BY DEF WhitelistIsIn, Has
<1>2. CASE OnList(plan, uid, v)
  BY <1>1, <1>2 DEF Allowed, AlgorithmFor, FlagFor, OnList
<1>3. CASE ~OnList(plan, uid, v)
  <2>1. FlagFor(plan, uid, v) =
          IF LastCode(uid) \in DOMAIN plan THEN LastCode(uid) ELSE DEFAULT_FLAG
    BY <1>1, <1>3 DEF FlagFor, OnList
  <2> QED BY <1>3, <2>1 DEF Allowed, AlgorithmFor
<1> QED BY <1>2, <1>3

\* What was true of the versions so far is true when there are more.
LEMMA AllowedWidens ==
  ASSUME NEW plan, NEW uid, NEW so, NEW S, NEW T, S \subseteq T, Allowed(plan, uid, so, S)
  PROVE  Allowed(plan, uid, so, T)
BY DEF Allowed

LEMMA CandidatesWiden ==
  ASSUME NEW follow, NEW ids, NEW S, NEW T, S \subseteq T, Candidates(follow, ids, S)
  PROVE  Candidates(follow, ids, T)
BY DEF Candidates

LEMMA CompleteWidens ==
  ASSUME NEW follow, NEW ids, NEW S, NEW T, S \subseteq T, Complete(follow, ids, S)
  PROVE  Complete(follow, ids, T)
BY DEF Complete

LEMMA GatherWidens ==
  ASSUME NEW w, NEW S, NEW T, S \subseteq T, GatherOK(w, S)
  PROVE  GatherOK(w, T)
BY CandidatesWiden DEF GatherOK

LEMMA RanWidens ==
  ASSUME NEW w, NEW S, NEW T, S \subseteq T, RanOK(w, S)
  PROVE  RanOK(w, T)
BY AllowedWidens DEF RanOK

LEMMA ResponseWidens ==
  ASSUME NEW w, NEW b, NEW S, NEW T, S \subseteq T, ResponseOK(w, b, S)
  PROVE  ResponseOK(w, b, T)
BY CandidatesWiden, CompleteWidens DEF ResponseOK

LEMMA RequestWidens ==
  ASSUME NEW w, NEW b, NEW v \in Nat, NEW later \in Nat, v <= later, RequestOK(w, b, v)
  PROVE  RequestOK(w, b, later)
<1>1. w.since .. v \subseteq w.since .. later /\ w.since <= later
  BY DEF RequestOK
<1> QED BY <1>1, GatherWidens, RanWidens, ResponseWidens DEF RequestOK

-----------------------------------------------------------------------------
(* The steps of a request. *)

\* What is known when thread t takes a step of its request.
At(t) ==
  /\ TypesOK /\ VersionsOK
  /\ t \in Thread
  /\ InRequest(work[t]) => RequestOK(work[t], resp_body[t], version[t])

LEMMA BeginOK ==
  ASSUME NEW t, At(t), NEW uid, NEW kind \in Kinds, NEW alg, Begin(t, uid, kind, alg)
  PROVE  /\ RequestOK(work'[t], resp_body[t], version[t]) /\ InRequest(work'[t])
         /\ work'[t].uid = uid /\ work'[t].queue = work[t].queue /\ work'[t].pos = work[t].pos
         /\ DOMAIN work'[t] = DOMAIN Idle
<1> DEFINE changes == [pc |-> "core", uid |-> uid, kind |-> kind, alg |-> alg, n_out_len |-> 0,
                       todo |-> {}, follow |-> {}, kept |-> {}, at |-> 1, ran |-> <<>>,
                       since |-> version[t]]
<1>0. /\ DOMAIN work[t] = DOMAIN Idle /\ DOMAIN work'[t] = DOMAIN work[t]
      /\ \A f \in DOMAIN work[t] :
           work'[t][f] = IF f \in DOMAIN changes THEN changes[f] ELSE work[t][f]
  BY SetFields DEF Begin, At, TypesOK
<1>1. /\ DOMAIN work'[t] = DOMAIN Idle /\ work'[t].pc = "core" /\ work'[t].uid = uid
      /\ work'[t].kind = kind /\ work'[t].n_out_len = 0 /\ work'[t].at = 1
      /\ work'[t].ran = <<>> /\ work'[t].since = version[t] /\ work'[t].kept = {}
      /\ work'[t].queue = work[t].queue /\ work'[t].pos = work[t].pos
  BY <1>0 DEF Idle
<1>2. version[t] \in Nat
  BY DEF At, VersionsOK
<1>3. RanOK(work'[t], version[t] .. version[t])
  BY <1>1 DEF RanOK, IsSeq
<1> QED BY <1>1, <1>2, <1>3 DEF RequestOK, InRequest

\* What a step of a request that goes on leaves as it was.
Kept(w, w2) ==
  /\ w2.uid = w.uid /\ w2.queue = w.queue /\ w2.pos = w.pos /\ w2.since = w.since
  /\ w2.kind = w.kind /\ w2.alg = w.alg

LEMMA RanKept ==
  ASSUME NEW w, NEW w2, NEW during, RanOK(w, during), Kept(w, w2), w2.at = w.at, w2.ran = w.ran
  PROVE  RanOK(w2, during)
BY DEF RanOK, Kept

\* work_core goes on with a query and answers everything else at once.
LEMMA CoreWays ==
  ASSUME NEW t, At(t), Core(t)
  PROVE  \/ /\ work[t].kind = "query" /\ Set(t, [pc |-> "fetch"])
            /\ UNCHANGED resp_body
         \/ /\ work[t].kind # "query"
            /\ \E code : /\ Respond(t, code, {}, "reply")
                         /\ work[t].kind \in DOMAIN Fails => code = Fails[work[t].kind]
<1>1. work[t].kind \in DOMAIN Fails \cup {"hello", "query"}
  BY DEF Core, Is, At, InRequest, RequestOK, Kinds
<1>2. CASE work[t].kind = "query"
  BY <1>2 DEF Core, Fails
<1>3. CASE work[t].kind \in DOMAIN Fails
  <2>1. Respond(t, Fails[work[t].kind], {}, "reply") /\ work[t].kind # "query"
    BY <1>3 DEF Core, Fails
  <2> QED BY <2>1
<1>4. CASE work[t].kind = "hello"
  <2>1. Respond(t, 0, {}, "reply") /\ work[t].kind \notin DOMAIN Fails
    BY <1>4 DEF Core, Fails
  <2> QED BY <1>4, <2>1
<1> QED BY <1>1, <1>2, <1>3, <1>4

LEMMA CoreOK ==
  ASSUME NEW t, At(t), Core(t)
  PROVE  /\ RequestOK(work'[t], resp_body'[t], version[t]) /\ InRequest(work'[t])
         /\ Kept(work[t], work'[t]) /\ DOMAIN work'[t] = DOMAIN Idle
<1>1. work[t].pc = "core" /\ DOMAIN work[t] = DOMAIN Idle /\ version[t] \in Nat
  BY DEF Core, Is, At, TypesOK, VersionsOK
<1>2. RequestOK(work[t], resp_body[t], version[t])
  BY <1>1 DEF At, InRequest
<1>4. CASE work[t].kind = "query"
  <2>1. Set(t, [pc |-> "fetch"])
    BY <1>4, CoreWays
  <2>2. DOMAIN work'[t] = DOMAIN Idle /\ work'[t].pc = "fetch" /\ Kept(work[t], work'[t])
        /\ work'[t].at = work[t].at /\ work'[t].ran = work[t].ran /\ work'[t].n_out_len = 0
    BY <1>1, <1>2, <2>1, SetFields DEF At, TypesOK, Idle, RequestOK, Kept
  <2>3. work'[t].kept = {}
    BY <1>1, <1>2, <2>1, SetFields DEF At, TypesOK, Idle, RequestOK
  <2> QED BY <1>2, <1>4, <2>2, <2>3, RanKept DEF RequestOK, InRequest, Kept
<1>5. CASE work[t].kind # "query"
  <2>1. PICK code : /\ Respond(t, code, {}, "reply")
                    /\ work[t].kind \in DOMAIN Fails => code = Fails[work[t].kind]
    BY <1>5, CoreWays
  <2>2. DOMAIN work'[t] = DOMAIN Idle /\ work'[t].pc = "reply" /\ Kept(work[t], work'[t])
        /\ work'[t].at = work[t].at /\ work'[t].ran = work[t].ran /\ work'[t].n_out_len = 1
    BY <1>1, <2>1, SetFields, SMTT(20) DEF Respond, At, TypesOK, Idle, Kept
  <2>3. resp_body'[t] = [of |-> work[t].pos + 1, code |-> code, ids |-> {}]
    BY <2>1 DEF Respond, At, TypesOK
  <2>4. ResponseOK(work'[t], resp_body'[t], work'[t].since .. version[t])
    BY <1>5, <2>1, <2>2, <2>3 DEF ResponseOK, Kept
  <2> QED BY <1>2, <1>5, <2>2, <2>4, RanKept DEF RequestOK, InRequest, Kept
<1> QED BY <1>4, <1>5

LEMMA FetchOK ==
  ASSUME NEW t, At(t), Fetch(t)
  PROVE  /\ RequestOK(work'[t], resp_body'[t], version[t]) /\ InRequest(work'[t])
         /\ Kept(work[t], work'[t]) /\ DOMAIN work'[t] = DOMAIN Idle
<1>1. work[t].pc = "fetch" /\ DOMAIN work[t] = DOMAIN Idle /\ version[t] \in Nat
  BY DEF Fetch, Is, At, TypesOK, VersionsOK
<1>2. RequestOK(work[t], resp_body[t], version[t])
  BY <1>1 DEF At, InRequest
<1>3. CASE Set(t, [pc |-> "reply"])
  <2>1. DOMAIN work'[t] = DOMAIN Idle /\ work'[t].pc = "reply" /\ Kept(work[t], work'[t])
        /\ work'[t].at = work[t].at /\ work'[t].ran = work[t].ran /\ work'[t].n_out_len = 0
    BY <1>1, <1>2, <1>3, SetFields DEF At, TypesOK, Idle, RequestOK, Kept
  <2>2. ResponseOK(work'[t], resp_body'[t], work'[t].since .. version[t])
    BY <1>1, <1>2, <2>1 DEF ResponseOK, RequestOK, Kept
  <2> QED BY <1>2, <2>1, <2>2, RanKept DEF RequestOK, InRequest, Kept
<1>4. CASE \E ids \in Follows : Set(t, [pc |-> "member", todo |-> ids, follow |-> ids])
  <2>1. PICK ids \in Follows : Set(t, [pc |-> "member", todo |-> ids, follow |-> ids])
    BY <1>4
  <2> DEFINE changes == [pc |-> "member", todo |-> ids, follow |-> ids]
  <2>4. /\ DOMAIN work'[t] = DOMAIN Idle
        /\ \A f \in DOMAIN Idle :
             work'[t][f] = IF f \in DOMAIN changes THEN changes[f] ELSE work[t][f]
    BY <1>1, <2>1, SetFields DEF At, TypesOK
  <2>5. work[t].n_out_len = 0 /\ work[t].kept = {}
    BY <1>1, <1>2 DEF RequestOK
  <2>2. DOMAIN work'[t] = DOMAIN Idle /\ work'[t].pc = "member" /\ Kept(work[t], work'[t])
        /\ work'[t].at = work[t].at /\ work'[t].ran = work[t].ran /\ work'[t].n_out_len = 0
        /\ work'[t].todo = ids /\ work'[t].follow = ids /\ work'[t].kept = {}
    BY <2>4, <2>5 DEF Idle, Kept
  <2>3. GatherOK(work'[t], work'[t].since .. version[t])
    BY <1>1, <1>2, <2>2 DEF GatherOK, RequestOK, Candidates
  <2> QED BY <1>1, <1>2, <2>2, <2>3, RanKept DEF RequestOK, InRequest, Kept
<1> QED BY <1>3, <1>4 DEF Fetch

LEMMA MemberOK ==
  ASSUME NEW t, At(t), Member(t)
  PROVE  /\ RequestOK(work'[t], resp_body'[t], version[t]) /\ InRequest(work'[t])
         /\ Kept(work[t], work'[t]) /\ DOMAIN work'[t] = DOMAIN Idle
<1> DEFINE w == work[t]
           w2 == work'[t]
<1>1. w.pc = "member" /\ DOMAIN w = DOMAIN Idle /\ version[t] \in Nat
  BY DEF Member, Is, At, TypesOK, VersionsOK
<1>2. RequestOK(w, resp_body[t], version[t])
  BY <1>1 DEF At, InRequest
<1>3. GatherOK(w, w.since .. version[t]) /\ version[t] \in w.since .. version[t]
  BY <1>1, <1>2 DEF RequestOK
<1>4. SUFFICES /\ DOMAIN w2 = DOMAIN Idle /\ w2.pc \in {"member", "type", "section"} /\ Kept(w, w2)
               /\ w2.at = w.at /\ w2.ran = w.ran /\ w2.n_out_len = w.n_out_len
               /\ GatherOK(w2, w.since .. version[t])
  BY <1>1, <1>2, RanKept DEF RequestOK, InRequest, Kept
<1>5. CASE w.todo = {} /\ Set(t, [pc |-> "section"])
  <2>1. /\ DOMAIN w2 = DOMAIN Idle /\ w2.pc = "section" /\ Kept(w, w2)
        /\ w2.at = w.at /\ w2.ran = w.ran /\ w2.n_out_len = w.n_out_len
        /\ w2.todo = w.todo /\ w2.follow = w.follow /\ w2.kept = w.kept
    BY <1>1, <1>5, SetFields DEF At, TypesOK, Idle, Kept
  <2> QED BY <1>1, <1>3, <1>5, <2>1 DEF GatherOK
<1>6. CASE \E id \in w.todo :
             Set(t, [pc   |-> IF Has(version[t], MemberDb, id) THEN "type" ELSE "member",
                     cur  |-> id, todo |-> w.todo \ {id}])
  <2>1. PICK id \in w.todo :
             Set(t, [pc   |-> IF Has(version[t], MemberDb, id) THEN "type" ELSE "member",
                     cur  |-> id, todo |-> w.todo \ {id}])
    BY <1>6
  <2>2. /\ DOMAIN w2 = DOMAIN Idle
        /\ w2.pc = (IF Has(version[t], MemberDb, id) THEN "type" ELSE "member") /\ Kept(w, w2)
        /\ w2.at = w.at /\ w2.ran = w.ran /\ w2.n_out_len = w.n_out_len
        /\ w2.cur = id /\ w2.todo = w.todo \ {id} /\ w2.follow = w.follow /\ w2.kept = w.kept
    BY <1>1, <2>1, SetFields DEF At, TypesOK, Idle, Kept
  <2>3. GatherOK(w2, w.since .. version[t])
    BY <1>1, <1>3, <2>2 DEF GatherOK
  <2> QED BY <2>2, <2>3
<1> QED BY <1>5, <1>6 DEF Member

LEMMA TypeIsOK ==
  ASSUME NEW t, At(t), Type(t)
  PROVE  /\ RequestOK(work'[t], resp_body'[t], version[t]) /\ InRequest(work'[t])
         /\ Kept(work[t], work'[t]) /\ DOMAIN work'[t] = DOMAIN Idle
<1> DEFINE w == work[t]
           w2 == work'[t]
           pair == <<w.cur, TypeOf(version[t], w.cur)>>
<1>1. w.pc = "type" /\ DOMAIN w = DOMAIN Idle /\ version[t] \in Nat
  BY DEF Type, Is, At, TypesOK, VersionsOK
<1>2. RequestOK(w, resp_body[t], version[t])
  BY <1>1 DEF At, InRequest
<1>3. GatherOK(w, w.since .. version[t]) /\ version[t] \in w.since .. version[t]
  BY <1>1, <1>2 DEF RequestOK
<1>4. /\ DOMAIN w2 = DOMAIN Idle /\ w2.pc = "member" /\ Kept(w, w2)
      /\ w2.at = w.at /\ w2.ran = w.ran /\ w2.n_out_len = w.n_out_len
      /\ w2.todo = w.todo /\ w2.follow = w.follow /\ w2.kept = w.kept \cup {pair}
  BY <1>1, SetFields DEF Type, At, TypesOK, Idle, Kept
<1>5. Candidates(w2.follow, w2.kept, w.since .. version[t])
  BY <1>1, <1>3, <1>4 DEF GatherOK, Candidates
<1>6. GatherOK(w2, w.since .. version[t])
  <2>1. ASSUME NEW id \in w2.follow
        PROVE  \/ id \in w2.todo
               \/ \E v \in w.since .. version[t] : ~Has(v, MemberDb, id)
               \/ \E p \in w2.kept : p[1] = id
    <3>1. CASE id = w.cur
      <4>1. pair \in w2.kept /\ pair[1] = id
        BY <1>4, <3>1
      <4> QED BY <4>1
    <3>2. CASE id # w.cur
      BY <1>1, <1>3, <1>4, <3>2 DEF GatherOK
    <3> QED BY <3>1, <3>2
  <2> QED BY <1>1, <1>3, <1>4, <1>5, <2>1 DEF GatherOK
<1> QED BY <1>1, <1>2, <1>4, <1>6, RanKept DEF RequestOK, InRequest, Kept

LEMMA SectionOK ==
  ASSUME NEW t, At(t), Section(t)
  PROVE  /\ RequestOK(work'[t], resp_body'[t], version[t]) /\ InRequest(work'[t])
         /\ Kept(work[t], work'[t]) /\ DOMAIN work'[t] = DOMAIN Idle
<1> DEFINE w == work[t]
           w2 == work'[t]
           during == w.since .. version[t]
           plan == Sections[Called(w.alg)[w.at]].plan
           so == AlgorithmFor(plan, w.uid, version[t])
<1>1. w.pc = "section" /\ DOMAIN w = DOMAIN Idle /\ version[t] \in Nat
  BY DEF Section, Is, At, TypesOK, VersionsOK
<1>2. RequestOK(w, resp_body[t], version[t])
  BY <1>1 DEF At, InRequest
<1>3. GatherOK(w, during) /\ RanOK(w, during) /\ version[t] \in during
  BY <1>1, <1>2 DEF RequestOK
<1>4. /\ DOMAIN w2 = DOMAIN Idle /\ w2.pc = "section" /\ Kept(w, w2)
      /\ w2.at = w.at + 1 /\ w2.ran = Append(w.ran, so) /\ w2.n_out_len = w.n_out_len
      /\ w2.todo = w.todo /\ w2.follow = w.follow /\ w2.kept = w.kept /\ w2.cur = w.cur
  <2> DEFINE changes == [at |-> w.at + 1, ran |-> Append(w.ran, so)]
  <2>1. Set(t, changes)
    BY DEF Section
  <2>2. /\ DOMAIN w2 = DOMAIN Idle
        /\ \A f \in DOMAIN Idle : w2[f] = IF f \in DOMAIN changes THEN changes[f] ELSE w[f]
    BY <1>1, <2>1, SetFields DEF At, TypesOK
  <2> QED BY <1>1, <2>2 DEF Idle, Kept
<1>5. GatherOK(w2, during)
  BY <1>1, <1>3, <1>4 DEF GatherOK
<1>6. Allowed(plan, w.uid, so, during)
  BY <1>3, AlgorithmAllowed
<1>7. RanOK(w2, during)
  <2>1. w.at \in Nat \ {0} /\ w.at - 1 \in Nat /\ IsSeq(w.ran, w.at - 1)
    BY <1>3 DEF RanOK
  <2>2. /\ IsSeq(w2.ran, w2.at - 1)
        /\ \A m \in 1 .. w.at - 1 : w2.ran[m] = w.ran[m]
        /\ w2.ran[w.at] = so
    <3> HIDE DEF so
    <3>1. PICK len \in Nat : len = w.at - 1 /\ IsSeq(w.ran, len) /\ w.at = len + 1
      BY <2>1
    <3>2. IsSeq(Append(w.ran, so), w.at)
      BY <3>1, AppendOne
    <3>3. Append(w.ran, so)[w.at] = so
      <4> DEFINE r == w.ran
                 a == w.at
      <4>2. IsSeq(r, len) /\ a = len + 1
        BY <3>1
      <4> HIDE DEF r, a, w
      <4>3. Append(r, so)[a] = so
        BY <4>2, AppendNew
      <4> QED BY <4>3 DEF r, a
    <3>4. \A m \in 1 .. len : Append(w.ran, so)[m] = w.ran[m]
      BY <3>1, AppendOld
    <3>5. w2.at - 1 = w.at
      BY <1>4, <2>1
    <3> QED BY <1>4, <3>1, <3>2, <3>3, <3>4, <3>5
  <2>3. \A m \in 1 .. w2.at - 1 : m \in 1 .. w.at - 1 \/ m = w.at
    BY <1>4, <2>1
  <2>4. ASSUME NEW m \in 1 .. w2.at - 1
        PROVE  Allowed(Sections[Called(w2.alg)[m]].plan, w2.uid, w2.ran[m], during)
    <3>1. w2.alg = w.alg /\ w2.uid = w.uid
      BY <1>4 DEF Kept
    <3>2. CASE m \in 1 .. w.at - 1
      BY <1>3, <2>2, <3>1, <3>2 DEF RanOK
    <3>3. CASE m = w.at
      BY <1>6, <2>2, <3>1, <3>3
    <3> QED BY <2>3, <3>2, <3>3
  <2>5. w2.at \in Nat \ {0}
    BY <1>4, <2>1
  <2> QED BY <2>2, <2>4, <2>5 DEF RanOK
<1> QED BY <1>1, <1>2, <1>4, <1>5, <1>7 DEF RequestOK, InRequest, Kept

LEMMA OutputOK ==
  ASSUME NEW t, At(t), Output(t)
  PROVE  /\ RequestOK(work'[t], resp_body'[t], version[t]) /\ InRequest(work'[t])
         /\ Kept(work[t], work'[t]) /\ DOMAIN work'[t] = DOMAIN Idle
<1> DEFINE w == work[t]
           w2 == work'[t]
           during == w.since .. version[t]
<1>1. w.pc = "section" /\ DOMAIN w = DOMAIN Idle /\ version[t] \in Nat
  BY DEF Output, Is, At, TypesOK, VersionsOK
<1>2. RequestOK(w, resp_body[t], version[t])
  BY <1>1 DEF At, InRequest
<1>3. GatherOK(w, during)
  BY <1>1, <1>2 DEF RequestOK
<1>4. /\ DOMAIN w2 = DOMAIN Idle /\ w2.pc = "reply" /\ Kept(w, w2)
      /\ w2.at = w.at /\ w2.ran = w.ran /\ w2.n_out_len = 1 /\ w2.follow = w.follow
  <2> DEFINE changes == [n_out_len |-> 1, pc |-> "reply"]
  <2>1. Set(t, changes)
    BY DEF Output, Respond
  <2>2. /\ DOMAIN w2 = DOMAIN Idle
        /\ \A f \in DOMAIN Idle : w2[f] = IF f \in DOMAIN changes THEN changes[f] ELSE w[f]
    BY <1>1, <2>1, SetFields DEF At, TypesOK
  <2> QED BY <1>1, <2>2 DEF Idle, Kept
<1>5. resp_body'[t] = [of |-> w.pos + 1, code |-> 0, ids |-> w.kept]
  BY DEF Output, Respond, At, TypesOK
<1>6. Complete(w.follow, w.kept, during)
  BY <1>1, <1>3 DEF GatherOK, Complete
<1>7. w.kind = "query" /\ "query" \notin DOMAIN Fails
  BY <1>1, <1>2 DEF RequestOK, Fails
<1>8. ResponseOK(w2, resp_body'[t], during)
  BY <1>3, <1>4, <1>5, <1>6, <1>7 DEF ResponseOK, GatherOK, Kept
<1> QED BY <1>1, <1>2, <1>4, <1>8, RanKept DEF RequestOK, InRequest, Kept

-----------------------------------------------------------------------------
(* The responses given. *)

\* What OwnResponses and PlanFollowed ask of the n-th response of a thread.
Fine(r, n) ==
  /\ r.kind # "query" => r.response # NoResponse
  /\ r.response # NoResponse => r.response.of = n
  /\ r.kind \in DOMAIN Fails => r.response.code = Fails[r.kind]
  /\ r.kind = "query" /\ r.response # NoResponse =>
       /\ Candidates(r.follow, r.response.ids, r.since .. r.till)
       /\ Complete(r.follow, r.response.ids, r.since .. r.till)

Followed(r) ==
  \A m \in DOMAIN r.ran :
    Allowed(Sections[Called(r.alg)[m]].plan, r.uid, r.ran[m], r.since .. r.till)

AllFine == \A t \in Thread : \A n \in DOMAIN out[t] : Fine(out[t][n], n)
AllFollowed == \A t \in Thread : \A n \in DOMAIN out[t] : Followed(out[t][n])

LEMMA FineIsOwn == OwnResponses <=> AllFine
BY DEF OwnResponses, AllFine, Fine, Candidates, Complete

LEMMA FollowedIsPlan == PlanFollowed <=> AllFollowed
BY DEF PlanFollowed, AllFollowed, Followed, Allowed, OnList, WHITELIST_FLAG, DEFAULT_FLAG

LEMMA ResponsesNext == AllFine' /\ AllFollowed' => OwnResponses' /\ PlanFollowed'
<1>1. (OwnResponses <=> AllFine)' /\ (PlanFollowed <=> AllFollowed)'
  BY FineIsOwn, FollowedIsPlan, PTL
<1> QED BY <1>1

LEMMA ReplyOK ==
  ASSUME NEW t, At(t), Reply(t)
  PROVE  /\ work'[t].pc = "next" /\ work'[t].queue = work[t].queue
         /\ work'[t].pos = work[t].pos + 1 /\ DOMAIN work'[t] = DOMAIN Idle
         /\ \E r : /\ out' = [out EXCEPT ![t] = Append(@, r)] /\ r.uid = work[t].uid
                   /\ Fine(r, work[t].pos + 1) /\ Followed(r)
<1> DEFINE w == work[t]
           r == [response |-> IF w.n_out_len = 0 THEN NoResponse ELSE resp_body[t],
                 uid |-> w.uid, kind |-> w.kind, alg |-> w.alg, follow |-> w.follow,
                 ran |-> w.ran, since |-> w.since, till |-> version[t]]
<1>1. w.pc = "reply" /\ DOMAIN w = DOMAIN Idle /\ w.pos \in Nat
  BY DEF Reply, Is, At, TypesOK
<1>2. RequestOK(w, resp_body[t], version[t])
  BY <1>1 DEF At, InRequest
<1>3. ResponseOK(w, resp_body[t], w.since .. version[t]) /\ RanOK(w, w.since .. version[t])
  BY <1>1, <1>2 DEF RequestOK
<1>4. /\ work'[t].pc = "next" /\ work'[t].queue = w.queue
      /\ work'[t].pos = w.pos + 1 /\ DOMAIN work'[t] = DOMAIN Idle
  <2> DEFINE changes == [pc |-> "next", pos |-> w.pos + 1]
  <2>1. Set(t, changes)
    BY DEF Reply
  <2>2. /\ DOMAIN work'[t] = DOMAIN Idle
        /\ \A f \in DOMAIN Idle :
             work'[t][f] = IF f \in DOMAIN changes THEN changes[f] ELSE w[f]
    BY <1>1, <2>1, SetFields DEF At, TypesOK
  <2> QED BY <1>1, <2>2 DEF Idle
<1>5. /\ r.uid = w.uid /\ r.kind = w.kind /\ r.alg = w.alg /\ r.follow = w.follow
      /\ r.ran = w.ran /\ r.since = w.since /\ r.till = version[t]
      /\ r.response = IF w.n_out_len = 0 THEN NoResponse ELSE resp_body[t]
  OBVIOUS
<1>6. out' = [out EXCEPT ![t] = Append(@, r)]
  BY DEF Reply
<1> HIDE DEF r
<1>7. Followed(r)
  <2>1. DOMAIN w.ran = 1 .. w.at - 1
    BY <1>3 DEF RanOK, IsSeq
  <2> QED BY <1>3, <1>5, <2>1 DEF Followed, RanOK
<1>8. Fine(r, w.pos + 1)
  <2>1. w.n_out_len # 0 => resp_body[t].of = w.pos + 1 /\ resp_body[t] # NoResponse
    BY <1>1, <1>3 DEF ResponseOK, NoResponse
  <2>2. w.kind \in DOMAIN Fails => w.kind # "query"
    BY DEF Fails
  <2> QED BY <1>3, <1>5, <2>1, <2>2 DEF Fine, ResponseOK
<1> QED BY <1>4, <1>5, <1>6, <1>7, <1>8

\* One more response of thread t.
LEMMA OutGrows ==
  ASSUME TypesOK, NEW t \in Thread, NEW r, out' = [out EXCEPT ![t] = Append(@, r)]
  PROVE  /\ out' = [u \in Thread |-> out'[u]]
         /\ \A u \in Thread \ {t} : out'[u] = out[u]
         /\ IsSeq(out'[t], work[t].pos + 1)
         /\ \A n \in 1 .. work[t].pos : out'[t][n] = out[t][n]
         /\ out'[t][work[t].pos + 1] = r
<1> DEFINE s == out[t]
           len == work[t].pos
<1>1. IsSeq(s, len) /\ len \in Nat
  BY DEF TypesOK
<1>2. out'[t] = Append(s, r)
  BY DEF TypesOK
<1>3. IsSeq(Append(s, r), len + 1)
  <2> HIDE DEF s, len
  <2> QED BY <1>1, AppendOne
<1>4. Append(s, r)[len + 1] = r
  <2> HIDE DEF s, len
  <2> QED BY <1>1, AppendNew
<1>5. \A n \in 1 .. len : Append(s, r)[n] = s[n]
  <2> HIDE DEF s, len
  <2> QED BY <1>1, AppendOld
<1>6. out' = [u \in Thread |-> out'[u]] /\ \A u \in Thread \ {t} : out'[u] = out[u]
  BY DEF TypesOK
<1> QED BY <1>2, <1>3, <1>4, <1>5, <1>6

-----------------------------------------------------------------------------
(* The inductive invariant. *)

LEMMA InvInit == Init => IInv
<1> SUFFICES ASSUME Init PROVE IInv
  OBVIOUS
<1>1. VersionsOK
  BY DispatchAssumption DEF Init, VersionsOK, Thread
<1>2. \A t \in Thread : work[t] = Idle /\ out[t] = <<>>
  BY DEF Init
<1>3. /\ work = [t \in Thread |-> work[t]]
      /\ resp_body = [t \in Thread |-> resp_body[t]]
      /\ out = [t \in Thread |-> out[t]]
  BY DEF Init
<1>4. Idle.pos = 0 /\ Idle.pc = "next"
  BY DEF Idle
<1>5. TypesOK
  <2>1. IsSeq(<<>>, 0)
    BY DEF IsSeq
  <2> QED BY <1>2, <1>3, <1>4, <2>1 DEF TypesOK
<1>6. RequestsOK
  BY <1>2, <1>4 DEF RequestsOK, InRequest
<1>7. QueuesOK
  BY <1>2, <1>4 DEF Init, QueuesOK, Is, Joined
<1>8. AllFine /\ AllFollowed
  BY <1>2 DEF AllFine, AllFollowed
<1> QED BY <1>1, <1>5, <1>6, <1>7, <1>8, FineIsOwn, FollowedIsPlan DEF IInv

LEMMA InvAt ==
  ASSUME IInv, NEW t \in Thread
  PROVE  At(t)
BY DEF IInv, At, RequestsOK

\* A thread changes its request and its buffer, and gives no response.
LEMMA GoesOn ==
  ASSUME IInv, NEW t \in Thread, UNCHANGED <<version, out, main>>,
         work' = [u \in Thread |-> work'[u]], resp_body' = [u \in Thread |-> resp_body'[u]],
         \A u \in Thread \ {t} : work'[u] = work[u] /\ resp_body'[u] = resp_body[u],
         DOMAIN work'[t] = DOMAIN Idle, work'[t].pos = work[t].pos,
         InRequest(work'[t]) => RequestOK(work'[t], resp_body'[t], version[t]),
         program = "batch" => phase = "run" /\ QueueOK(t)'
  PROVE  IInv'
<1> USE DEF IInv
<1>1. VersionsOK'
  BY DEF VersionsOK, main
<1>2. TypesOK'
  BY DEF TypesOK
<1>3. RequestsOK'
  BY DEF RequestsOK
<1>4. QueuesOK'
  <2> SUFFICES ASSUME program = "batch"
               PROVE  \A u \in Thread : QueueOK(u)'
    BY DEF QueuesOK, Joined, main
  <2>1. ASSUME NEW u \in Thread \ {t} PROVE QueueOK(u)'
    <3>1. QueueOK(u)
      BY DEF QueuesOK
    <3> QED BY <3>1 DEF QueueOK, main, Is
  <2> QED BY <2>1
<1>5. (AllFine /\ AllFollowed)'
  BY FineIsOwn, FollowedIsPlan DEF AllFine, AllFollowed
<1>6. (OwnResponses /\ PlanFollowed)'
  BY <1>5, ResponsesNext
<1> QED BY <1>1, <1>2, <1>3, <1>4, <1>6

\* The queue of a thread that goes on with its request.
LEMMA QueueKept ==
  ASSUME IInv, NEW t \in Thread, UNCHANGED <<out, main>>, InRequest(work[t]), InRequest(work'[t]),
         Kept(work[t], work'[t]), program = "batch"
  PROVE  phase = "run" /\ QueueOK(t)'
<1>1. phase = "run" /\ QueueOK(t)
  BY DEF IInv, QueuesOK, InRequest, Is
<1> QED BY <1>1 DEF QueueOK, Kept, Is, InRequest, main

LEMMA RequestInv ==
  ASSUME IInv, NEW t \in Thread, RequestStep(t), UNCHANGED main
  PROVE  IInv'
<1>1. At(t) /\ TypesOK
  BY InvAt DEF IInv
<1>2. CASE ~Reply(t)
  <2>1. UNCHANGED <<version, out>> /\ InRequest(work[t])
    BY <1>2 DEF RequestStep, Core, Fetch, Member, Type, Section, Output, Is, InRequest
  <2>2. /\ RequestOK(work'[t], resp_body'[t], version[t]) /\ InRequest(work'[t])
        /\ Kept(work[t], work'[t]) /\ DOMAIN work'[t] = DOMAIN Idle
    BY <1>1, <1>2, CoreOK, FetchOK, MemberOK, TypeIsOK, SectionOK, OutputOK DEF RequestStep
  <2>3. \E changes : Set(t, changes)
    <3>1. CASE Core(t)
      BY <1>1, <3>1, CoreWays DEF Respond
    <3>2. CASE Fetch(t) \/ Member(t) \/ Type(t)
      BY <3>2 DEF Fetch, Member, Type
    <3>3. CASE Section(t) \/ Output(t)
      BY <3>3 DEF Section, Output, Respond
    <3> QED BY <1>2, <3>1, <3>2, <3>3 DEF RequestStep
  <2>4. work' = [u \in Thread |-> work'[u]] /\ \A u \in Thread \ {t} : work'[u] = work[u]
    BY <1>1, <2>3, SetFields DEF TypesOK
  <2>5. /\ resp_body' = [u \in Thread |-> resp_body'[u]]
        /\ \A u \in Thread \ {t} : resp_body'[u] = resp_body[u]
    <3>1. resp_body' = resp_body \/ \E b : resp_body' = [resp_body EXCEPT ![t] = b]
      <4>1. CASE Core(t)
        BY <1>1, <4>1, CoreWays DEF Respond
      <4>2. CASE Fetch(t) \/ Member(t) \/ Type(t) \/ Section(t)
        BY <4>2 DEF Fetch, Member, Type, Section
      <4>3. CASE Output(t)
        BY <4>3 DEF Output, Respond
      <4> QED BY <1>2, <4>1, <4>2, <4>3 DEF RequestStep
    <3> QED BY <1>1, <3>1 DEF TypesOK
  <2>6. program = "batch" => phase = "run" /\ QueueOK(t)'
    BY <2>1, <2>2, QueueKept
  <2> QED BY <2>1, <2>2, <2>4, <2>5, <2>6, GoesOn DEF Kept
<1>3. CASE Reply(t)
  <2>1. PICK r : /\ out' = [out EXCEPT ![t] = Append(@, r)] /\ r.uid = work[t].uid
                 /\ Fine(r, work[t].pos + 1) /\ Followed(r)
    BY <1>1, <1>3, ReplyOK
  <2>2. /\ work'[t].pc = "next" /\ work'[t].queue = work[t].queue
        /\ work'[t].pos = work[t].pos + 1 /\ DOMAIN work'[t] = DOMAIN Idle
    BY <1>1, <1>3, ReplyOK
  <2>3. /\ out' = [u \in Thread |-> out'[u]]
        /\ \A u \in Thread \ {t} : out'[u] = out[u]
        /\ IsSeq(out'[t], work[t].pos + 1)
        /\ \A n \in 1 .. work[t].pos : out'[t][n] = out[t][n]
        /\ out'[t][work[t].pos + 1] = r
    BY <1>1, <2>1, OutGrows
  <2>4. work' = [u \in Thread |-> work'[u]] /\ \A u \in Thread \ {t} : work'[u] = work[u]
    <3>1. \E changes : Set(t, changes)
      BY <1>3 DEF Reply
    <3> QED BY <1>1, <3>1, SetFields DEF TypesOK
  <2>5. UNCHANGED <<version, resp_body>> /\ work[t].pc = "reply" /\ work[t].pos \in Nat
    BY <1>1, <1>3 DEF Reply, Is, TypesOK
  <2>6. \A n \in 1 .. work[t].pos + 1 : n \in 1 .. work[t].pos \/ n = work[t].pos + 1
    BY <2>5
  <2>7. DOMAIN out[t] = 1 .. work[t].pos /\ DOMAIN out'[t] = 1 .. work[t].pos + 1
    BY <1>1, <2>3 DEF TypesOK, IsSeq
  <2>8. VersionsOK'
    BY <2>5 DEF IInv, VersionsOK, main
  <2>9. TypesOK'
    BY <1>1, <2>2, <2>3, <2>4, <2>5 DEF TypesOK
  <2>10. RequestsOK'
    BY <2>2, <2>4, <2>5 DEF IInv, RequestsOK, InRequest
  <2>11. QueuesOK'
    <3> SUFFICES ASSUME program = "batch"
                 PROVE  phase = "run" /\ \A u \in Thread : QueueOK(u)'
      BY DEF IInv, QueuesOK, Joined, main
    <3>1. phase = "run" /\ \A u \in Thread : QueueOK(u)
      BY <2>5 DEF IInv, QueuesOK, Is
    <3>2. ASSUME NEW u \in Thread \ {t} PROVE QueueOK(u)'
      BY <2>3, <2>4, <3>1 DEF QueueOK, main, Is
    <3>3. \A n \in 1 .. work[t].pos + 1 : out'[t][n].uid = work[t].queue[n]
      BY <2>1, <2>3, <2>5, <2>6, <3>1, ZenonT(40) DEF QueueOK, InRequest
    <3>4. QueueOK(t)'
      BY <2>2, <2>5, <3>1, <3>3 DEF QueueOK, main, Is, InRequest
    <3> QED BY <3>1, <3>2, <3>4
  <2>12. AllFine'
    <3>1. \A u \in Thread \ {t} : \A n \in DOMAIN out'[u] : Fine(out'[u][n], n)
      BY <2>3, FineIsOwn DEF IInv, AllFine
    <3>2. \A n \in DOMAIN out'[t] : Fine(out'[t][n], n)
      BY <2>1, <2>3, <2>6, <2>7, FineIsOwn DEF IInv, AllFine
    <3> QED BY <3>1, <3>2 DEF AllFine
  <2>13. AllFollowed'
    <3>1. \A u \in Thread \ {t} : \A n \in DOMAIN out'[u] : Followed(out'[u][n])
      BY <2>3, FollowedIsPlan DEF IInv, AllFollowed
    <3>2. \A n \in DOMAIN out'[t] : Followed(out'[t][n])
      BY <2>1, <2>3, <2>6, <2>7, FollowedIsPlan DEF IInv, AllFollowed
    <3> QED BY <3>1, <3>2 DEF AllFollowed
  <2> QED BY <2>8, <2>9, <2>10, <2>11, <2>12, <2>13, ResponsesNext DEF IInv
<1> QED BY <1>2, <1>3

LEMMA BeginInv ==
  ASSUME IInv, NEW t \in Thread, NEW uid, NEW kind \in Kinds, NEW alg, Begin(t, uid, kind, alg),
         UNCHANGED main,
         program = "batch" => phase = "run" /\ uid = work[t].queue[work[t].pos + 1]
  PROVE  IInv'
<1>1. At(t) /\ TypesOK
  BY InvAt DEF IInv
<1>2. UNCHANGED <<version, resp_body, out>> /\ Is(t, "next") /\ \E changes : Set(t, changes)
  BY DEF Begin
<1>3. /\ RequestOK(work'[t], resp_body'[t], version[t]) /\ InRequest(work'[t])
      /\ work'[t].uid = uid /\ work'[t].queue = work[t].queue /\ work'[t].pos = work[t].pos
      /\ DOMAIN work'[t] = DOMAIN Idle
  BY <1>1, <1>2, BeginOK
<1>4. work' = [u \in Thread |-> work'[u]] /\ \A u \in Thread \ {t} : work'[u] = work[u]
  BY <1>1, <1>2, SetFields DEF TypesOK
<1>5. program = "batch" => phase = "run" /\ QueueOK(t)'
  <2> SUFFICES ASSUME program = "batch" PROVE phase = "run" /\ QueueOK(t)'
    OBVIOUS
  <2>1. phase = "run" /\ QueueOK(t)
    BY DEF IInv, QueuesOK
  <2> QED BY <1>2, <1>3, <2>1 DEF QueueOK, Is, InRequest, main
<1> QED BY <1>1, <1>2, <1>3, <1>4, <1>5, GoesOn DEF TypesOK

\* Open and LastKey only move the thread.
LEMMA ThreadInv ==
  ASSUME IInv, NEW t \in Thread, Open(t) \/ LastKey(t)
  PROVE  IInv'
<1>1. TypesOK /\ DOMAIN work[t] = DOMAIN Idle
  BY DEF IInv, TypesOK
<1>2. UNCHANGED <<version, resp_body, out, main>>
  BY DEF Open, LastKey
<1>3. PICK pc : /\ Set(t, [pc |-> pc])
                /\ \/ Is(t, "open") /\ pc = IF t \in canOpen THEN "next" ELSE "returned"
                   \/ /\ Is(t, "next") /\ pc = "returned"
                      /\ work[t].pos = Len(work[t].queue)
  BY DEF Open, LastKey
<1>4. work' = [u \in Thread |-> work'[u]] /\ \A u \in Thread \ {t} : work'[u] = work[u]
  BY <1>1, <1>3, SetFields DEF TypesOK
<1>5. /\ DOMAIN work'[t] = DOMAIN Idle /\ work'[t].pc = pc
      /\ work'[t].pos = work[t].pos /\ work'[t].queue = work[t].queue
  BY <1>1, <1>3, SetFields DEF TypesOK, Idle
<1>6. program = "batch" => phase = "run" /\ QueueOK(t)'
  <2> SUFFICES ASSUME program = "batch" PROVE phase = "run" /\ QueueOK(t)'
    OBVIOUS
  <2>1. phase = "run" /\ QueueOK(t)
    BY DEF IInv, QueuesOK, Open, LastKey, Is
  <2> QED BY <1>2, <1>3, <1>5, <2>1 DEF QueueOK, Is, InRequest, main
<1>7. ~InRequest(work'[t])
  BY <1>3, <1>5 DEF InRequest
<1> QED BY <1>1, <1>2, <1>4, <1>5, <1>6, <1>7, GoesOn DEF TypesOK

\* What main does leaves the responses alone.
LEMMA OthersKept ==
  ASSUME IInv, UNCHANGED out
  PROVE  (OwnResponses /\ PlanFollowed)'
BY FineIsOwn, FollowedIsPlan, ResponsesNext DEF IInv, AllFine, AllFollowed

LEMMA CreateInv ==
  ASSUME IInv, Create
  PROVE  IInv'
<1>1. UNCHANGED <<version, resp_body, out, program, file, canOpen, installing, serving>>
  BY DEF Create
<1>2. /\ program = "batch" /\ \A t \in Thread : Is(t, "next") /\ work[t].pos = 0
      /\ VersionsOK /\ TypesOK /\ RequestsOK
  BY DEF Create, IInv, QueuesOK
<1>3. VersionsOK'
  BY <1>1, <1>2 DEF VersionsOK
<1>4. CASE file = Missing
  <2>1. phase' = "crashed" /\ UNCHANGED work
    BY <1>4 DEF Create
  <2>2. TypesOK' /\ RequestsOK'
    BY <1>1, <1>2, <2>1 DEF TypesOK, RequestsOK
  <2>3. QueuesOK'
    BY <1>1, <1>2, <2>1 DEF QueuesOK, Joined, Is
  <2> QED BY <1>1, <1>3, <2>2, <2>3, OthersKept DEF IInv
<1>5. CASE file # Missing
  <2>1. /\ phase' = "run"
        /\ work' = [t \in Thread |-> [Idle EXCEPT !.pc = "open", !.queue = Queue(file, t)]]
    BY <1>5 DEF Create, Keys
  <2>2. ASSUME NEW t \in Thread
        PROVE  /\ DOMAIN work'[t] = DOMAIN Idle /\ work'[t].pos = 0
               /\ work'[t].pc = "open" /\ work'[t].queue = Queue(file, t)
    BY <2>1 DEF Idle
  <2>3. work' = [t \in Thread |-> work'[t]]
    BY <2>1
  <2>4. TypesOK'
    BY <1>1, <1>2, <2>2, <2>3 DEF TypesOK
  <2>5. RequestsOK'
    BY <2>2 DEF RequestsOK, InRequest
  <2>6. \A t \in Thread : QueueOK(t)'
    BY <1>1, <2>2 DEF QueueOK, Is, InRequest
  <2>7. QueuesOK'
    BY <1>1, <1>2, <2>1, <2>6 DEF QueuesOK, Joined
  <2> QED BY <1>1, <1>3, <2>4, <2>5, <2>7, OthersKept DEF IInv
<1> QED BY <1>4, <1>5

LEMMA JoinInv ==
  ASSUME IInv, Join
  PROVE  IInv'
<1>1. UNCHANGED <<version, work, resp_body, out, program, file, canOpen, installing, serving>>
  BY DEF Join
<1>2. VersionsOK' /\ TypesOK' /\ RequestsOK'
  BY <1>1 DEF IInv, VersionsOK, TypesOK, RequestsOK
<1>3. QueuesOK'
  <2>1. \A t \in Thread : QueueOK(t)'
    BY <1>1 DEF Join, IInv, QueuesOK, QueueOK, Is
  <2> QED BY <1>1, <2>1 DEF Join, QueuesOK, Joined, Is
<1> QED BY <1>1, <1>2, <1>3, OthersKept DEF IInv

LEMMA DestroyInv ==
  ASSUME IInv, Destroy
  PROVE  IInv'
<1>1. UNCHANGED <<version, work, resp_body, out, program, file, canOpen, installing, serving>>
  BY DEF Destroy
<1>2. VersionsOK' /\ TypesOK' /\ RequestsOK'
  BY <1>1 DEF IInv, VersionsOK, TypesOK, RequestsOK
<1>3. QueuesOK'
  <2>1. phase = "swapped" /\ phase' = "destroyed" /\ program = "batch"
    BY DEF Destroy, IInv, QueuesOK
  <2>2. \A t \in Thread : QueueOK(t)' /\ Is(t, "returned")'
    BY <1>1, <2>1 DEF IInv, QueuesOK, Joined, QueueOK, Is
  <2> QED BY <1>1, <2>1, <2>2 DEF QueuesOK, Joined, Is
<1> QED BY <1>1, <1>2, <1>3, OthersKept DEF IInv

\* The version of a thread only grows.
LEMMA InstallInv ==
  ASSUME IInv, Install
  PROVE  IInv'
<1>1. UNCHANGED <<work, resp_body, out, program, file, canOpen>>
  BY DEF Install
<1>2. VersionsOK /\ TypesOK /\ RequestsOK /\ QueuesOK
  BY DEF IInv
<1>3. installing \in Nat /\ installing < NumThreads /\ serving \in Nat /\ NumThreads \in Nat
  BY <1>2, DispatchAssumption DEF VersionsOK, Thread
<1>4. version' = [t \in Thread |-> IF t < installing + 1 THEN serving + 1 ELSE serving]
  <2> DEFINE before == [t \in Thread |-> IF t < installing THEN serving + 1 ELSE serving]
             after  == [t \in Thread |-> IF t < installing + 1 THEN serving + 1 ELSE serving]
  <2>1. version = before /\ version' = [version EXCEPT ![installing] = serving + 1]
    BY <1>2 DEF Install, VersionsOK
  <2>2. \A t \in Thread : t # installing => before[t] = after[t]
    <3>1. \A t \in Thread : t \in Int
      BY <1>3 DEF Thread
    <3>2. \A t \in Thread : t # installing => (t < installing <=> t < installing + 1)
      BY <1>3, <3>1
    <3> QED BY <3>2
  <2>3. installing \in Thread => after[installing] = serving + 1
    BY <1>3
  <2>4. DOMAIN before = Thread /\ before = [t \in Thread |-> before[t]]
    OBVIOUS
  <2> HIDE DEF before
  <2>5. version' = [t \in Thread |-> IF t = installing THEN serving + 1 ELSE before[t]]
    BY <2>1, <2>4
  <2>6. version' = [t \in Thread |-> after[t]]
    <3> HIDE DEF after
    <3> QED BY <1>2, <2>2, <2>3, <2>5 DEF VersionsOK
  <2> QED BY <2>6
<1>5. VersionsOK'
  <2>1. CASE installing + 1 < NumThreads
    <3>1. installing' = installing + 1 /\ UNCHANGED serving
      BY <2>1 DEF Install
    <3>2. installing + 1 \in Thread
      BY <1>3, <2>1 DEF Thread
    <3> QED BY <1>3, <1>4, <3>1, <3>2 DEF VersionsOK
  <2>2. CASE ~(installing + 1 < NumThreads)
    <3>1. installing' = 0 /\ serving' = serving + 1
      BY <2>2 DEF Install
    <3>2. \A t \in Thread : t < installing + 1 /\ ~(t < 0)
      BY <1>3, <2>2 DEF Thread
    <3>3. 0 \in Thread
      BY <1>3 DEF Thread
    <3> QED BY <1>3, <1>4, <3>1, <3>2, <3>3 DEF VersionsOK
  <2> QED BY <2>1, <2>2
<1>6. TypesOK'
  BY <1>1, <1>2 DEF TypesOK
<1>7. RequestsOK'
  <2> SUFFICES ASSUME NEW t \in Thread, InRequest(work[t])
               PROVE  RequestOK(work[t], resp_body[t], version'[t])
    BY <1>1 DEF RequestsOK
  <2>1. RequestOK(work[t], resp_body[t], version[t])
    BY <1>2 DEF RequestsOK
  <2>2. version[t] \in Nat /\ version'[t] \in Nat /\ version[t] <= version'[t]
    BY <1>2, <1>3, <1>4 DEF VersionsOK, Thread
  <2> QED BY <2>1, <2>2, RequestWidens
<1>8. QueuesOK'
  <2>1. CASE program # "batch"
    <3>1. phase = "run" /\ phase' = phase
      BY <1>2, <2>1 DEF QueuesOK, Install
    <3> QED BY <1>1, <2>1, <3>1 DEF QueuesOK
  <2>2. CASE program = "batch"
    <3>1. phase = "update" /\ phase' \in {"update", "swapped"}
      BY <2>2 DEF Install
    <3>2. \A t \in Thread : QueueOK(t)' /\ Is(t, "returned")'
      BY <1>1, <1>2, <2>2, <3>1 DEF QueuesOK, Joined, QueueOK, Is
    <3> QED BY <1>1, <2>2, <3>1, <3>2 DEF QueuesOK, Joined
  <2> QED BY <2>1, <2>2
<1> QED BY <1>1, <1>5, <1>6, <1>7, <1>8, OthersKept DEF IInv

LEMMA InvStep == IInv /\ [Next]_vars => IInv'
<1> SUFFICES ASSUME IInv, [Next]_vars PROVE IInv'
  OBVIOUS
<1>1. CASE Create
  BY <1>1, CreateInv
<1>2. CASE Join
  BY <1>2, JoinInv
<1>3. CASE Install
  BY <1>3, InstallInv
<1>4. CASE Destroy
  BY <1>4, DestroyInv
<1>5. ASSUME NEW t \in Thread, ThreadStep(t) PROVE IInv'
  <2>1. CASE Open(t) \/ LastKey(t)
    BY <2>1, ThreadInv
  <2>2. CASE NextKey(t)
    <3>1. "query" \in Kinds
      BY DEF Kinds
    <3>2. /\ phase = "run" /\ UNCHANGED main
          /\ Begin(t, work[t].queue[work[t].pos + 1], "query", "all")
      BY <2>2 DEF NextKey
    <3> QED BY <3>1, <3>2, BeginInv
  <2>3. CASE RequestStep(t) /\ UNCHANGED main
    BY <2>3, RequestInv
  <2> QED BY <1>5, <2>1, <2>2, <2>3 DEF ThreadStep
<1>6. ASSUME NEW t \in Thread, Request(t) PROVE IInv'
  <2>1. PICK uid \in Uid, kind \in Kinds, alg \in AlgNames : Begin(t, uid, kind, alg)
    BY <1>6 DEF Request
  <2>2. program # "batch" /\ UNCHANGED main
    BY <1>6 DEF Request
  <2> QED BY <2>1, <2>2, BeginInv
<1>7. CASE UNCHANGED vars
  <2>1. UNCHANGED <<version, work, resp_body, out, program, phase, file, canOpen, installing,
                    serving>>
    BY <1>7 DEF vars, main
  <2>2. VersionsOK' /\ TypesOK' /\ RequestsOK'
    BY <2>1 DEF IInv, VersionsOK, TypesOK, RequestsOK
  <2>3. QueuesOK'
    BY <2>1 DEF IInv, QueuesOK, QueueOK, Joined, Is
  <2> QED BY <2>1, <2>2, <2>3, OthersKept DEF IInv
<1> QED BY <1>1, <1>2, <1>3, <1>4, <1>5, <1>6, <1>7 DEF Next

\* All of it holds in every state, with any files, plans, databases and updates.
THEOREM Inductive == Spec => []IInv
BY InvInit, InvStep, PTL DEF Spec

-----------------------------------------------------------------------------
(* What it implies. *)

\* Whatever the updates do during a request, the response is that of its own
\* request, made of what was loaded while it ran (work_company.h:33-76,
\* simple_frame_work_interface.cpp:168-213).
THEOREM Own == Spec => []OwnResponses
<1>1. IInv => OwnResponses
  BY DEF IInv
<1> QED BY <1>1, Inductive, PTL

\* A user is treated by the plan of each section, as it was during the request
\* (algorithm_func.h:177-412).
THEOREM Planned == Spec => []PlanFollowed
<1>1. IInv => PlanFollowed
  BY DEF IInv
<1> QED BY <1>1, Inductive, PTL

\* The batch program gives every key of its file one line, in the output of the
\* thread its remainder names and in the order of the file, whatever the
\* requests and the other threads met (lab_common_main.cpp:44-88, 181-203).
THEOREM EveryKey == Spec => []EveryKeyOnce
<1>1. IInv => EveryKeyOnce
  <2> SUFFICES ASSUME IInv, program = "batch", phase \in Joined, NEW t \in Thread,
                      NEW owed,
                      owed = IF t \in canOpen
                             THEN SelectSeq(file, LAMBDA id : id % NumThreads = t) ELSE <<>>
               PROVE  /\ Len(out[t]) = Len(owed)
                      /\ \A n \in DOMAIN out[t] : out[t][n].uid = owed[n]
    BY DEF EveryKeyOnce, Joined
  <2>1. QueueOK(t) /\ Is(t, "returned") /\ TypesOK
    BY DEF IInv, QueuesOK
  <2>2. IsSeq(out[t], work[t].pos) /\ work[t].pos \in Nat
    BY <2>1 DEF TypesOK
  <2>3. Len(out[t]) = work[t].pos /\ DOMAIN out[t] = 1 .. work[t].pos
    BY <2>2 DEF IsSeq
  <2>4. t \in canOpen => owed = work[t].queue
    BY <2>1 DEF QueueOK, Queue
  <2>5. t \notin canOpen => owed = <<>> /\ Len(owed) = 0
    OBVIOUS
  <2>6. t \notin canOpen => work[t].pos = 0
    BY <2>1 DEF QueueOK
  <2>7. t \in canOpen => Len(owed) = work[t].pos
    BY <2>1, <2>4 DEF QueueOK
  <2>8. Len(out[t]) = Len(owed)
    BY <2>3, <2>5, <2>6, <2>7
  <2>9. ASSUME NEW n \in DOMAIN out[t] PROVE out[t][n].uid = owed[n]
    <3>1. n \in 1 .. work[t].pos /\ t \in canOpen
      BY <2>2, <2>3, <2>6
    <3> QED BY <2>1, <2>4, <3>1 DEF QueueOK
  <2> QED BY <2>8, <2>9
<1> QED BY <1>1, Inductive, PTL
=============================================================================
