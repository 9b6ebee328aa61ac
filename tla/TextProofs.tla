------------------------------ MODULE TextProofs ------------------------------
(***************************************************************************)
(* Theorems about the text of Inputs, for texts, files and numbers of any  *)
(* size: the functions that split agree, a data file whose lines fit is    *)
(* read whole, what strstr_k finds is there, the byte order functions      *)
(* reverse.  The text is only known to be bytes (InputOK); all the rest is *)
(* about the operators of Text and DataFiles.                              *)
(*                                                                         *)
(* Each of these is a loop, a function of the number of rounds.  SomeLoop  *)
(* is proved once: such a function exists, is the only one, and what it    *)
(* makes of Append(s, c) is one step from what it makes of s.  A lemma per *)
(* operator says so of its own step, and from then on texts are taken by   *)
(* induction on their length (SeqInduction): what two loops have made of a *)
(* text is related, and one more character keeps the relation.             *)
(***************************************************************************)
EXTENDS InputsProofs, SequenceTheorems, FiniteSetTheorems

\* A property of 0 that goes from each number to the next, up to l.
LEMMA Climb ==
  ASSUME NEW l \in Nat, NEW T, 0 \in T, \A n \in 1 .. l : n - 1 \in T => n \in T
  PROVE  \A n \in 0 .. l : n \in T
<1> DEFINE Out == {n \in 0 .. l : n \notin T}
<1> SUFFICES ASSUME Out # {} PROVE FALSE
  OBVIOUS
<1>1. PICK m \in Out : \A k \in Out : m <= k
  <2>1. Out \subseteq Nat
    OBVIOUS
  <2> HIDE DEF Out
  <2> QED BY <2>1, Least
<1>2. m \in 1 .. l /\ m - 1 \in 0 .. l
  OBVIOUS
<1>3. m - 1 \notin Out
  BY <1>1, <1>2
<1> QED BY <1>2, <1>3

LEMMA PrefixGrows ==
  ASSUME NEW C, NEW s \in Seq(C), NEW n \in 1 .. Len(s)
  PROVE  SubSeq(s, 1, n) = Append(SubSeq(s, 1, n - 1), s[n])
<1> DEFINE p == SubSeq(s, 1, n - 1)
<1>1. p \in Seq(C) /\ Len(p) = n - 1 /\ \A k \in 1 .. n - 1 : p[k] = s[k]
  OBVIOUS
<1>2. SubSeq(s, 1, n) \in Seq(C) /\ Len(SubSeq(s, 1, n)) = n
  OBVIOUS
<1>3. \A k \in 1 .. n : SubSeq(s, 1, n)[k] = s[k]
  OBVIOUS
<1> HIDE DEF p
<1>4. Append(p, s[n]) \in Seq(C) /\ Len(Append(p, s[n])) = n
  BY <1>1
<1>5. \A k \in 1 .. n : Append(p, s[n])[k] = s[k]
  BY <1>1
<1>6. SubSeq(s, 1, n) = Append(p, s[n])
  BY <1>2, <1>3, <1>4, <1>5
<1> QED BY <1>6 DEF p

\* Whatever holds of the empty sequence and, with a sequence, of every sequence
\* that is longer by one element, holds of all.
LEMMA SeqInduction ==
  ASSUME NEW C, NEW T, <<>> \in T,
         \A s \in Seq(C), c \in C : s \in T => Append(s, c) \in T
  PROVE  Seq(C) \subseteq T
<1> SUFFICES ASSUME NEW s \in Seq(C) PROVE s \in T
  OBVIOUS
<1> DEFINE Done == {n \in 0 .. Len(s) : SubSeq(s, 1, n) \in T}
<1>1. 0 \in Done
  <2>1. SubSeq(s, 1, 0) = <<>>
    BY SubSeqEmpty
  <2>2. 0 \in 0 .. Len(s)
    OBVIOUS
  <2> QED BY <2>1, <2>2
<1>2. ASSUME NEW n \in 1 .. Len(s), n - 1 \in Done PROVE n \in Done
  <2>1. SubSeq(s, 1, n) = Append(SubSeq(s, 1, n - 1), s[n])
    BY PrefixGrows
  <2>2. SubSeq(s, 1, n - 1) \in Seq(C) /\ s[n] \in C
    <3>1. 1 \in 1 .. Len(s) + 1 /\ n - 1 \in 1 - 1 .. Len(s)
      OBVIOUS
    <3> QED BY <3>1, SubSeqProperties
  <2>3. SubSeq(s, 1, n - 1) \in T
    BY <1>2
  <2>4. SubSeq(s, 1, n) \in T
    BY <2>1, <2>2, <2>3, Zenon
  <2> QED BY <2>4
<1>3. Len(s) \in Done
  <2>1. Len(s) \in Nat /\ Len(s) \in 0 .. Len(s)
    OBVIOUS
  <2> HIDE DEF Done
  <2> QED BY <1>1, <1>2, <2>1, Climb
<1>4. SubSeq(s, 1, Len(s)) = s
  OBVIOUS
<1> QED BY <1>3, <1>4

\* h is the history of a loop of l rounds over S: h[n] after the nth.
History(h, S, base, G, l) ==
  /\ h \in [0 .. l -> S] /\ h[0] = base
  /\ \A n \in 1 .. l : h[n] = G[<<h[n - 1], n>>]

LEMMA SomeHistory ==
  ASSUME NEW S, NEW base \in S, NEW l \in Nat, NEW G \in [S \X (1 .. l) -> S]
  PROVE  \E h : History(h, S, base, G, l)
<1> DEFINE T == {m \in 0 .. l : \E h : History(h, S, base, G, m)}
<1>1. 0 \in T
  <2> DEFINE h == [n \in 0 .. 0 |-> base]
  <2>1. History(h, S, base, G, 0)
    BY DEF History
  <2> HIDE DEF h
  <2> QED BY <2>1
<1>2. ASSUME NEW m \in 1 .. l, m - 1 \in T PROVE m \in T
  <2>1. PICK a : History(a, S, base, G, m - 1)
    BY <1>2
  <2> DEFINE b == [n \in 0 .. m |-> IF n = m THEN G[<<a[m - 1], m>>] ELSE a[n]]
  <2>2. a[m - 1] \in S /\ \A n \in 0 .. m - 1 : a[n] \in S
    BY <2>1 DEF History
  <2>8. \A n \in 1 .. m - 1 : a[n] = G[<<a[n - 1], n>>]
    BY <2>1 DEF History
  <2>3. G[<<a[m - 1], m>>] \in S
    BY <2>2
  <2>4. b \in [0 .. m -> S]
    BY <2>2, <2>3
  <2>5. b[0] = base /\ b[m] = G[<<b[m - 1], m>>]
    <3>1. b[0] = a[0] /\ b[m] = G[<<a[m - 1], m>>] /\ b[m - 1] = a[m - 1]
      OBVIOUS
    <3>2. a[0] = base
      BY <2>1 DEF History
    <3> HIDE DEF b
    <3> QED BY <3>1, <3>2
  <2>6. ASSUME NEW n \in 1 .. m - 1 PROVE b[n] = G[<<b[n - 1], n>>]
    <3>1. b[n] = a[n] /\ b[n - 1] = a[n - 1]
      OBVIOUS
    <3> HIDE DEF b
    <3> QED BY <2>8, <3>1
  <2> HIDE DEF b
  <2>7. History(b, S, base, G, m)
    <3>1. \A n \in 1 .. m : n = m \/ n \in 1 .. m - 1
      OBVIOUS
    <3> QED BY <2>4, <2>5, <2>6, <3>1 DEF History
  <2> QED BY <2>7
<1>3. l \in T
  <2> HIDE DEF T
  <2> QED BY <1>1, <1>2, Climb
<1> QED BY <1>3

\* There is no other, even of a function that has only been computed.
LEMMA OneHistory ==
  ASSUME NEW S, NEW base, NEW G, NEW l \in Nat,
         NEW h, History(h, S, base, G, l), NEW k, k[0] = base,
         \A n \in 1 .. l : k[n - 1] \in S => k[n] = G[<<k[n - 1], n>>]
  PROVE  \A n \in 0 .. l : k[n] = h[n]
<1> DEFINE T == {n \in 0 .. l : k[n] = h[n]}
<1>1. 0 \in T
  BY DEF History
<1>2. ASSUME NEW n \in 1 .. l, n - 1 \in T PROVE n \in T
  <2>1. k[n - 1] = h[n - 1] /\ h[n - 1] \in S
    BY <1>2 DEF History
  <2>2. k[n] = G[<<k[n - 1], n>>] /\ h[n] = G[<<h[n - 1], n>>]
    BY <2>1 DEF History
  <2> QED BY <2>1, <2>2
<1> HIDE DEF T
<1>3. \A n \in 0 .. l : n \in T
  BY <1>1, <1>2, Climb
<1> QED BY <1>3 DEF T

\* A loop over the elements of a sequence: what it makes of the sequence is a
\* function of what it makes of all but the last element, and of that one.
Folds(F, S, C, base, G) ==
  /\ F \in [Seq(C) -> S] /\ F[<<>>] = base
  /\ \A s \in Seq(C), c \in C : F[Append(s, c)] = G[<<F[s], c>>]

Over(G, S, s) == [x \in S \X (1 .. Len(s)) |-> G[<<x[1], s[x[2]]>>]]

LEMMA Overs ==
  ASSUME NEW S, NEW C, NEW G \in [S \X C -> S], NEW s \in Seq(C)
  PROVE  Over(G, S, s) \in [S \X (1 .. Len(s)) -> S]
<1>1. ASSUME NEW x \in S \X (1 .. Len(s)) PROVE G[<<x[1], s[x[2]]>>] \in S
  <2>1. x[1] \in S /\ s[x[2]] \in C
    OBVIOUS
  <2> QED BY <2>1
<1> QED BY <1>1 DEF Over

Ends(F, S, C, base, G) ==
  \A s \in Seq(C) : \E h : History(h, S, base, Over(G, S, s), Len(s)) /\ F[s] = h[Len(s)]

LEMMA SomeFold ==
  ASSUME NEW S, NEW C, NEW base \in S, NEW G \in [S \X C -> S]
  PROVE  \E F : Folds(F, S, C, base, G) /\ Ends(F, S, C, base, G)
<1> DEFINE Hist(s) == CHOOSE h : History(h, S, base, Over(G, S, s), Len(s))
           F == [s \in Seq(C) |-> Hist(s)[Len(s)]]
<1>1. ASSUME NEW s \in Seq(C) PROVE History(Hist(s), S, base, Over(G, S, s), Len(s))
  <2>1. \E h : History(h, S, base, Over(G, S, s), Len(s))
    <3>1. Over(G, S, s) \in [S \X (1 .. Len(s)) -> S]
      BY Overs, Zenon
    <3>2. Len(s) \in Nat
      OBVIOUS
    <3> QED BY <3>1, <3>2, SomeHistory, Zenon
  <2> QED BY <2>1
<1> HIDE DEF Hist
<1>2. ASSUME NEW s \in Seq(C)
      PROVE  /\ Hist(s) \in [0 .. Len(s) -> S] /\ Hist(s)[0] = base
             /\ \A n \in 1 .. Len(s) : Hist(s)[n] = G[<<Hist(s)[n - 1], s[n]>>]
  <2> DEFINE h == Hist(s)
             O == Over(G, S, s)
  <2>1. History(h, S, base, O, Len(s))
    BY <1>1
  <2>2. \A x \in S, n \in 1 .. Len(s) : O[<<x, n>>] = G[<<x, s[n]>>]
    BY DEF Over
  <2> HIDE DEF h, O
  <2>3. ASSUME NEW n \in 1 .. Len(s) PROVE h[n] = G[<<h[n - 1], s[n]>>]
    <3>1. h[n - 1] \in S /\ h[n] = O[<<h[n - 1], n>>]
      BY <2>1 DEF History
    <3> QED BY <2>2, <3>1
  <2> QED BY <2>1, <2>3 DEF History, h
<1>3. F \in [Seq(C) -> S]
  <2>1. ASSUME NEW s \in Seq(C) PROVE Hist(s)[Len(s)] \in S
    <3>1. Len(s) \in 0 .. Len(s)
      OBVIOUS
    <3> QED BY <1>2, <3>1
  <2> QED BY <2>1
<1>4. F[<<>>] = base
  <2>1. <<>> \in Seq(C) /\ Len(<<>>) = 0
    OBVIOUS
  <2>2. F[<<>>] = Hist(<<>>)[Len(<<>>)] /\ Hist(<<>>)[0] = base
    BY <1>2, <2>1, Zenon
  <2> QED BY <2>1, <2>2
<1>5. ASSUME NEW s \in Seq(C), NEW c \in C PROVE F[Append(s, c)] = G[<<F[s], c>>]
  <2> DEFINE t == Append(s, c)
             k == Hist(t)
             h == Hist(s)
  <2>1. t \in Seq(C) /\ Len(t) = Len(s) + 1 /\ t[Len(t)] = c
    OBVIOUS
  <2>2. \A n \in 1 .. Len(s) : t[n] = s[n]
    OBVIOUS
  <2>3. k[0] = base /\ \A n \in 1 .. Len(t) : k[n] = G[<<k[n - 1], t[n]>>]
    <3> HIDE DEF t
    <3> QED BY <1>2, <2>1
  <2>4. h \in [0 .. Len(s) -> S] /\ h[0] = base
        /\ \A n \in 1 .. Len(s) : h[n] = G[<<h[n - 1], s[n]>>]
    BY <1>2
  <2>5. Len(t) \in 1 .. Len(t) /\ Len(t) - 1 = Len(s) /\ Len(s) \in Nat
    BY <2>1
  <2>6. F[s] = h[Len(s)] /\ F[t] = k[Len(t)]
    BY <2>1
  <2> HIDE DEF F, t, k, h
  <2> DEFINE T == {n \in 0 .. Len(s) : k[n] = h[n]}
  <2>7. 0 \in T
    BY <2>3, <2>4
  <2>8. ASSUME NEW n \in 1 .. Len(s), n - 1 \in T PROVE n \in T
    <3>1. k[n - 1] = h[n - 1] /\ n \in 1 .. Len(t)
      BY <2>1, <2>8
    <3>2. k[n] = G[<<k[n - 1], t[n]>>] /\ h[n] = G[<<h[n - 1], s[n]>>] /\ t[n] = s[n]
      BY <2>2, <2>3, <2>4, <3>1
    <3> QED BY <3>1, <3>2
  <2>9. Len(s) \in T
    <3> HIDE DEF T
    <3>1. Len(s) \in 0 .. Len(s)
      BY <2>5
    <3> QED BY <2>5, <2>7, <2>8, <3>1, Climb
  <2>10. k[Len(t)] = G[<<k[Len(s)], c>>]
    BY <2>1, <2>3, <2>5
  <2> QED BY <2>6, <2>9, <2>10 DEF t
<1>6. ASSUME NEW s \in Seq(C)
      PROVE  \E h : History(h, S, base, Over(G, S, s), Len(s)) /\ F[s] = h[Len(s)]
  BY <1>1
<1> QED BY <1>3, <1>4, <1>5, <1>6 DEF Folds, Ends

\* A function of the number of rounds that is computed by that loop, ends where
\* the loop ends.
Computed(k, S, base, G, s) ==
  /\ k[0] = base
  /\ \A n \in 1 .. Len(s) : k[n - 1] \in S => k[n] = G[<<k[n - 1], s[n]>>]

Loop(F, S, C, base, G) ==
  /\ Folds(F, S, C, base, G)
  /\ \A s \in Seq(C) : /\ \E k \in [0 .. Len(s) -> S] : Computed(k, S, base, G, s)
                       /\ \A k : Computed(k, S, base, G, s) => k[Len(s)] = F[s]

LEMMA SomeLoop ==
  ASSUME NEW S, NEW C, NEW base \in S, NEW G \in [S \X C -> S]
  PROVE  \E F : Loop(F, S, C, base, G)
<1>1. PICK F : Folds(F, S, C, base, G) /\ Ends(F, S, C, base, G)
  BY SomeFold, Zenon
<1>2. ASSUME NEW s \in Seq(C)
      PROVE  /\ \E k \in [0 .. Len(s) -> S] : Computed(k, S, base, G, s)
             /\ \A k : Computed(k, S, base, G, s) => k[Len(s)] = F[s]
  <2> DEFINE O == Over(G, S, s)
  <2>1. PICK h : History(h, S, base, O, Len(s)) /\ F[s] = h[Len(s)]
    BY <1>1 DEF Ends
  <2>2. \A x \in S, n \in 1 .. Len(s) : O[<<x, n>>] = G[<<x, s[n]>>]
    BY DEF Over
  <2> HIDE DEF O
  <2>3. h \in [0 .. Len(s) -> S] /\ Computed(h, S, base, G, s)
    BY <2>1, <2>2 DEF History, Computed
  <2>4. ASSUME NEW k, Computed(k, S, base, G, s) PROVE k[Len(s)] = F[s]
    <3>1. \A n \in 1 .. Len(s) : k[n - 1] \in S => k[n] = O[<<k[n - 1], n>>]
      BY <2>2, <2>4 DEF Computed
    <3>2. k[0] = base /\ Len(s) \in Nat /\ Len(s) \in 0 .. Len(s)
      BY <2>4 DEF Computed
    <3>3. \A n \in 0 .. Len(s) : k[n] = h[n]
      BY <2>1, <3>1, <3>2, OneHistory
    <3> QED BY <2>1, <3>2, <3>3
  <2> QED BY <2>3, <2>4
<1> QED BY <1>1, <1>2, Zenon DEF Loop

-----------------------------------------------------------------------------
(* split_string. *)

Pieces(C) == Seq(Seq(C)) \ {<<>>}

LEMMA SplitAtIs ==
  ASSUME NEW C, NEW pieces \in Pieces(C), NEW c \in C, NEW sep
  PROVE  SplitAt(pieces, c, sep) \in Pieces(C)
<1>1. <<>> \in Seq(C)
  OBVIOUS
<1>2. Append(pieces, <<>>) \in Pieces(C)
  BY <1>1 DEF Pieces
<1>3. Len(pieces) \in 1 .. Len(pieces) /\ pieces[Len(pieces)] \in Seq(C)
  BY DEF Pieces
<1>4. Append(pieces[Len(pieces)], c) \in Seq(C)
  BY <1>3
<1>5. [pieces EXCEPT ![Len(pieces)] = Append(@, c)] \in Pieces(C)
  BY <1>3, <1>4 DEF Pieces
<1> QED BY <1>2, <1>5 DEF SplitAt

LEMMA SplitStringIs ==
  ASSUME NEW C, NEW sep
  PROVE  /\ SplitString(<<>>, sep) = << <<>> >>
         /\ \A s \in Seq(C) : SplitString(s, sep) \in Pieces(C)
         /\ \A s \in Seq(C), c \in C :
              SplitString(Append(s, c), sep) = SplitAt(SplitString(s, sep), c, sep)
<1> DEFINE S == Pieces(C)
           G == [x \in S \X C |-> SplitAt(x[1], x[2], sep)]
           base == << <<>> >>
           After(k, s) == [n \in 0 .. Len(s) |->
                             IF n = 0 THEN base ELSE SplitAt(k[n - 1], s[n], sep)]
           Hist(s) == CHOOSE k : k = After(k, s)
<1>1. base \in S
  BY  DEF Pieces
<1>2. G \in [S \X C -> S]
  BY SplitAtIs
<1>3. \A x \in S, c \in C : G[<<x, c>>] = SplitAt(x, c, sep)
  OBVIOUS
<1>4. \A s \in Seq(C) : SplitString(s, sep) = Hist(s)[Len(s)]
  BY DEF SplitString
<1> HIDE DEF G, S, base
<1>5. PICK F : Loop(F, S, C, base, G)
  BY <1>1, <1>2, SomeLoop
<1>6. ASSUME NEW s \in Seq(C) PROVE SplitString(s, sep) = F[s]
  <2>1. PICK k \in [0 .. Len(s) -> S] : Computed(k, S, base, G, s)
    BY <1>5 DEF Loop
  <2>2. k = After(k, s)
    <3>1. ASSUME NEW n \in 0 .. Len(s) PROVE k[n] = After(k, s)[n]
      <4>1. CASE n = 0
        BY <2>1, <4>1 DEF Computed
      <4>2. CASE n # 0
        <5>1. n \in 1 .. Len(s) /\ n - 1 \in 0 .. Len(s) /\ s[n] \in C
          BY <4>2
        <5>2. k[n] = SplitAt(k[n - 1], s[n], sep)
          BY <1>3, <2>1, <5>1 DEF Computed
        <5> QED BY <4>2, <5>2
      <4> QED BY <4>1, <4>2
    <3> QED BY <3>1
  <2>3. Hist(s) = After(Hist(s), s)
    <3> HIDE DEF After
    <3> QED BY <2>2
  <2> DEFINE h == Hist(s)
  <2>4. h[0] = base /\ \A n \in 1 .. Len(s) : h[n] = SplitAt(h[n - 1], s[n], sep)
    <3> HIDE DEF Hist
    <3>1. \A n \in 0 .. Len(s) : h[n] = IF n = 0 THEN base ELSE SplitAt(h[n - 1], s[n], sep)
      BY <2>3
    <3>2. Len(s) \in Nat
      OBVIOUS
    <3> HIDE DEF h, After
    <3> QED BY <3>1, <3>2
  <2> HIDE DEF h
  <2>5. Computed(h, S, base, G, s)
    <3>1. \A n \in 1 .. Len(s) : s[n] \in C
      OBVIOUS
    <3> QED BY <1>3, <2>4, <3>1 DEF Computed
  <2>6. h[Len(s)] = F[s]
    BY <1>5, <2>5 DEF Loop
  <2> QED BY <1>4, <2>6 DEF h
<1> HIDE DEF Hist
<1>7. Folds(F, S, C, base, G)
  BY <1>5 DEF Loop
<1>8. \A s \in Seq(C) : F[s] \in S
  BY <1>7 DEF Folds
<1>9. ASSUME NEW s \in Seq(C), NEW c \in C
      PROVE  SplitString(Append(s, c), sep) = SplitAt(SplitString(s, sep), c, sep)
  <2>1. Append(s, c) \in Seq(C)
    OBVIOUS
  <2>2. F[Append(s, c)] = G[<<F[s], c>>]
    BY <1>7 DEF Folds
  <2> QED BY <1>3, <1>6, <1>8, <2>1, <2>2
<1>10. SplitString(<<>>, sep) = << <<>> >>
  <2>1. <<>> \in Seq(C) /\ F[<<>>] = base
    BY <1>7 DEF Folds
  <2> QED BY <1>6, <2>1 DEF base
<1> QED BY <1>6, <1>8, <1>9, <1>10 DEF S

\* What Scan holds.
Scans == [number : 0 .. Width, negative : BOOLEAN, begun : BOOLEAN, open : BOOLEAN]

LEMMA ScanAtIs ==
  ASSUME NEW a \in Scans, NEW c \in Nat
  PROVE  ScanAt(a, c) \in Scans
<1>1. IsDigit(c) => ScanDigit(a.number, c) \in 0 .. Width
  <2>1. SUFFICES ASSUME IsDigit(c) PROVE ScanDigit(a.number, c) \in 0 .. Width
    OBVIOUS
  <2>2. a.number \in Nat /\ c \in 48 .. 57
    BY <2>1, TextAssumption DEF Scans, IsDigit
  <2>3. a.number * 10 + c - 48 \in Nat
    BY <2>2
  <2> QED BY <2>3, TextAssumption DEF ScanDigit
<1>2. (c = Minus) \in BOOLEAN
  OBVIOUS
<1>3. \A n \in 0 .. Width : [a EXCEPT !.number = n, !.begun = TRUE] \in Scans
  BY DEF Scans
<1>4. \A m \in BOOLEAN : [a EXCEPT !.negative = m, !.begun = TRUE] \in Scans
  BY DEF Scans
<1>5. [a EXCEPT !.open = FALSE] \in Scans
  BY DEF Scans
<1> QED BY <1>1, <1>2, <1>3, <1>4, <1>5 DEF ScanAt

LEMMA ScanIs ==
         /\ Scan(<<>>) = Unread
         /\ \A s \in Seq(Nat) : Scan(s) \in Scans
         /\ \A s \in Seq(Nat), c \in Nat :
              Scan(Append(s, c)) = ScanAt(Scan(s), c)
<1> DEFINE S == Scans
           G == [x \in S \X Nat |-> ScanAt(x[1], x[2])]
           base == Unread
           After(k, s) == [n \in 0 .. Len(s) |->
                             IF n = 0 THEN base ELSE ScanAt(k[n - 1], s[n])]
           Hist(s) == CHOOSE k : k = After(k, s)
<1>1. base \in S
  BY TextAssumption DEF Unread, Scans
<1>2. G \in [S \X Nat -> S]
  BY ScanAtIs
<1>3. \A x \in S, c \in Nat : G[<<x, c>>] = ScanAt(x, c)
  OBVIOUS
<1>4. \A s \in Seq(Nat) : Scan(s) = Hist(s)[Len(s)]
  BY DEF Scan
<1> HIDE DEF G, S, base
<1>5. PICK F : Loop(F, S, Nat, base, G)
  BY <1>1, <1>2, SomeLoop
<1>6. ASSUME NEW s \in Seq(Nat) PROVE Scan(s) = F[s]
  <2>1. PICK k \in [0 .. Len(s) -> S] : Computed(k, S, base, G, s)
    BY <1>5 DEF Loop
  <2>2. k = After(k, s)
    <3>1. ASSUME NEW n \in 0 .. Len(s) PROVE k[n] = After(k, s)[n]
      <4>1. CASE n = 0
        BY <2>1, <4>1 DEF Computed
      <4>2. CASE n # 0
        <5>1. n \in 1 .. Len(s) /\ n - 1 \in 0 .. Len(s) /\ s[n] \in Nat
          BY <4>2
        <5>2. k[n] = ScanAt(k[n - 1], s[n])
          BY <1>3, <2>1, <5>1 DEF Computed
        <5> QED BY <4>2, <5>2
      <4> QED BY <4>1, <4>2
    <3> QED BY <3>1
  <2>3. Hist(s) = After(Hist(s), s)
    <3> HIDE DEF After
    <3> QED BY <2>2
  <2> DEFINE h == Hist(s)
  <2>4. h[0] = base /\ \A n \in 1 .. Len(s) : h[n] = ScanAt(h[n - 1], s[n])
    <3> HIDE DEF Hist
    <3>1. \A n \in 0 .. Len(s) : h[n] = IF n = 0 THEN base ELSE ScanAt(h[n - 1], s[n])
      BY <2>3
    <3>2. Len(s) \in Nat
      OBVIOUS
    <3> HIDE DEF h, After
    <3> QED BY <3>1, <3>2
  <2> HIDE DEF h
  <2>5. Computed(h, S, base, G, s)
    <3>1. \A n \in 1 .. Len(s) : s[n] \in Nat
      OBVIOUS
    <3> QED BY <1>3, <2>4, <3>1 DEF Computed
  <2>6. h[Len(s)] = F[s]
    BY <1>5, <2>5 DEF Loop
  <2> QED BY <1>4, <2>6 DEF h
<1> HIDE DEF Hist
<1>7. Folds(F, S, Nat, base, G)
  BY <1>5 DEF Loop
<1>8. \A s \in Seq(Nat) : F[s] \in S
  BY <1>7 DEF Folds
<1>9. ASSUME NEW s \in Seq(Nat), NEW c \in Nat
      PROVE  Scan(Append(s, c)) = ScanAt(Scan(s), c)
  <2>1. Append(s, c) \in Seq(Nat)
    OBVIOUS
  <2>2. F[Append(s, c)] = G[<<F[s], c>>]
    BY <1>7 DEF Folds
  <2> QED BY <1>3, <1>6, <1>8, <2>1, <2>2
<1>10. Scan(<<>>) = Unread
  <2>1. <<>> \in Seq(Nat) /\ F[<<>>] = base
    BY <1>7 DEF Folds
  <2> QED BY <1>6, <2>1 DEF base
<1> QED BY <1>6, <1>8, <1>9, <1>10 DEF S

\* White space at the end of a text changes no number of it.
LEMMA StrtoullIs ==
  /\ \A s \in Seq(Nat) : Strtoull(s) \in Nat
  /\ \A s \in Seq(Nat), c \in Nat : IsSpace(c) => Strtoull(Append(s, c)) = Strtoull(s)
<1>1. ASSUME NEW s \in Seq(Nat) PROVE Strtoull(s) \in Nat
  <2> DEFINE a == Scan(s)
  <2>1. a.number \in 0 .. Width
    BY ScanIs DEF Scans
  <2>2. Strtoull(s) = IF a.number = Width THEN Width - 1
                      ELSE IF a.negative THEN (Width - a.number) % Width ELSE a.number
    BY DEF Strtoull
  <2> HIDE DEF a
  <2>3. Width - a.number \in Nat /\ Width \in Nat \ {0} /\ a.number \in Nat
    BY <2>1, TextAssumption
  <2>4. (Width - a.number) % Width \in Nat
    BY <2>3
  <2> QED BY <2>2, <2>3, <2>4
<1>2. ASSUME NEW s \in Seq(Nat), NEW c \in Nat, IsSpace(c)
      PROVE  Strtoull(Append(s, c)) = Strtoull(s)
  <2>1. Scan(Append(s, c)) = ScanAt(Scan(s), c) /\ Scan(s) \in Scans
    BY ScanIs
  <2>2. ~ IsDigit(c) /\ c # Plus /\ c # Minus
    BY <1>2 DEF IsSpace, IsDigit, Plus, Minus
  <2>3. ScanAt(Scan(s), c) \in {Scan(s), [Scan(s) EXCEPT !.open = FALSE]}
    BY <2>2 DEF ScanAt
  <2>4. /\ Scan(Append(s, c)).number = Scan(s).number
        /\ Scan(Append(s, c)).negative = Scan(s).negative
    BY <2>1, <2>3 DEF Scans
  <2> QED BY <2>4 DEF Strtoull
<1> QED BY <1>1, <1>2

-----------------------------------------------------------------------------
(* Digits and the numbers they are. *)

LEMMA DigitAtIs ==
  ASSUME NEW digits \in Seq(Nat), NEW c \in Nat
  PROVE  DigitAt(digits, c) \in Seq(Nat)
BY DEF DigitAt

\* Digits.
LEMMA DigitsAre ==
         /\ Digits(<<>>) = <<>>
         /\ \A s \in Seq(Nat) : Digits(s) \in Seq(Nat)
         /\ \A s \in Seq(Nat), c \in Nat :
              Digits(Append(s, c)) = DigitAt(Digits(s), c)
<1> DEFINE S == Seq(Nat)
           G == [x \in S \X Nat |-> DigitAt(x[1], x[2])]
           base == <<>>
           After(k, s) == [n \in 0 .. Len(s) |->
                             IF n = 0 THEN base ELSE DigitAt(k[n - 1], s[n])]
           Hist(s) == CHOOSE k : k = After(k, s)
<1>1. base \in S
  OBVIOUS
<1>2. G \in [S \X Nat -> S]
  BY DigitAtIs
<1>3. \A x \in S, c \in Nat : G[<<x, c>>] = DigitAt(x, c)
  OBVIOUS
<1>4. \A s \in Seq(Nat) : Digits(s) = Hist(s)[Len(s)]
  BY DEF Digits
<1> HIDE DEF G, S, base
<1>5. PICK F : Loop(F, S, Nat, base, G)
  BY <1>1, <1>2, SomeLoop
<1>6. ASSUME NEW s \in Seq(Nat) PROVE Digits(s) = F[s]
  <2>1. PICK k \in [0 .. Len(s) -> S] : Computed(k, S, base, G, s)
    BY <1>5 DEF Loop
  <2>2. k = After(k, s)
    <3>1. ASSUME NEW n \in 0 .. Len(s) PROVE k[n] = After(k, s)[n]
      <4>1. CASE n = 0
        BY <2>1, <4>1 DEF Computed
      <4>2. CASE n # 0
        <5>1. n \in 1 .. Len(s) /\ n - 1 \in 0 .. Len(s) /\ s[n] \in Nat
          BY <4>2
        <5>2. k[n] = DigitAt(k[n - 1], s[n])
          BY <1>3, <2>1, <5>1 DEF Computed
        <5> QED BY <4>2, <5>2
      <4> QED BY <4>1, <4>2
    <3> QED BY <3>1
  <2>3. Hist(s) = After(Hist(s), s)
    <3> HIDE DEF After
    <3> QED BY <2>2
  <2> DEFINE h == Hist(s)
  <2>4. h[0] = base /\ \A n \in 1 .. Len(s) : h[n] = DigitAt(h[n - 1], s[n])
    <3> HIDE DEF Hist
    <3>1. \A n \in 0 .. Len(s) : h[n] = IF n = 0 THEN base ELSE DigitAt(h[n - 1], s[n])
      BY <2>3
    <3>2. Len(s) \in Nat
      OBVIOUS
    <3> HIDE DEF h, After
    <3> QED BY <3>1, <3>2
  <2> HIDE DEF h
  <2>5. Computed(h, S, base, G, s)
    <3>1. \A n \in 1 .. Len(s) : s[n] \in Nat
      OBVIOUS
    <3> QED BY <1>3, <2>4, <3>1 DEF Computed
  <2>6. h[Len(s)] = F[s]
    BY <1>5, <2>5 DEF Loop
  <2> QED BY <1>4, <2>6 DEF h
<1> HIDE DEF Hist
<1>7. Folds(F, S, Nat, base, G)
  BY <1>5 DEF Loop
<1>8. \A s \in Seq(Nat) : F[s] \in S
  BY <1>7 DEF Folds
<1>9. ASSUME NEW s \in Seq(Nat), NEW c \in Nat
      PROVE  Digits(Append(s, c)) = DigitAt(Digits(s), c)
  <2>1. Append(s, c) \in Seq(Nat)
    OBVIOUS
  <2>2. F[Append(s, c)] = G[<<F[s], c>>]
    BY <1>7 DEF Folds
  <2> QED BY <1>3, <1>6, <1>8, <2>1, <2>2
<1>10. Digits(<<>>) = <<>>
  <2>1. <<>> \in Seq(Nat) /\ F[<<>>] = base
    BY <1>7 DEF Folds
  <2> QED BY <1>6, <2>1 DEF base
<1> QED BY <1>6, <1>8, <1>9, <1>10 DEF S

\* What Shift makes of a number.  It is only used with digits, but it is a
\* number for any character, as long as the modulus is positive.
LEMMA ShiftIs ==
  ASSUME NEW number \in Nat, NEW c \in Nat
  PROVE  Shift(number, c) \in Nat
BY TextAssumption DEF Shift

LEMMA WrappedIs ==
         /\ Wrapped(<<>>) = 0
         /\ \A s \in Seq(Nat) : Wrapped(s) \in Nat
         /\ \A s \in Seq(Nat), c \in Nat :
              Wrapped(Append(s, c)) = Shift(Wrapped(s), c)
<1> DEFINE S == Nat
           G == [x \in S \X Nat |-> Shift(x[1], x[2])]
           base == 0
           After(k, s) == [n \in 0 .. Len(s) |->
                             IF n = 0 THEN base ELSE Shift(k[n - 1], s[n])]
           Hist(s) == CHOOSE k : k = After(k, s)
<1>1. base \in S
  OBVIOUS
<1>2. G \in [S \X Nat -> S]
  BY ShiftIs
<1>3. \A x \in S, c \in Nat : G[<<x, c>>] = Shift(x, c)
  OBVIOUS
<1>4. \A s \in Seq(Nat) : Wrapped(s) = Hist(s)[Len(s)]
  BY DEF Wrapped
<1> HIDE DEF G, S, base
<1>5. PICK F : Loop(F, S, Nat, base, G)
  BY <1>1, <1>2, SomeLoop
<1>6. ASSUME NEW s \in Seq(Nat) PROVE Wrapped(s) = F[s]
  <2>1. PICK k \in [0 .. Len(s) -> S] : Computed(k, S, base, G, s)
    BY <1>5 DEF Loop
  <2>2. k = After(k, s)
    <3>1. ASSUME NEW n \in 0 .. Len(s) PROVE k[n] = After(k, s)[n]
      <4>1. CASE n = 0
        BY <2>1, <4>1 DEF Computed
      <4>2. CASE n # 0
        <5>1. n \in 1 .. Len(s) /\ n - 1 \in 0 .. Len(s) /\ s[n] \in Nat
          BY <4>2
        <5>2. k[n] = Shift(k[n - 1], s[n])
          BY <1>3, <2>1, <5>1 DEF Computed
        <5> QED BY <4>2, <5>2
      <4> QED BY <4>1, <4>2
    <3> QED BY <3>1
  <2>3. Hist(s) = After(Hist(s), s)
    <3> HIDE DEF After
    <3> QED BY <2>2
  <2> DEFINE h == Hist(s)
  <2>4. h[0] = base /\ \A n \in 1 .. Len(s) : h[n] = Shift(h[n - 1], s[n])
    <3> HIDE DEF Hist
    <3>1. \A n \in 0 .. Len(s) : h[n] = IF n = 0 THEN base ELSE Shift(h[n - 1], s[n])
      BY <2>3
    <3>2. Len(s) \in Nat
      OBVIOUS
    <3> HIDE DEF h, After
    <3> QED BY <3>1, <3>2
  <2> HIDE DEF h
  <2>5. Computed(h, S, base, G, s)
    <3>1. \A n \in 1 .. Len(s) : s[n] \in Nat
      OBVIOUS
    <3> QED BY <1>3, <2>4, <3>1 DEF Computed
  <2>6. h[Len(s)] = F[s]
    BY <1>5, <2>5 DEF Loop
  <2> QED BY <1>4, <2>6 DEF h
<1> HIDE DEF Hist
<1>7. Folds(F, S, Nat, base, G)
  BY <1>5 DEF Loop
<1>8. \A s \in Seq(Nat) : F[s] \in S
  BY <1>7 DEF Folds
<1>9. ASSUME NEW s \in Seq(Nat), NEW c \in Nat
      PROVE  Wrapped(Append(s, c)) = Shift(Wrapped(s), c)
  <2>1. Append(s, c) \in Seq(Nat)
    OBVIOUS
  <2>2. F[Append(s, c)] = G[<<F[s], c>>]
    BY <1>7 DEF Folds
  <2> QED BY <1>3, <1>6, <1>8, <2>1, <2>2
<1>10. Wrapped(<<>>) = 0
  <2>1. <<>> \in Seq(Nat) /\ F[<<>>] = base
    BY <1>7 DEF Folds
  <2> QED BY <1>6, <2>1 DEF base
<1> QED BY <1>6, <1>8, <1>9, <1>10 DEF S

LEMMA DecimalIs ==
         /\ Decimal(<<>>) = 0
         /\ \A s \in Seq(Nat) : Decimal(s) \in Int
         /\ \A s \in Seq(Nat), c \in Nat :
              Decimal(Append(s, c)) = Decimal(s) * 10 + c - 48
<1> DEFINE S == Int
           G == [x \in S \X Nat |-> x[1] * 10 + x[2] - 48]
           base == 0
           After(k, s) == [n \in 0 .. Len(s) |->
                             IF n = 0 THEN base ELSE k[n - 1] * 10 + s[n] - 48]
           Hist(s) == CHOOSE k : k = After(k, s)
<1>1. base \in S
  OBVIOUS
<1>2. G \in [S \X Nat -> S]
  OBVIOUS
<1>3. \A x \in S, c \in Nat : G[<<x, c>>] = x * 10 + c - 48
  OBVIOUS
<1>4. \A s \in Seq(Nat) : Decimal(s) = Hist(s)[Len(s)]
  BY DEF Decimal
<1> HIDE DEF G, S, base
<1>5. PICK F : Loop(F, S, Nat, base, G)
  BY <1>1, <1>2, SomeLoop
<1>6. ASSUME NEW s \in Seq(Nat) PROVE Decimal(s) = F[s]
  <2>1. PICK k \in [0 .. Len(s) -> S] : Computed(k, S, base, G, s)
    BY <1>5 DEF Loop
  <2>2. k = After(k, s)
    <3>1. ASSUME NEW n \in 0 .. Len(s) PROVE k[n] = After(k, s)[n]
      <4>1. CASE n = 0
        BY <2>1, <4>1 DEF Computed
      <4>2. CASE n # 0
        <5>1. n \in 1 .. Len(s) /\ n - 1 \in 0 .. Len(s) /\ s[n] \in Nat
          BY <4>2
        <5>2. k[n] = k[n - 1] * 10 + s[n] - 48
          BY <1>3, <2>1, <5>1 DEF Computed
        <5> QED BY <4>2, <5>2
      <4> QED BY <4>1, <4>2
    <3> QED BY <3>1
  <2>3. Hist(s) = After(Hist(s), s)
    <3> HIDE DEF After
    <3> QED BY <2>2
  <2> DEFINE h == Hist(s)
  <2>4. h[0] = base /\ \A n \in 1 .. Len(s) : h[n] = h[n - 1] * 10 + s[n] - 48
    <3> HIDE DEF Hist
    <3>1. \A n \in 0 .. Len(s) : h[n] = IF n = 0 THEN base ELSE h[n - 1] * 10 + s[n] - 48
      BY <2>3
    <3>2. Len(s) \in Nat
      OBVIOUS
    <3> HIDE DEF h, After
    <3> QED BY <3>1, <3>2
  <2> HIDE DEF h
  <2>5. Computed(h, S, base, G, s)
    <3>1. \A n \in 1 .. Len(s) : s[n] \in Nat
      OBVIOUS
    <3> QED BY <1>3, <2>4, <3>1 DEF Computed
  <2>6. h[Len(s)] = F[s]
    BY <1>5, <2>5 DEF Loop
  <2> QED BY <1>4, <2>6 DEF h
<1> HIDE DEF Hist
<1>7. Folds(F, S, Nat, base, G)
  BY <1>5 DEF Loop
<1>8. \A s \in Seq(Nat) : F[s] \in S
  BY <1>7 DEF Folds
<1>9. ASSUME NEW s \in Seq(Nat), NEW c \in Nat
      PROVE  Decimal(Append(s, c)) = Decimal(s) * 10 + c - 48
  <2>1. Append(s, c) \in Seq(Nat)
    OBVIOUS
  <2>2. F[Append(s, c)] = G[<<F[s], c>>]
    BY <1>7 DEF Folds
  <2> QED BY <1>3, <1>6, <1>8, <2>1, <2>2
<1>10. Decimal(<<>>) = 0
  <2>1. <<>> \in Seq(Nat) /\ F[<<>>] = base
    BY <1>7 DEF Folds
  <2> QED BY <1>6, <2>1 DEF base
<1> QED BY <1>6, <1>8, <1>9, <1>10 DEF S

\* A number is scanned to its end, for what it is.
Capped(number) == IF number < Width THEN number ELSE Width
Read(s) == [number |-> Capped(Decimal(Digits(s))), negative |-> s # <<>> /\ s[1] = Minus,
            begun |-> s # <<>>, open |-> TRUE]

LEMMA ScansNumber ==
  ASSUME NEW s \in Seq(Nat), IsNumber(s)
  PROVE  Decimal(Digits(s)) \in Nat /\ Scan(s) = Read(s)
<1> DEFINE T == {t \in Seq(Nat) : IsNumber(t) => Decimal(Digits(t)) \in Nat /\ Scan(t) = Read(t)}
<1>1. <<>> \in T
  <2>1. Decimal(Digits(<<>>)) = 0 /\ Scan(<<>>) = Unread
    BY DigitsAre, DecimalIs, ScanIs
  <2>2. <<>> \in Seq(Nat) /\ Capped(0) = 0
    BY TextAssumption DEF Capped
  <2>3. Read(<<>>) = Unread
    <3>1. (<<>> # <<>> /\ <<>>[1] = Minus) = FALSE /\ (<<>> # <<>>) = FALSE
      OBVIOUS
    <3> QED BY <2>1, <2>2, <3>1, Zenon DEF Read, Unread
  <2> QED BY <2>1, <2>2, <2>3
<1>2. ASSUME NEW t \in Seq(Nat), NEW c \in Nat, t \in T PROVE Append(t, c) \in T
  <2> DEFINE u == Append(t, c)
             d == Decimal(Digits(t))
  <2> SUFFICES ASSUME IsNumber(u) PROVE Decimal(Digits(u)) \in Nat /\ Scan(u) = Read(u)
    OBVIOUS
  <2>1. /\ u \in Seq(Nat) /\ Len(u) = Len(t) + 1 /\ Len(t) \in Nat /\ u # <<>>
        /\ u[Len(t) + 1] = c /\ \A n \in 1 .. Len(t) : u[n] = t[n]
        /\ t = <<>> <=> Len(t) = 0
        /\ DOMAIN u = 1 .. (Len(t) + 1) /\ DOMAIN t = 1 .. Len(t)
    <3>1. u \in Seq(Nat) /\ Len(u) = Len(t) + 1
      OBVIOUS
    <3>2. DOMAIN u = 1 .. Len(u) /\ DOMAIN t = 1 .. Len(t)
      BY <3>1
    <3>3. /\ Len(t) \in Nat /\ u[Len(t) + 1] = c
          /\ \A n \in 1 .. Len(t) : u[n] = t[n]
      OBVIOUS
    <3>5. u # <<>>
      BY <3>1, SMTT(20)
    <3>4. t = <<>> <=> Len(t) = 0
      OBVIOUS
    <3> HIDE DEF u
    <3> QED BY <3>1, <3>2, <3>3, <3>4, <3>5
  <2>2. IsNumber(t)
    <3>1. ASSUME NEW n \in DOMAIN t PROVE n \in DOMAIN u /\ u[n] = t[n]
      BY <2>1
    <3> HIDE DEF u
    <3> QED BY <3>1 DEF IsNumber
  <2>3. d \in Nat /\ Scan(t) = Read(t)
    BY <1>2, <2>2
  <2>4. Scan(u) = ScanAt(Scan(t), c)
    BY ScanIs
  <2>5. Digits(u) = DigitAt(Digits(t), c) /\ Digits(t) \in Seq(Nat)
    BY DigitsAre
  <2>6. IsDigit(c) \/ (t = <<>> /\ c = Minus)
    <3>1. Len(t) + 1 \in DOMAIN u /\ (Len(t) + 1 = 1 => t = <<>>)
      BY <2>1
    <3> HIDE DEF u
    <3>2. IsDigit(u[Len(t) + 1]) \/ (Len(t) + 1 = 1 /\ u[Len(t) + 1] = Minus)
      BY <3>1 DEF IsNumber
    <3> QED BY <2>1, <3>1, <3>2
  <2>7. CASE IsDigit(c)
    <3>1. Decimal(Digits(u)) = d * 10 + c - 48
      BY <2>5, <2>7, DecimalIs DEF DigitAt
    <3>2. c \in 48 .. 57
      BY <2>7 DEF IsDigit
    <3>3. Decimal(Digits(u)) \in Nat
      BY <2>3, <3>1, <3>2
    <3>4. ScanDigit(Capped(d), c) = Capped(d * 10 + c - 48)
      <4>1. d < Width => ScanDigit(Capped(d), c) = Capped(d * 10 + c - 48)
        BY DEF ScanDigit, Capped
      <4>2. ~ (d < Width) => Width * 10 + c - 48 >= Width /\ d * 10 + c - 48 >= Width
        BY <2>3, <3>2, TextAssumption
      <4> HIDE DEF d
      <4> QED BY <2>3, <3>2, <4>1, <4>2, TextAssumption DEF ScanDigit, Capped
    <3>5. (u # <<>> /\ u[1] = Minus) <=> (t # <<>> /\ t[1] = Minus)
      <4>1. c # Minus
        BY <3>2 DEF Minus
      <4>2. t = <<>> => u[1] = c
        BY <2>1
      <4>3. t # <<>> => u[1] = t[1]
        BY <2>1
      <4> QED BY <2>1, <4>1, <4>2, <4>3
    <3>6. Scan(u) = [Read(t) EXCEPT !.number = ScanDigit(@, c), !.begun = TRUE]
      BY <2>3, <2>4, <2>7 DEF ScanAt, Read
    <3> HIDE DEF u, d
    <3>7. Scan(u) = [number |-> ScanDigit(Capped(Decimal(Digits(t))), c),
                     negative |-> t # <<>> /\ t[1] = Minus, begun |-> TRUE, open |-> TRUE]
      BY <3>6 DEF Read
    <3>8. Scan(u) = Read(u)
      BY <2>1, <3>1, <3>4, <3>5, <3>7 DEF Read, d
    <3> QED BY <3>3, <3>8
  <2>8. CASE ~ IsDigit(c)
    <3>1. t = <<>> /\ c = Minus /\ ~ IsSpace(c) /\ u[1] = Minus
      BY <2>1, <2>6, <2>8 DEF IsSpace, Minus
    <3>2. Digits(u) = <<>> /\ Digits(t) = <<>> /\ Decimal(<<>>) = 0
      BY <2>5, <2>8, <3>1, DigitsAre, DecimalIs DEF DigitAt
    <3>3. Scan(t) = Unread
      BY <3>1, ScanIs
    <3>4. Scan(u) = [Unread EXCEPT !.negative = TRUE, !.begun = TRUE]
      <4>1. (c = Minus) = TRUE /\ c \in {Plus, Minus} /\ Unread.open /\ ~ Unread.begun
        BY <3>1 DEF Unread
      <4>2. ScanAt(Unread, c) = [Unread EXCEPT !.negative = (c = Minus), !.begun = TRUE]
        BY <2>8, <3>1, <4>1, Zenon DEF ScanAt
      <4> QED BY <2>4, <3>3, <4>1, <4>2, Zenon
    <3>5. Capped(0) = 0
      BY TextAssumption DEF Capped
    <3> HIDE DEF u
    <3> QED BY <2>1, <3>1, <3>2, <3>4, <3>5 DEF Read, Unread
  <2> QED BY <2>7, <2>8
<1>3. Seq(Nat) \subseteq T
  <2> HIDE DEF T
  <2> QED BY <1>1, <1>2, SeqInduction
<1> QED BY <1>3

LEMMA OfTwo ==
  ASSUME NEW a \in Int, NEW b \in Int
  PROVE  /\ Max({a, b}) = IF a >= b THEN a ELSE b
         /\ Min({a, b}) = IF a <= b THEN a ELSE b
<1> DEFINE S == {a, b}
           most == IF a >= b THEN a ELSE b
           least == IF a <= b THEN a ELSE b
<1>1. most \in S /\ least \in S /\ \A x \in S : x \in Int /\ most >= x /\ least <= x
  OBVIOUS
<1> HIDE DEF S, most, least
<1>2. \A x \in S : (\A y \in S : x >= y) => x = most
  BY <1>1
<1>3. \A x \in S : (\A y \in S : x <= y) => x = least
  BY <1>1
<1>4. Max(S) = most
  BY <1>1, <1>2 DEF Max
<1>5. Min(S) = least
  BY <1>1, <1>3 DEF Min
<1> QED BY <1>4, <1>5 DEF S, most, least

\* atoi gives an int, and a number that an int can hold is read as it is.
LEMMA AtoiIs ==
  ASSUME NEW s \in Seq(Nat)
  PROVE  /\ Atoi(s) \in Int
         /\ IsNumber(s) /\ Decimal(Digits(s)) < IntWidth \div 2 => Atoi(s) = NumberIn(s)
<1> DEFINE a == Scan(s)
           h == IntWidth \div 2
           w == Width \div 2
           long == IF a.negative THEN Max({-a.number, -w}) ELSE Min({a.number, w - 1})
<1>1. Atoi(s) = ((long + h) % IntWidth) - h
  BY DEF Atoi
<1>2. a.number \in Nat /\ a.negative \in BOOLEAN
  BY ScanIs, TextAssumption DEF Scans
<1>3. /\ IntWidth \in Nat \ {0} /\ Width \in Nat /\ IntWidth <= Width
      /\ h \in Nat /\ w \in Nat /\ h <= w /\ 2 * h <= IntWidth
  BY TextAssumption
<1> HIDE DEF a, h, w
<1>4. long \in Int
  <2>1. -a.number \in Int /\ -w \in Int /\ w - 1 \in Int
    BY <1>2, <1>3
  <2>2. Max({-a.number, -w}) \in Int
    BY <2>1, OfTwo
  <2>3. Min({a.number, w - 1}) \in Int
    <3> DEFINE n == a.number
               k == w - 1
    <3>1. n \in Int /\ k \in Int
      BY <1>2, <2>1
    <3> HIDE DEF n, k
    <3>2. Min({n, k}) = IF n <= k THEN n ELSE k
      BY <3>1, OfTwo
    <3>3. Min({n, k}) \in Int
      BY <3>1, <3>2
    <3> QED BY <3>3 DEF n, k
  <2> QED BY <2>2, <2>3
<1>5. Atoi(s) \in Int
  <2> HIDE DEF long
  <2> QED BY <1>1, <1>3, <1>4
<1>6. ASSUME IsNumber(s), Decimal(Digits(s)) < h PROVE Atoi(s) = NumberIn(s)
  <2> DEFINE d == Decimal(Digits(s))
  <2>1. d \in Nat /\ a = Read(s)
    BY <1>6, ScansNumber DEF a
  <2>2. d < h
    BY <1>6
  <2> HIDE DEF d
  <2>3. Capped(d) = d
    BY <1>3, <2>1, <2>2 DEF Capped
  <2>4. a.number = d /\ a.negative = (s # <<>> /\ s[1] = Minus)
    BY <2>1, <2>3 DEF Read, d
  <2>5. long = IF a.negative THEN -d ELSE d
    <3>1. -d \in Int /\ -w \in Int /\ w - 1 \in Int /\ d \in Int
      BY <1>3, <2>1
    <3>2. Max({-d, -w}) = -d
      BY <1>3, <2>1, <2>2, <3>1, OfTwo
    <3>3. Min({d, w - 1}) = d
      <4>1. d <= w - 1
        BY <1>3, <2>1, <2>2
      <4> QED BY <3>1, <4>1, OfTwo
    <3> QED BY <2>4, <3>2, <3>3
  <2>6. long = NumberIn(s)
    BY <2>4, <2>5 DEF NumberIn, d
  <2>7. long + h \in 0 .. IntWidth - 1
    BY <1>2, <1>3, <2>1, <2>2, <2>5
  <2> HIDE DEF long
  <2>8. (long + h) % IntWidth = long + h
    BY <1>3, <1>4, <2>7
  <2> QED BY <1>1, <1>3, <1>4, <2>6, <2>8
<1> QED BY <1>5, <1>6 DEF h

-----------------------------------------------------------------------------
(* split_string_ids: without a limit its ids are the digits of the pieces. *)

SplittingIds(s, sep, limit) ==
  LET a[n \in 0 .. Len(s)] ==
        IF n = 0 THEN [ids |-> <<>>, id |-> 0, done |-> FALSE]
        ELSE IdsAt(a[n - 1], s[n], sep, limit)
  IN  a[Len(s)]

LEMMA IdsAtIs ==
  ASSUME NEW a \in [ids : Seq(Nat), id : Nat, done : BOOLEAN], NEW c \in Nat, NEW sep, NEW limit
  PROVE  IdsAt(a, c, sep, limit) \in [ids : Seq(Nat), id : Nat, done : BOOLEAN]
<1>1. Shift(a.id, c) \in Nat
  BY ShiftIs
<1>2. Append(a.ids, a.id) \in Seq(Nat)
  OBVIOUS
<1> QED BY <1>1, <1>2 DEF IdsAt

LEMMA SplittingIdsIs ==
  ASSUME NEW sep, NEW limit
  PROVE  /\ SplittingIds(<<>>, sep, limit) = [ids |-> <<>>, id |-> 0, done |-> FALSE]
         /\ \A s \in Seq(Nat) : SplittingIds(s, sep, limit) \in [ids : Seq(Nat), id : Nat, done : BOOLEAN]
         /\ \A s \in Seq(Nat), c \in Nat :
              SplittingIds(Append(s, c), sep, limit) = IdsAt(SplittingIds(s, sep, limit), c, sep, limit)
<1> DEFINE S == [ids : Seq(Nat), id : Nat, done : BOOLEAN]
           G == [x \in S \X Nat |-> IdsAt(x[1], x[2], sep, limit)]
           base == [ids |-> <<>>, id |-> 0, done |-> FALSE]
           After(k, s) == [n \in 0 .. Len(s) |->
                             IF n = 0 THEN base ELSE IdsAt(k[n - 1], s[n], sep, limit)]
           Hist(s) == CHOOSE k : k = After(k, s)
<1>1. base \in S
  OBVIOUS
<1>2. G \in [S \X Nat -> S]
  BY IdsAtIs
<1>3. \A x \in S, c \in Nat : G[<<x, c>>] = IdsAt(x, c, sep, limit)
  OBVIOUS
<1>4. \A s \in Seq(Nat) : SplittingIds(s, sep, limit) = Hist(s)[Len(s)]
  BY DEF SplittingIds
<1> HIDE DEF G, S, base
<1>5. PICK F : Loop(F, S, Nat, base, G)
  BY <1>1, <1>2, SomeLoop
<1>6. ASSUME NEW s \in Seq(Nat) PROVE SplittingIds(s, sep, limit) = F[s]
  <2>1. PICK k \in [0 .. Len(s) -> S] : Computed(k, S, base, G, s)
    BY <1>5 DEF Loop
  <2>2. k = After(k, s)
    <3>1. ASSUME NEW n \in 0 .. Len(s) PROVE k[n] = After(k, s)[n]
      <4>1. CASE n = 0
        BY <2>1, <4>1 DEF Computed
      <4>2. CASE n # 0
        <5>1. n \in 1 .. Len(s) /\ n - 1 \in 0 .. Len(s) /\ s[n] \in Nat
          BY <4>2
        <5>2. k[n] = IdsAt(k[n - 1], s[n], sep, limit)
          BY <1>3, <2>1, <5>1 DEF Computed
        <5> QED BY <4>2, <5>2
      <4> QED BY <4>1, <4>2
    <3> QED BY <3>1
  <2>3. Hist(s) = After(Hist(s), s)
    <3> HIDE DEF After
    <3> QED BY <2>2
  <2> DEFINE h == Hist(s)
  <2>4. h[0] = base /\ \A n \in 1 .. Len(s) : h[n] = IdsAt(h[n - 1], s[n], sep, limit)
    <3> HIDE DEF Hist
    <3>1. \A n \in 0 .. Len(s) : h[n] = IF n = 0 THEN base ELSE IdsAt(h[n - 1], s[n], sep, limit)
      BY <2>3
    <3>2. Len(s) \in Nat
      OBVIOUS
    <3> HIDE DEF h, After
    <3> QED BY <3>1, <3>2
  <2> HIDE DEF h
  <2>5. Computed(h, S, base, G, s)
    <3>1. \A n \in 1 .. Len(s) : s[n] \in Nat
      OBVIOUS
    <3> QED BY <1>3, <2>4, <3>1 DEF Computed
  <2>6. h[Len(s)] = F[s]
    BY <1>5, <2>5 DEF Loop
  <2> QED BY <1>4, <2>6 DEF h
<1> HIDE DEF Hist
<1>7. Folds(F, S, Nat, base, G)
  BY <1>5 DEF Loop
<1>8. \A s \in Seq(Nat) : F[s] \in S
  BY <1>7 DEF Folds
<1>9. ASSUME NEW s \in Seq(Nat), NEW c \in Nat
      PROVE  SplittingIds(Append(s, c), sep, limit) = IdsAt(SplittingIds(s, sep, limit), c, sep, limit)
  <2>1. Append(s, c) \in Seq(Nat)
    OBVIOUS
  <2>2. F[Append(s, c)] = G[<<F[s], c>>]
    BY <1>7 DEF Folds
  <2> QED BY <1>3, <1>6, <1>8, <2>1, <2>2
<1>10. SplittingIds(<<>>, sep, limit) = [ids |-> <<>>, id |-> 0, done |-> FALSE]
  <2>1. <<>> \in Seq(Nat) /\ F[<<>>] = base
    BY <1>7 DEF Folds
  <2> QED BY <1>6, <2>1 DEF base
<1> QED BY <1>6, <1>8, <1>9, <1>10 DEF S

-----------------------------------------------------------------------------
(* split_string_vec_pair_ids, and what it makes of one piece. *)

Nows   == [id : Nat, number : Nat, places : Int, score : BOOLEAN]
PairsS == [out : Seq([id : Nat, number : Nat, places : Int]), now : Nows]

LEMMA PairAtIs ==
  ASSUME NEW now \in Nows, NEW c \in Nat, NEW second
  PROVE  PairAt(now, c, second) \in Nows
<1>1. Shift(now.id, c) \in Nat
  BY ShiftIs DEF Nows
<1>2. IsDigit(c) => now.number * 10 + c - 48 \in Nat
  BY DEF IsDigit, Nows
<1>3. [now EXCEPT !.id = Shift(now.id, c)] \in Nows
  BY <1>1 DEF Nows
<1>4. ASSUME NEW number \in Nat, NEW places \in Int
      PROVE  [now EXCEPT !.number = number, !.places = places] \in Nows
  BY DEF Nows
<1>5. IsDigit(c) => [now EXCEPT !.number = now.number * 10 + c - 48,
                                !.places = now.places + 1] \in Nows
  <2>1. now.places + 1 \in Int
    BY DEF Nows
  <2> QED BY <1>2, <1>4, <2>1
<1>6. [now EXCEPT !.places = 0] \in Nows
  BY DEF Nows
<1>7. [now EXCEPT !.score = TRUE] \in Nows
  BY DEF Nows
<1> QED BY <1>3, <1>5, <1>6, <1>7 DEF PairAt

NowOf(p, second) ==
  LET now[n \in 0 .. Len(p)] ==
        IF n = 0 THEN FreshPair ELSE PairAt(now[n - 1], p[n], second)
  IN  now[Len(p)]

LEMMA NowOfIs ==
  ASSUME NEW second
  PROVE  /\ NowOf(<<>>, second) = FreshPair
         /\ \A s \in Seq(Nat) : NowOf(s, second) \in Nows
         /\ \A s \in Seq(Nat), c \in Nat :
              NowOf(Append(s, c), second) = PairAt(NowOf(s, second), c, second)
<1> DEFINE S == Nows
           G == [x \in S \X Nat |-> PairAt(x[1], x[2], second)]
           base == FreshPair
           After(k, s) == [n \in 0 .. Len(s) |->
                             IF n = 0 THEN base ELSE PairAt(k[n - 1], s[n], second)]
           Hist(s) == CHOOSE k : k = After(k, s)
<1>1. base \in S
  BY  DEF FreshPair, Nows
<1>2. G \in [S \X Nat -> S]
  BY PairAtIs
<1>3. \A x \in S, c \in Nat : G[<<x, c>>] = PairAt(x, c, second)
  OBVIOUS
<1>4. \A s \in Seq(Nat) : NowOf(s, second) = Hist(s)[Len(s)]
  BY DEF NowOf
<1> HIDE DEF G, S, base
<1>5. PICK F : Loop(F, S, Nat, base, G)
  BY <1>1, <1>2, SomeLoop
<1>6. ASSUME NEW s \in Seq(Nat) PROVE NowOf(s, second) = F[s]
  <2>1. PICK k \in [0 .. Len(s) -> S] : Computed(k, S, base, G, s)
    BY <1>5 DEF Loop
  <2>2. k = After(k, s)
    <3>1. ASSUME NEW n \in 0 .. Len(s) PROVE k[n] = After(k, s)[n]
      <4>1. CASE n = 0
        BY <2>1, <4>1 DEF Computed
      <4>2. CASE n # 0
        <5>1. n \in 1 .. Len(s) /\ n - 1 \in 0 .. Len(s) /\ s[n] \in Nat
          BY <4>2
        <5>2. k[n] = PairAt(k[n - 1], s[n], second)
          BY <1>3, <2>1, <5>1 DEF Computed
        <5> QED BY <4>2, <5>2
      <4> QED BY <4>1, <4>2
    <3> QED BY <3>1
  <2>3. Hist(s) = After(Hist(s), s)
    <3> HIDE DEF After
    <3> QED BY <2>2
  <2> DEFINE h == Hist(s)
  <2>4. h[0] = base /\ \A n \in 1 .. Len(s) : h[n] = PairAt(h[n - 1], s[n], second)
    <3> HIDE DEF Hist
    <3>1. \A n \in 0 .. Len(s) : h[n] = IF n = 0 THEN base ELSE PairAt(h[n - 1], s[n], second)
      BY <2>3
    <3>2. Len(s) \in Nat
      OBVIOUS
    <3> HIDE DEF h, After
    <3> QED BY <3>1, <3>2
  <2> HIDE DEF h
  <2>5. Computed(h, S, base, G, s)
    <3>1. \A n \in 1 .. Len(s) : s[n] \in Nat
      OBVIOUS
    <3> QED BY <1>3, <2>4, <3>1 DEF Computed
  <2>6. h[Len(s)] = F[s]
    BY <1>5, <2>5 DEF Loop
  <2> QED BY <1>4, <2>6 DEF h
<1> HIDE DEF Hist
<1>7. Folds(F, S, Nat, base, G)
  BY <1>5 DEF Loop
<1>8. \A s \in Seq(Nat) : F[s] \in S
  BY <1>7 DEF Folds
<1>9. ASSUME NEW s \in Seq(Nat), NEW c \in Nat
      PROVE  NowOf(Append(s, c), second) = PairAt(NowOf(s, second), c, second)
  <2>1. Append(s, c) \in Seq(Nat)
    OBVIOUS
  <2>2. F[Append(s, c)] = G[<<F[s], c>>]
    BY <1>7 DEF Folds
  <2> QED BY <1>3, <1>6, <1>8, <2>1, <2>2
<1>10. NowOf(<<>>, second) = FreshPair
  <2>1. <<>> \in Seq(Nat) /\ F[<<>>] = base
    BY <1>7 DEF Folds
  <2> QED BY <1>6, <2>1 DEF base
<1> QED BY <1>6, <1>8, <1>9, <1>10 DEF S

LEMMA PairOfIs ==
  ASSUME NEW now \in Nows
  PROVE  PairOf(now) \in [id : Nat, number : Nat, places : Int]
BY DEF PairOf, Nows

LEMMA PairsAtIs ==
  ASSUME NEW a \in PairsS, NEW c \in Nat, NEW sep, NEW second
  PROVE  PairsAt(a, c, sep, second) \in PairsS
<1>1. PairAt(a.now, c, second) \in Nows
  BY PairAtIs DEF PairsS
<1>2. Append(a.out, PairOf(a.now)) \in Seq([id : Nat, number : Nat, places : Int])
  BY PairOfIs DEF PairsS
<1>3. FreshPair \in Nows
  BY DEF FreshPair, Nows
<1> HIDE DEF Nows
<1> QED BY <1>1, <1>2, <1>3 DEF PairsAt, PairsS

SplittingPairs(s, sep, second) ==
  LET a[n \in 0 .. Len(s)] ==
        IF n = 0 THEN [out |-> <<>>, now |-> FreshPair]
        ELSE PairsAt(a[n - 1], s[n], sep, second)
  IN  a[Len(s)]

LEMMA SplittingPairsIs ==
  ASSUME NEW sep, NEW second
  PROVE  /\ SplittingPairs(<<>>, sep, second) = [out |-> <<>>, now |-> FreshPair]
         /\ \A s \in Seq(Nat) : SplittingPairs(s, sep, second) \in PairsS
         /\ \A s \in Seq(Nat), c \in Nat :
              SplittingPairs(Append(s, c), sep, second) = PairsAt(SplittingPairs(s, sep, second), c, sep, second)
<1> DEFINE S == PairsS
           G == [x \in S \X Nat |-> PairsAt(x[1], x[2], sep, second)]
           base == [out |-> <<>>, now |-> FreshPair]
           After(k, s) == [n \in 0 .. Len(s) |->
                             IF n = 0 THEN base ELSE PairsAt(k[n - 1], s[n], sep, second)]
           Hist(s) == CHOOSE k : k = After(k, s)
<1>1. base \in S
  BY  DEF PairsS, FreshPair, Nows
<1>2. G \in [S \X Nat -> S]
  BY PairsAtIs
<1>3. \A x \in S, c \in Nat : G[<<x, c>>] = PairsAt(x, c, sep, second)
  OBVIOUS
<1>4. \A s \in Seq(Nat) : SplittingPairs(s, sep, second) = Hist(s)[Len(s)]
  BY DEF SplittingPairs
<1> HIDE DEF G, S, base
<1>5. PICK F : Loop(F, S, Nat, base, G)
  BY <1>1, <1>2, SomeLoop
<1>6. ASSUME NEW s \in Seq(Nat) PROVE SplittingPairs(s, sep, second) = F[s]
  <2>1. PICK k \in [0 .. Len(s) -> S] : Computed(k, S, base, G, s)
    BY <1>5 DEF Loop
  <2>2. k = After(k, s)
    <3>1. ASSUME NEW n \in 0 .. Len(s) PROVE k[n] = After(k, s)[n]
      <4>1. CASE n = 0
        BY <2>1, <4>1 DEF Computed
      <4>2. CASE n # 0
        <5>1. n \in 1 .. Len(s) /\ n - 1 \in 0 .. Len(s) /\ s[n] \in Nat
          BY <4>2
        <5>2. k[n] = PairsAt(k[n - 1], s[n], sep, second)
          BY <1>3, <2>1, <5>1 DEF Computed
        <5> QED BY <4>2, <5>2
      <4> QED BY <4>1, <4>2
    <3> QED BY <3>1
  <2>3. Hist(s) = After(Hist(s), s)
    <3> HIDE DEF After
    <3> QED BY <2>2
  <2> DEFINE h == Hist(s)
  <2>4. h[0] = base /\ \A n \in 1 .. Len(s) : h[n] = PairsAt(h[n - 1], s[n], sep, second)
    <3> HIDE DEF Hist
    <3>1. \A n \in 0 .. Len(s) : h[n] = IF n = 0 THEN base ELSE PairsAt(h[n - 1], s[n], sep, second)
      BY <2>3
    <3>2. Len(s) \in Nat
      OBVIOUS
    <3> HIDE DEF h, After
    <3> QED BY <3>1, <3>2
  <2> HIDE DEF h
  <2>5. Computed(h, S, base, G, s)
    <3>1. \A n \in 1 .. Len(s) : s[n] \in Nat
      OBVIOUS
    <3> QED BY <1>3, <2>4, <3>1 DEF Computed
  <2>6. h[Len(s)] = F[s]
    BY <1>5, <2>5 DEF Loop
  <2> QED BY <1>4, <2>6 DEF h
<1> HIDE DEF Hist
<1>7. Folds(F, S, Nat, base, G)
  BY <1>5 DEF Loop
<1>8. \A s \in Seq(Nat) : F[s] \in S
  BY <1>7 DEF Folds
<1>9. ASSUME NEW s \in Seq(Nat), NEW c \in Nat
      PROVE  SplittingPairs(Append(s, c), sep, second) = PairsAt(SplittingPairs(s, sep, second), c, sep, second)
  <2>1. Append(s, c) \in Seq(Nat)
    OBVIOUS
  <2>2. F[Append(s, c)] = G[<<F[s], c>>]
    BY <1>7 DEF Folds
  <2> QED BY <1>3, <1>6, <1>8, <2>1, <2>2
<1>10. SplittingPairs(<<>>, sep, second) = [out |-> <<>>, now |-> FreshPair]
  <2>1. <<>> \in Seq(Nat) /\ F[<<>>] = base
    BY <1>7 DEF Folds
  <2> QED BY <1>6, <2>1 DEF base
<1> QED BY <1>6, <1>8, <1>9, <1>10 DEF S

-----------------------------------------------------------------------------
(* Tables that grow: the maps of split_map_string, and those of a file. *)

Tables(K, V) == UNION {[D -> V] : D \in SUBSET K}

LEMMA TablesAre ==
  ASSUME NEW K, NEW V, NEW m
  PROVE  m \in Tables(K, V) <=> \E D \in SUBSET K : m \in [D -> V]
BY DEF Tables

LEMMA EmptyTable ==
  ASSUME NEW K, NEW V
  PROVE  <<>> \in Tables(K, V) /\ DOMAIN <<>> = {}
<1>1. DOMAIN <<>> = {}
  OBVIOUS
<1>2. <<>> \in [{} -> V]
  OBVIOUS
<1> QED BY <1>1, <1>2 DEF Tables

LEMMA TableGrows ==
  ASSUME NEW K, NEW V, NEW m \in Tables(K, V), NEW k \in K, NEW v \in V
  PROVE  MapInsert(m, k, v) \in Tables(K, V)
<1>1. PICK D \in SUBSET K : m \in [D -> V]
  BY DEF Tables
<1> DEFINE g == [x \in D \cup {k} |-> IF x \in D THEN m[x] ELSE v]
<1>2. MapInsert(m, k, v) = g
  BY <1>1 DEF MapInsert
<1>3. g \in [D \cup {k} -> V]
  BY <1>1
<1>4. D \cup {k} \in SUBSET K
  OBVIOUS
<1> QED BY <1>2, <1>3, <1>4 DEF Tables

LEMMA TableKeeps ==
  ASSUME NEW m, NEW k, NEW v
  PROVE  /\ DOMAIN MapInsert(m, k, v) = DOMAIN m \cup {k}
         /\ k \notin DOMAIN m => MapInsert(m, k, v)[k] = v
         /\ \A x \in DOMAIN m : MapInsert(m, k, v)[x] = m[x]
BY DEF MapInsert

MapOf(pieces, second, taken) ==
  LET m[n \in 0 .. taken] == IF n = 0 THEN <<>> ELSE MapAt(m[n - 1], pieces[n], second)
  IN  m[taken]

Texts == Seq(Nat)

LEMMA FirstPart ==
  ASSUME NEW p \in Texts, NEW sep
  PROVE  LET parts == SplitString(p, sep)
         IN  /\ parts \in Seq(Texts) /\ Len(parts) >= 1
             /\ \A n \in 1 .. Len(parts) : parts[n] \in Texts
<1>1. SplitString(p, sep) \in Pieces(Nat)
  BY SplitStringIs DEF Texts
<1> QED BY <1>1 DEF Pieces, Texts

LEMMA MapAtIs ==
  ASSUME NEW m \in Tables(Texts, Texts), NEW p \in Texts, NEW second
  PROVE  /\ MapAt(m, p, second) \in Tables(Texts, Texts)
         /\ DOMAIN MapAt(m, p, second) = DOMAIN m \cup {SplitString(p, second)[1]}
<1> DEFINE parts == SplitString(p, second)
           v == IF Len(parts) < 2 THEN <<49>> ELSE parts[2]
<1>1. parts \in Seq(Texts) /\ Len(parts) >= 1 /\ \A n \in 1 .. Len(parts) : parts[n] \in Texts
  BY FirstPart
<1>2. <<49>> \in Texts
  BY DEF Texts
<1>3. MapAt(m, p, second) = MapInsert(m, parts[1], v)
  BY DEF MapAt
<1> HIDE DEF parts
<1>4. parts[1] \in Texts /\ v \in Texts
  BY <1>1, <1>2
<1> HIDE DEF v
<1>5. MapInsert(m, parts[1], v) \in Tables(Texts, Texts)
  BY <1>4, TableGrows, Zenon
<1>6. DOMAIN MapInsert(m, parts[1], v) = DOMAIN m \cup {parts[1]}
  BY DEF MapInsert
<1> QED BY <1>3, <1>5, <1>6 DEF parts

LEMMA MapOfIs ==
  ASSUME NEW second
  PROVE  /\ MapOf(<<>>, second, Len(<<>>)) = <<>>
         /\ \A s \in Seq(Texts) : MapOf(s, second, Len(s)) \in Tables(Texts, Texts)
         /\ \A s \in Seq(Texts), c \in Texts :
              MapOf(Append(s, c), second, Len(Append(s, c))) = MapAt(MapOf(s, second, Len(s)), c, second)
<1> DEFINE S == Tables(Texts, Texts)
           G == [x \in S \X Texts |-> MapAt(x[1], x[2], second)]
           base == <<>>
           After(k, s) == [n \in 0 .. Len(s) |->
                             IF n = 0 THEN base ELSE MapAt(k[n - 1], s[n], second)]
           Hist(s) == CHOOSE k : k = After(k, s)
<1>1. base \in S
  BY EmptyTable
<1>2. G \in [S \X Texts -> S]
  BY MapAtIs
<1>3. \A x \in S, c \in Texts : G[<<x, c>>] = MapAt(x, c, second)
  OBVIOUS
<1>4. \A s \in Seq(Texts) : MapOf(s, second, Len(s)) = Hist(s)[Len(s)]
  BY DEF MapOf
<1> HIDE DEF G, S, base
<1>5. PICK F : Loop(F, S, Texts, base, G)
  BY <1>1, <1>2, SomeLoop
<1>6. ASSUME NEW s \in Seq(Texts) PROVE MapOf(s, second, Len(s)) = F[s]
  <2>1. PICK k \in [0 .. Len(s) -> S] : Computed(k, S, base, G, s)
    BY <1>5 DEF Loop
  <2>2. k = After(k, s)
    <3>1. ASSUME NEW n \in 0 .. Len(s) PROVE k[n] = After(k, s)[n]
      <4>1. CASE n = 0
        BY <2>1, <4>1 DEF Computed
      <4>2. CASE n # 0
        <5>1. n \in 1 .. Len(s) /\ n - 1 \in 0 .. Len(s) /\ s[n] \in Texts
          BY <4>2
        <5>2. k[n] = MapAt(k[n - 1], s[n], second)
          BY <1>3, <2>1, <5>1 DEF Computed
        <5> QED BY <4>2, <5>2
      <4> QED BY <4>1, <4>2
    <3> QED BY <3>1
  <2>3. Hist(s) = After(Hist(s), s)
    <3> HIDE DEF After
    <3> QED BY <2>2
  <2> DEFINE h == Hist(s)
  <2>4. h[0] = base /\ \A n \in 1 .. Len(s) : h[n] = MapAt(h[n - 1], s[n], second)
    <3> HIDE DEF Hist
    <3>1. \A n \in 0 .. Len(s) : h[n] = IF n = 0 THEN base ELSE MapAt(h[n - 1], s[n], second)
      BY <2>3
    <3>2. Len(s) \in Nat
      OBVIOUS
    <3> HIDE DEF h, After
    <3> QED BY <3>1, <3>2
  <2> HIDE DEF h
  <2>5. Computed(h, S, base, G, s)
    <3>1. \A n \in 1 .. Len(s) : s[n] \in Texts
      OBVIOUS
    <3> QED BY <1>3, <2>4, <3>1 DEF Computed
  <2>6. h[Len(s)] = F[s]
    BY <1>5, <2>5 DEF Loop
  <2> QED BY <1>4, <2>6 DEF h
<1> HIDE DEF Hist
<1>7. Folds(F, S, Texts, base, G)
  BY <1>5 DEF Loop
<1>8. \A s \in Seq(Texts) : F[s] \in S
  BY <1>7 DEF Folds
<1>9. ASSUME NEW s \in Seq(Texts), NEW c \in Texts
      PROVE  MapOf(Append(s, c), second, Len(Append(s, c))) = MapAt(MapOf(s, second, Len(s)), c, second)
  <2>1. Append(s, c) \in Seq(Texts)
    OBVIOUS
  <2>2. F[Append(s, c)] = G[<<F[s], c>>]
    BY <1>7 DEF Folds
  <2> QED BY <1>3, <1>6, <1>8, <2>1, <2>2
<1>10. MapOf(<<>>, second, Len(<<>>)) = <<>>
  <2>1. <<>> \in Seq(Texts) /\ F[<<>>] = base
    BY <1>7 DEF Folds
  <2> QED BY <1>6, <2>1 DEF base
<1> QED BY <1>6, <1>8, <1>9, <1>10 DEF S

MapVecOf(pieces, second) ==
  LET m[n \in 0 .. Len(pieces)] ==
        IF n = 0 THEN <<>> ELSE MapVecAt(m[n - 1], pieces[n], second)
  IN  m[Len(pieces)]

KeysOf(parts) == IF Len(parts) > 1 THEN {Atoi(parts[1])} ELSE {}

LEMMA MapVecAtIs ==
  ASSUME NEW m \in Tables(Int, Seq(Texts)), NEW p \in Texts, NEW second
  PROVE  /\ MapVecAt(m, p, second) \in Tables(Int, Seq(Texts))
         /\ DOMAIN MapVecAt(m, p, second) =
              DOMAIN m \cup KeysOf(SplitString(p, second))
<1> DEFINE parts == SplitString(p, second)
           v == <<parts[2], IF Len(parts) < 3 THEN <<49>> ELSE parts[3]>>
           key == Atoi(parts[1])
<1>1. parts \in Seq(Texts) /\ Len(parts) >= 1 /\ \A n \in 1 .. Len(parts) : parts[n] \in Texts
  BY FirstPart
<1>2. <<49>> \in Texts
  BY DEF Texts
<1>3. MapVecAt(m, p, second) = IF Len(parts) < 2 THEN m ELSE MapInsert(m, key, v)
  BY DEF MapVecAt
<1>4. key \in Int
  <2> HIDE DEF parts
  <2>1. parts[1] \in Texts
    BY <1>1
  <2> QED BY <2>1, AtoiIs DEF Texts
<1>5. KeysOf(parts) = IF Len(parts) < 2 THEN {} ELSE {key}
  <2> HIDE DEF parts
  <2>1. Len(parts) > 1 <=> ~ (Len(parts) < 2)
    BY <1>1
  <2> QED BY <2>1 DEF KeysOf
<1> HIDE DEF parts, key
<1>6. ~ (Len(parts) < 2) => v \in Seq(Texts)
  BY <1>1, <1>2
<1> HIDE DEF v
<1>7. ASSUME ~ (Len(parts) < 2)
      PROVE  MapInsert(m, key, v) \in Tables(Int, Seq(Texts))
             /\ DOMAIN MapInsert(m, key, v) = DOMAIN m \cup {key}
  BY <1>4, <1>6, <1>7, TableGrows, TableKeeps
<1> QED BY <1>3, <1>5, <1>7 DEF parts

LEMMA MapVecOfIs ==
  ASSUME NEW second
  PROVE  /\ MapVecOf(<<>>, second) = <<>>
         /\ \A s \in Seq(Texts) : MapVecOf(s, second) \in Tables(Int, Seq(Texts))
         /\ \A s \in Seq(Texts), c \in Texts :
              MapVecOf(Append(s, c), second) = MapVecAt(MapVecOf(s, second), c, second)
<1> DEFINE S == Tables(Int, Seq(Texts))
           G == [x \in S \X Texts |-> MapVecAt(x[1], x[2], second)]
           base == <<>>
           After(k, s) == [n \in 0 .. Len(s) |->
                             IF n = 0 THEN base ELSE MapVecAt(k[n - 1], s[n], second)]
           Hist(s) == CHOOSE k : k = After(k, s)
<1>1. base \in S
  BY EmptyTable
<1>2. G \in [S \X Texts -> S]
  BY MapVecAtIs
<1>3. \A x \in S, c \in Texts : G[<<x, c>>] = MapVecAt(x, c, second)
  OBVIOUS
<1>4. \A s \in Seq(Texts) : MapVecOf(s, second) = Hist(s)[Len(s)]
  BY DEF MapVecOf
<1> HIDE DEF G, S, base
<1>5. PICK F : Loop(F, S, Texts, base, G)
  BY <1>1, <1>2, SomeLoop
<1>6. ASSUME NEW s \in Seq(Texts) PROVE MapVecOf(s, second) = F[s]
  <2>1. PICK k \in [0 .. Len(s) -> S] : Computed(k, S, base, G, s)
    BY <1>5 DEF Loop
  <2>2. k = After(k, s)
    <3>1. ASSUME NEW n \in 0 .. Len(s) PROVE k[n] = After(k, s)[n]
      <4>1. CASE n = 0
        BY <2>1, <4>1 DEF Computed
      <4>2. CASE n # 0
        <5>1. n \in 1 .. Len(s) /\ n - 1 \in 0 .. Len(s) /\ s[n] \in Texts
          BY <4>2
        <5>2. k[n] = MapVecAt(k[n - 1], s[n], second)
          BY <1>3, <2>1, <5>1 DEF Computed
        <5> QED BY <4>2, <5>2
      <4> QED BY <4>1, <4>2
    <3> QED BY <3>1
  <2>3. Hist(s) = After(Hist(s), s)
    <3> HIDE DEF After
    <3> QED BY <2>2
  <2> DEFINE h == Hist(s)
  <2>4. h[0] = base /\ \A n \in 1 .. Len(s) : h[n] = MapVecAt(h[n - 1], s[n], second)
    <3> HIDE DEF Hist
    <3>1. \A n \in 0 .. Len(s) : h[n] = IF n = 0 THEN base ELSE MapVecAt(h[n - 1], s[n], second)
      BY <2>3
    <3>2. Len(s) \in Nat
      OBVIOUS
    <3> HIDE DEF h, After
    <3> QED BY <3>1, <3>2
  <2> HIDE DEF h
  <2>5. Computed(h, S, base, G, s)
    <3>1. \A n \in 1 .. Len(s) : s[n] \in Texts
      OBVIOUS
    <3> QED BY <1>3, <2>4, <3>1 DEF Computed
  <2>6. h[Len(s)] = F[s]
    BY <1>5, <2>5 DEF Loop
  <2> QED BY <1>4, <2>6 DEF h
<1> HIDE DEF Hist
<1>7. Folds(F, S, Texts, base, G)
  BY <1>5 DEF Loop
<1>8. \A s \in Seq(Texts) : F[s] \in S
  BY <1>7 DEF Folds
<1>9. ASSUME NEW s \in Seq(Texts), NEW c \in Texts
      PROVE  MapVecOf(Append(s, c), second) = MapVecAt(MapVecOf(s, second), c, second)
  <2>1. Append(s, c) \in Seq(Texts)
    OBVIOUS
  <2>2. F[Append(s, c)] = G[<<F[s], c>>]
    BY <1>7 DEF Folds
  <2> QED BY <1>3, <1>6, <1>8, <2>1, <2>2
<1>10. MapVecOf(<<>>, second) = <<>>
  <2>1. <<>> \in Seq(Texts) /\ F[<<>>] = base
    BY <1>7 DEF Folds
  <2> QED BY <1>6, <2>1 DEF base
<1> QED BY <1>6, <1>8, <1>9, <1>10 DEF S

-----------------------------------------------------------------------------
(* fgets, and the tables of a data file. *)

Chunks == Seq(Texts \ {<<>>})

LEMMA FgetsAtIs ==
  ASSUME NEW chunks \in Chunks, NEW c \in Nat
  PROVE  FgetsAt(chunks, c) \in Chunks
<1>1. <<c>> \in Texts \ {<<>>}
  BY DEF Texts
<1>2. Append(chunks, <<c>>) \in Chunks
  BY <1>1 DEF Chunks
<1>3. ASSUME chunks # <<>>
      PROVE  [chunks EXCEPT ![Len(chunks)] = Append(@, c)] \in Chunks
  <2>1. Len(chunks) \in 1 .. Len(chunks) /\ chunks[Len(chunks)] \in Texts
    BY <1>3 DEF Chunks
  <2>2. Append(chunks[Len(chunks)], c) \in Texts \ {<<>>}
    BY <2>1 DEF Texts
  <2> QED BY <2>1, <2>2 DEF Chunks
<1> QED BY <1>2, <1>3 DEF FgetsAt

LEMMA FgetsChunksAre ==
         /\ FgetsChunks(<<>>) = <<>>
         /\ \A s \in Seq(Nat) : FgetsChunks(s) \in Chunks
         /\ \A s \in Seq(Nat), c \in Nat :
              FgetsChunks(Append(s, c)) = FgetsAt(FgetsChunks(s), c)
<1> DEFINE S == Chunks
           G == [x \in S \X Nat |-> FgetsAt(x[1], x[2])]
           base == <<>>
           After(k, s) == [n \in 0 .. Len(s) |->
                             IF n = 0 THEN base ELSE FgetsAt(k[n - 1], s[n])]
           Hist(s) == CHOOSE k : k = After(k, s)
<1>1. base \in S
  BY  DEF Chunks
<1>2. G \in [S \X Nat -> S]
  BY FgetsAtIs
<1>3. \A x \in S, c \in Nat : G[<<x, c>>] = FgetsAt(x, c)
  OBVIOUS
<1>4. \A s \in Seq(Nat) : FgetsChunks(s) = Hist(s)[Len(s)]
  BY DEF FgetsChunks
<1> HIDE DEF G, S, base
<1>5. PICK F : Loop(F, S, Nat, base, G)
  BY <1>1, <1>2, SomeLoop
<1>6. ASSUME NEW s \in Seq(Nat) PROVE FgetsChunks(s) = F[s]
  <2>1. PICK k \in [0 .. Len(s) -> S] : Computed(k, S, base, G, s)
    BY <1>5 DEF Loop
  <2>2. k = After(k, s)
    <3>1. ASSUME NEW n \in 0 .. Len(s) PROVE k[n] = After(k, s)[n]
      <4>1. CASE n = 0
        BY <2>1, <4>1 DEF Computed
      <4>2. CASE n # 0
        <5>1. n \in 1 .. Len(s) /\ n - 1 \in 0 .. Len(s) /\ s[n] \in Nat
          BY <4>2
        <5>2. k[n] = FgetsAt(k[n - 1], s[n])
          BY <1>3, <2>1, <5>1 DEF Computed
        <5> QED BY <4>2, <5>2
      <4> QED BY <4>1, <4>2
    <3> QED BY <3>1
  <2>3. Hist(s) = After(Hist(s), s)
    <3> HIDE DEF After
    <3> QED BY <2>2
  <2> DEFINE h == Hist(s)
  <2>4. h[0] = base /\ \A n \in 1 .. Len(s) : h[n] = FgetsAt(h[n - 1], s[n])
    <3> HIDE DEF Hist
    <3>1. \A n \in 0 .. Len(s) : h[n] = IF n = 0 THEN base ELSE FgetsAt(h[n - 1], s[n])
      BY <2>3
    <3>2. Len(s) \in Nat
      OBVIOUS
    <3> HIDE DEF h, After
    <3> QED BY <3>1, <3>2
  <2> HIDE DEF h
  <2>5. Computed(h, S, base, G, s)
    <3>1. \A n \in 1 .. Len(s) : s[n] \in Nat
      OBVIOUS
    <3> QED BY <1>3, <2>4, <3>1 DEF Computed
  <2>6. h[Len(s)] = F[s]
    BY <1>5, <2>5 DEF Loop
  <2> QED BY <1>4, <2>6 DEF h
<1> HIDE DEF Hist
<1>7. Folds(F, S, Nat, base, G)
  BY <1>5 DEF Loop
<1>8. \A s \in Seq(Nat) : F[s] \in S
  BY <1>7 DEF Folds
<1>9. ASSUME NEW s \in Seq(Nat), NEW c \in Nat
      PROVE  FgetsChunks(Append(s, c)) = FgetsAt(FgetsChunks(s), c)
  <2>1. Append(s, c) \in Seq(Nat)
    OBVIOUS
  <2>2. F[Append(s, c)] = G[<<F[s], c>>]
    BY <1>7 DEF Folds
  <2> QED BY <1>3, <1>6, <1>8, <2>1, <2>2
<1>10. FgetsChunks(<<>>) = <<>>
  <2>1. <<>> \in Seq(Nat) /\ F[<<>>] = base
    BY <1>7 DEF Folds
  <2> QED BY <1>6, <2>1 DEF base
<1> QED BY <1>6, <1>8, <1>9, <1>10 DEF S

TableOf(bufs, sep) ==
  LET table[n \in 0 .. Len(bufs)] ==
        IF n = 0 THEN <<>> ELSE KvAt(table[n - 1], bufs[n], sep)
  IN  table[Len(bufs)]

LEMMA IdsAre ==
  ASSUME NEW s \in Texts, NEW sep, NEW limit
  PROVE  SplitStringIds(s, sep, limit) \in Seq(Nat)
<1> DEFINE end == SplittingIds(s, sep, limit)
<1>1. SplitStringIds(s, sep, limit) = IF end.done THEN end.ids ELSE Append(end.ids, end.id)
  BY DEF SplitStringIds, SplittingIds
<1>2. end \in [ids : Seq(Nat), id : Nat, done : BOOLEAN]
  BY SplittingIdsIs DEF Texts
<1> HIDE DEF end
<1> QED BY <1>1, <1>2

LEMMA KvAtIs ==
  ASSUME NEW table \in Tables(Nat, Nat), NEW buf \in Texts, NEW sep
  PROVE  KvAt(table, buf, sep) \in Tables(Nat, Nat)
<1> DEFINE ids == SplitStringIds(buf, sep, 0)
           v == ids[2] % ValueWidth
<1>1. KvAt(table, buf, sep) = IF Len(ids) < 2 THEN table ELSE MapInsert(table, ids[1], v)
  BY DEF KvAt
<1>2. ids \in Seq(Nat)
  BY IdsAre
<1> HIDE DEF ids
<1>3. ~ (Len(ids) < 2) => ids[1] \in Nat /\ v \in Nat
  BY <1>2, DataFilesAssumption
<1> HIDE DEF v
<1> QED BY <1>1, <1>3, TableGrows

LEMMA TableOfIs ==
  ASSUME NEW sep
  PROVE  /\ TableOf(<<>>, sep) = <<>>
         /\ \A s \in Seq(Texts) : TableOf(s, sep) \in Tables(Nat, Nat)
         /\ \A s \in Seq(Texts), c \in Texts :
              TableOf(Append(s, c), sep) = KvAt(TableOf(s, sep), c, sep)
<1> DEFINE S == Tables(Nat, Nat)
           G == [x \in S \X Texts |-> KvAt(x[1], x[2], sep)]
           base == <<>>
           After(k, s) == [n \in 0 .. Len(s) |->
                             IF n = 0 THEN base ELSE KvAt(k[n - 1], s[n], sep)]
           Hist(s) == CHOOSE k : k = After(k, s)
<1>1. base \in S
  BY EmptyTable
<1>2. G \in [S \X Texts -> S]
  BY KvAtIs
<1>3. \A x \in S, c \in Texts : G[<<x, c>>] = KvAt(x, c, sep)
  OBVIOUS
<1>4. \A s \in Seq(Texts) : TableOf(s, sep) = Hist(s)[Len(s)]
  BY DEF TableOf
<1> HIDE DEF G, S, base
<1>5. PICK F : Loop(F, S, Texts, base, G)
  BY <1>1, <1>2, SomeLoop
<1>6. ASSUME NEW s \in Seq(Texts) PROVE TableOf(s, sep) = F[s]
  <2>1. PICK k \in [0 .. Len(s) -> S] : Computed(k, S, base, G, s)
    BY <1>5 DEF Loop
  <2>2. k = After(k, s)
    <3>1. ASSUME NEW n \in 0 .. Len(s) PROVE k[n] = After(k, s)[n]
      <4>1. CASE n = 0
        BY <2>1, <4>1 DEF Computed
      <4>2. CASE n # 0
        <5>1. n \in 1 .. Len(s) /\ n - 1 \in 0 .. Len(s) /\ s[n] \in Texts
          BY <4>2
        <5>2. k[n] = KvAt(k[n - 1], s[n], sep)
          BY <1>3, <2>1, <5>1 DEF Computed
        <5> QED BY <4>2, <5>2
      <4> QED BY <4>1, <4>2
    <3> QED BY <3>1
  <2>3. Hist(s) = After(Hist(s), s)
    <3> HIDE DEF After
    <3> QED BY <2>2
  <2> DEFINE h == Hist(s)
  <2>4. h[0] = base /\ \A n \in 1 .. Len(s) : h[n] = KvAt(h[n - 1], s[n], sep)
    <3> HIDE DEF Hist
    <3>1. \A n \in 0 .. Len(s) : h[n] = IF n = 0 THEN base ELSE KvAt(h[n - 1], s[n], sep)
      BY <2>3
    <3>2. Len(s) \in Nat
      OBVIOUS
    <3> HIDE DEF h, After
    <3> QED BY <3>1, <3>2
  <2> HIDE DEF h
  <2>5. Computed(h, S, base, G, s)
    <3>1. \A n \in 1 .. Len(s) : s[n] \in Texts
      OBVIOUS
    <3> QED BY <1>3, <2>4, <3>1 DEF Computed
  <2>6. h[Len(s)] = F[s]
    BY <1>5, <2>5 DEF Loop
  <2> QED BY <1>4, <2>6 DEF h
<1> HIDE DEF Hist
<1>7. Folds(F, S, Texts, base, G)
  BY <1>5 DEF Loop
<1>8. \A s \in Seq(Texts) : F[s] \in S
  BY <1>7 DEF Folds
<1>9. ASSUME NEW s \in Seq(Texts), NEW c \in Texts
      PROVE  TableOf(Append(s, c), sep) = KvAt(TableOf(s, sep), c, sep)
  <2>1. Append(s, c) \in Seq(Texts)
    OBVIOUS
  <2>2. F[Append(s, c)] = G[<<F[s], c>>]
    BY <1>7 DEF Folds
  <2> QED BY <1>3, <1>6, <1>8, <2>1, <2>2
<1>10. TableOf(<<>>, sep) = <<>>
  <2>1. <<>> \in Seq(Texts) /\ F[<<>>] = base
    BY <1>7 DEF Folds
  <2> QED BY <1>6, <2>1 DEF base
<1> QED BY <1>6, <1>8, <1>9, <1>10 DEF S

-----------------------------------------------------------------------------
(* What one more character does to the pieces. *)

Grown(q, pieces, c, sep) ==
  /\ q \in Pieces(Nat) /\ Len(pieces) \in Nat /\ Len(pieces) >= 1
  /\ c = sep => /\ Len(q) = Len(pieces) + 1 /\ q[Len(q)] = <<>>
                /\ \A n \in 1 .. Len(pieces) : q[n] = pieces[n]
  /\ c # sep => /\ Len(q) = Len(pieces) /\ q[Len(q)] = Append(pieces[Len(q)], c)
                /\ \A n \in 1 .. Len(pieces) - 1 : q[n] = pieces[n]

LEMMA OneMore ==
  ASSUME NEW pieces \in Pieces(Nat), NEW c \in Nat, NEW sep
  PROVE  Grown(SplitAt(pieces, c, sep), pieces, c, sep)
<1> DEFINE q == SplitAt(pieces, c, sep)
<1>1. q \in Pieces(Nat)
  BY SplitAtIs
<1>2. Len(pieces) \in Nat /\ Len(pieces) >= 1 /\ pieces \in Seq(Seq(Nat))
  BY DEF Pieces
<1> SUFFICES Grown(q, pieces, c, sep)
  OBVIOUS
<1>3. CASE c = sep
  <2>1. q = Append(pieces, <<>>) /\ <<>> \in Seq(Nat)
    BY <1>3 DEF SplitAt
  <2> HIDE DEF q
  <2>2. Len(q) = Len(pieces) + 1 /\ q[Len(pieces) + 1] = <<>>
    BY <1>2, <2>1
  <2>3. \A n \in 1 .. Len(pieces) : q[n] = pieces[n]
    BY <1>2, <2>1
  <2> QED BY <1>1, <1>2, <1>3, <2>2, <2>3 DEF Grown
<1>4. CASE c # sep
  <2>1. q = [pieces EXCEPT ![Len(pieces)] = Append(pieces[Len(pieces)], c)]
    BY <1>4 DEF SplitAt
  <2> HIDE DEF q
  <2> QED BY <1>1, <1>2, <1>4, <2>1 DEF Grown
<1> QED BY <1>3, <1>4

LEMMA PieceFacts ==
  ASSUME NEW s \in Texts, NEW sep
  PROVE  /\ SplitString(s, sep) \in Seq(Texts) /\ Len(SplitString(s, sep)) \in Nat
         /\ Len(SplitString(s, sep)) >= 1
         /\ \A n \in 1 .. Len(SplitString(s, sep)) : SplitString(s, sep)[n] \in Texts
<1> DEFINE pieces == SplitString(s, sep)
<1>1. pieces \in Pieces(Nat)
  BY SplitStringIs DEF Texts
<1> HIDE DEF pieces
<1>2. pieces \in Seq(Texts) /\ Len(pieces) \in Nat /\ Len(pieces) >= 1
  BY <1>1 DEF Pieces, Texts
<1>3. \A n \in 1 .. Len(pieces) : pieces[n] \in Texts
  BY <1>2
<1> QED BY <1>2, <1>3 DEF pieces

\* The number that the digits of a piece are.
W(p) == Wrapped(Digits(p))

LEMMA WIs ==
  /\ W(<<>>) = 0
  /\ \A p \in Texts : W(p) \in Nat
  /\ \A p \in Texts, c \in Nat :
       W(Append(p, c)) = IF IsDigit(c) THEN Shift(W(p), c) ELSE W(p)
<1>1. W(<<>>) = 0
  BY DigitsAre, WrappedIs DEF W
<1>2. ASSUME NEW p \in Texts PROVE Digits(p) \in Seq(Nat) /\ W(p) \in Nat
  <2>1. Digits(p) \in Seq(Nat)
    BY DigitsAre DEF Texts
  <2> QED BY <2>1, WrappedIs DEF W
<1>3. ASSUME NEW p \in Texts, NEW c \in Nat
      PROVE  W(Append(p, c)) = IF IsDigit(c) THEN Shift(W(p), c) ELSE W(p)
  <2>1. Digits(Append(p, c)) = DigitAt(Digits(p), c)
    BY DigitsAre DEF Texts
  <2>2. Digits(p) \in Seq(Nat)
    BY <1>2
  <2>3. Wrapped(Append(Digits(p), c)) = Shift(Wrapped(Digits(p)), c)
    BY <2>2, WrappedIs
  <2> QED BY <2>1, <2>3 DEF DigitAt, W
<1> QED BY <1>1, <1>2, <1>3

\* The state of split_string_ids without a limit: the ids of all pieces but the
\* last, and the id of the last.
IdsOfPieces(a, pieces) ==
  /\ a \in [ids : Seq(Nat), id : Nat, done : BOOLEAN] /\ ~ a.done
  /\ Len(a.ids) = Len(pieces) - 1 /\ a.id = W(pieces[Len(pieces)])
  /\ \A n \in 1 .. Len(pieces) - 1 : a.ids[n] = W(pieces[n])

LEMMA IdsGrow ==
  ASSUME NEW pieces \in Pieces(Nat), NEW c \in Nat, NEW sep, ~ IsDigit(sep),
         NEW a, IdsOfPieces(a, pieces)
  PROVE  IdsOfPieces(IdsAt(a, c, sep, 0), SplitAt(pieces, c, sep))
<1> DEFINE q == SplitAt(pieces, c, sep)
           b == IdsAt(a, c, sep, 0)
           l == Len(pieces)
<1>0. q = SplitAt(pieces, c, sep) /\ b = IdsAt(a, c, sep, 0)
  OBVIOUS
<1> SUFFICES IdsOfPieces(b, q)
  OBVIOUS
<1> HIDE DEF q, b
<1>1. /\ q \in Pieces(Nat) /\ l \in Nat /\ l >= 1
      /\ c = sep => /\ Len(q) = l + 1 /\ q[Len(q)] = <<>>
                    /\ \A n \in 1 .. l : q[n] = pieces[n]
      /\ c # sep => /\ Len(q) = l /\ q[Len(q)] = Append(pieces[Len(q)], c)
                    /\ \A n \in 1 .. l - 1 : q[n] = pieces[n]
  <2>1. Grown(q, pieces, c, sep)
    BY <1>0, OneMore
  <2> QED BY <2>1 DEF Grown
<1>2. pieces[l] \in Texts
  BY <1>1 DEF Pieces, Texts
<1>3. /\ a \in [ids : Seq(Nat), id : Nat, done : BOOLEAN] /\ ~ a.done
      /\ Len(a.ids) = l - 1 /\ a.id = W(pieces[l])
      /\ \A n \in 1 .. l - 1 : a.ids[n] = W(pieces[n])
  BY DEF IdsOfPieces
<1>4. b \in [ids : Seq(Nat), id : Nat, done : BOOLEAN]
  BY <1>0, <1>3, IdsAtIs
<1>5. b = IF IsDigit(c) THEN [ids |-> a.ids, id |-> Shift(a.id, c), done |-> FALSE]
          ELSE IF c = sep THEN [ids |-> Append(a.ids, a.id), id |-> 0, done |-> FALSE]
          ELSE a
  BY <1>0, <1>3 DEF IdsAt
<1>6. CASE c = sep
  <2>1. b.ids = Append(a.ids, a.id) /\ b.id = 0 /\ ~ b.done
    BY <1>5, <1>6
  <2>2. b.id = W(q[Len(q)])
    BY <1>1, <1>6, <2>1, WIs
  <2>3. Len(b.ids) = Len(q) - 1
    BY <1>1, <1>3, <1>6, <2>1
  <2>4. ASSUME NEW n \in 1 .. Len(q) - 1 PROVE b.ids[n] = W(q[n])
    <3>1. q[n] = pieces[n] /\ n \in 1 .. l
      BY <1>1, <1>6
    <3>2. n = l \/ n \in 1 .. l - 1
      BY <1>1, <3>1
    <3>3. n = l => b.ids[n] = a.id
      BY <1>1, <1>3, <2>1
    <3>4. n # l => b.ids[n] = a.ids[n]
      BY <1>1, <1>3, <2>1, <3>2
    <3> QED BY <1>3, <3>1, <3>2, <3>3, <3>4
  <2> HIDE DEF l
  <2> QED BY <1>4, <2>1, <2>2, <2>3, <2>4, Zenon DEF IdsOfPieces
<1>7. CASE c # sep
  <2>1. b.ids = a.ids /\ ~ b.done /\ b.id = IF IsDigit(c) THEN Shift(a.id, c) ELSE a.id
    BY <1>3, <1>5, <1>7
  <2>2. W(Append(pieces[l], c)) = IF IsDigit(c) THEN Shift(W(pieces[l]), c) ELSE W(pieces[l])
    BY <1>2, WIs
  <2>3. Len(q) = l /\ q[Len(q)] = Append(pieces[l], c)
    BY <1>1, <1>7
  <2>4. b.id = W(q[Len(q)])
    BY <1>3, <2>1, <2>2, <2>3
  <2>5. ASSUME NEW n \in 1 .. Len(q) - 1 PROVE b.ids[n] = W(q[n])
    <3>1. n \in 1 .. l - 1 /\ q[n] = pieces[n]
      BY <1>1, <1>7
    <3> QED BY <1>3, <2>1, <3>1
  <2>6. Len(b.ids) = Len(q) - 1
    BY <1>3, <2>1, <2>3
  <2> HIDE DEF l
  <2> QED BY <1>4, <2>1, <2>4, <2>5, <2>6, Zenon DEF IdsOfPieces
<1> QED BY <1>6, <1>7

LEMMA IdsFollow ==
  ASSUME NEW s \in Texts, NEW sep, ~ IsDigit(sep)
  PROVE  IdsOfPieces(SplittingIds(s, sep, 0), SplitString(s, sep))
<1> DEFINE T == {t \in Texts : IdsOfPieces(SplittingIds(t, sep, 0), SplitString(t, sep))}
<1>1. <<>> \in T
  <2>1. SplittingIds(<<>>, sep, 0) = [ids |-> <<>>, id |-> 0, done |-> FALSE]
    BY SplittingIdsIs
  <2>2. SplitString(<<>>, sep) = << <<>> >>
    BY SplitStringIs
  <2>3. IdsOfPieces([ids |-> <<>>, id |-> 0, done |-> FALSE], << <<>> >>)
    <3>1. Len(<< <<>> >>) = 1 /\ << <<>> >>[1] = <<>> /\ Len(<<>>) = 0 /\ <<>> \in Seq(Nat)
      OBVIOUS
    <3> QED BY <3>1, WIs DEF IdsOfPieces
  <2>4. <<>> \in Texts
    BY DEF Texts
  <2> QED BY <2>1, <2>2, <2>3, <2>4
<1>2. ASSUME NEW t \in Seq(Nat), NEW c \in Nat, t \in T PROVE Append(t, c) \in T
  <2>1. SplitString(t, sep) \in Pieces(Nat)
        /\ SplitString(Append(t, c), sep) = SplitAt(SplitString(t, sep), c, sep)
    BY SplitStringIs
  <2>2. SplittingIds(Append(t, c), sep, 0) = IdsAt(SplittingIds(t, sep, 0), c, sep, 0)
    BY SplittingIdsIs
  <2>3. IdsOfPieces(IdsAt(SplittingIds(t, sep, 0), c, sep, 0),
                    SplitAt(SplitString(t, sep), c, sep))
    BY <1>2, <2>1, IdsGrow
  <2>4. Append(t, c) \in Texts
    BY DEF Texts
  <2> QED BY <2>1, <2>2, <2>3, <2>4
<1>3. Seq(Nat) \subseteq T
  <2> HIDE DEF T
  <2> QED BY <1>1, <1>2, SeqInduction
<1> QED BY <1>3 DEF Texts

\* split_string_ids returns the numbers of the pieces of split_string.
LEMMA IdsOfText ==
  ASSUME NEW s \in Texts, NEW sep, ~ IsDigit(sep)
  PROVE  SplitStringIds(s, sep, 0)
           = [n \in 1 .. Len(SplitString(s, sep)) |-> W(SplitString(s, sep)[n])]
<1> DEFINE end == SplittingIds(s, sep, 0)
           pieces == SplitString(s, sep)
           ids == SplitStringIds(s, sep, 0)
<1>1. ids = IF end.done THEN end.ids ELSE Append(end.ids, end.id)
  BY DEF SplitStringIds, SplittingIds
<1>2. IdsOfPieces(end, pieces)
  BY IdsFollow
<1>3. Len(pieces) \in Nat /\ Len(pieces) >= 1
  BY PieceFacts
<1> HIDE DEF end, pieces, ids
<1>4. ids = Append(end.ids, end.id) /\ end.ids \in Seq(Nat) /\ end.id \in Nat
      /\ Len(end.ids) = Len(pieces) - 1
  BY <1>1, <1>2 DEF IdsOfPieces
<1>5. ids \in Seq(Nat) /\ Len(ids) = Len(pieces)
  BY <1>3, <1>4
<1>6. ASSUME NEW n \in 1 .. Len(pieces) PROVE ids[n] = W(pieces[n])
  <2>1. n = Len(pieces) => ids[n] = end.id
    BY <1>3, <1>4
  <2>2. n # Len(pieces) => ids[n] = end.ids[n] /\ n \in 1 .. Len(pieces) - 1
    BY <1>3, <1>4
  <2> QED BY <1>2, <2>1, <2>2 DEF IdsOfPieces
<1>7. ids = [n \in 1 .. Len(pieces) |-> W(pieces[n])]
  BY <1>5, <1>6
<1> QED BY <1>7 DEF ids, pieces

\* With a limit the loop goes on as without, until it is full; it is found to
\* be full at the next character only.
IdsCut(a, b, limit, s, sep) ==
  /\ a \in [ids : Seq(Nat), id : Nat, done : BOOLEAN] /\ ~ a.done
  /\ b \in [ids : Seq(Nat), id : Nat, done : BOOLEAN]
  /\ ~ b.done => /\ b.ids = a.ids /\ b.id = a.id /\ Len(b.ids) <= limit
                 /\ Len(b.ids) = limit => s # <<>> /\ s[Len(s)] = sep
  /\ b.done => /\ Len(b.ids) = limit /\ limit <= Len(a.ids)
               /\ \A n \in 1 .. limit : b.ids[n] = a.ids[n]

LEMMA CutGrows ==
  ASSUME NEW s \in Texts, NEW c \in Nat, NEW sep, ~ IsDigit(sep), NEW limit \in Nat \ {0},
         NEW a, NEW b, IdsCut(a, b, limit, s, sep)
  PROVE  IdsCut(IdsAt(a, c, sep, 0), IdsAt(b, c, sep, limit), limit, Append(s, c), sep)
<1> DEFINE x == IdsAt(a, c, sep, 0)
           y == IdsAt(b, c, sep, limit)
           t == Append(s, c)
<1>1. t # <<>> /\ t[Len(t)] = c
  BY DEF Texts
<1>2. /\ a \in [ids : Seq(Nat), id : Nat, done : BOOLEAN] /\ ~ a.done
      /\ b \in [ids : Seq(Nat), id : Nat, done : BOOLEAN]
      /\ ~ b.done => /\ b.ids = a.ids /\ b.id = a.id /\ Len(b.ids) <= limit
      /\ b.done => /\ Len(b.ids) = limit /\ limit <= Len(a.ids)
                   /\ \A n \in 1 .. limit : b.ids[n] = a.ids[n]
  BY DEF IdsCut
<1>3. x \in [ids : Seq(Nat), id : Nat, done : BOOLEAN]
      /\ y \in [ids : Seq(Nat), id : Nat, done : BOOLEAN]
  BY <1>2, IdsAtIs
<1>4. x = IF IsDigit(c) THEN [ids |-> a.ids, id |-> Shift(a.id, c), done |-> FALSE]
          ELSE IF c = sep THEN [ids |-> Append(a.ids, a.id), id |-> 0, done |-> FALSE]
          ELSE a
  BY <1>2 DEF IdsAt
<1>5. Len(a.ids) \in Nat /\ Len(b.ids) \in Nat /\ limit # 0 /\ limit \in Nat
  BY <1>2
<1>6. b.done \/ Len(b.ids) >= limit => y = [ids |-> b.ids, id |-> b.id, done |-> TRUE]
  BY <1>5 DEF IdsAt
<1>7. ~ (b.done \/ Len(b.ids) >= limit) =>
        y = IF IsDigit(c) THEN [ids |-> b.ids, id |-> Shift(b.id, c), done |-> FALSE]
            ELSE IF c = sep THEN [ids |-> Append(b.ids, b.id), id |-> 0, done |-> FALSE]
            ELSE b
  BY <1>5 DEF IdsAt
<1> SUFFICES IdsCut(x, y, limit, t, sep)
  OBVIOUS
<1> HIDE DEF x, y, t
<1>8. ~ x.done /\ Len(a.ids) <= Len(x.ids) /\ \A n \in 1 .. Len(a.ids) : x.ids[n] = a.ids[n]
  <2>1. CASE c = sep /\ ~ IsDigit(c)
    <3>1. x.ids = Append(a.ids, a.id) /\ ~ x.done
      BY <1>4, <2>1
    <3> QED BY <1>2, <3>1
  <2>2. CASE ~ (c = sep /\ ~ IsDigit(c))
    <3>1. x.ids = a.ids /\ ~ x.done
      BY <1>2, <1>4, <2>2
    <3> QED BY <1>2, <3>1
  <2> QED BY <2>1, <2>2
<1>9. CASE b.done \/ Len(b.ids) >= limit
  <2>1. y.done /\ y.ids = b.ids
    BY <1>6, <1>9
  <2>2. Len(b.ids) = limit /\ limit <= Len(a.ids) /\ \A n \in 1 .. limit : b.ids[n] = a.ids[n]
    BY <1>2, <1>5, <1>9
  <2>3. limit <= Len(x.ids) /\ \A n \in 1 .. limit : y.ids[n] = x.ids[n]
    BY <1>5, <1>8, <2>1, <2>2
  <2> QED BY <1>3, <1>8, <2>1, <2>2, <2>3 DEF IdsCut
<1>10. CASE ~ (b.done \/ Len(b.ids) >= limit)
  <2>1. ~ b.done /\ b.ids = a.ids /\ b.id = a.id /\ Len(b.ids) < limit
    BY <1>2, <1>5, <1>10
  <2>2. y = IF IsDigit(c) THEN [ids |-> a.ids, id |-> Shift(a.id, c), done |-> FALSE]
            ELSE IF c = sep THEN [ids |-> Append(a.ids, a.id), id |-> 0, done |-> FALSE]
            ELSE b
    BY <1>7, <1>10, <2>1
  <2>3. ~ y.done /\ y.ids = x.ids /\ y.id = x.id
    BY <1>4, <2>1, <2>2
  <2>4. CASE c = sep
    <3>1. y.ids = Append(a.ids, a.id)
      BY <2>2, <2>4
    <3>2. Len(y.ids) <= limit
      BY <1>2, <1>5, <2>1, <3>1
    <3> QED BY <1>1, <1>3, <1>8, <2>3, <2>4, <3>2 DEF IdsCut
  <2>5. CASE c # sep
    <3>1. y.ids = a.ids
      BY <2>1, <2>2, <2>5
    <3>2. Len(y.ids) < limit
      BY <1>5, <2>1, <3>1
    <3> QED BY <1>3, <1>5, <1>8, <2>1, <2>3, <3>1, <3>2 DEF IdsCut
  <2> QED BY <2>4, <2>5
<1> QED BY <1>9, <1>10

LEMMA CutFollows ==
  ASSUME NEW s \in Texts, NEW sep, ~ IsDigit(sep), NEW limit \in Nat \ {0}
  PROVE  IdsCut(SplittingIds(s, sep, 0), SplittingIds(s, sep, limit), limit, s, sep)
<1> DEFINE Holds(t) ==
             IdsCut(SplittingIds(t, sep, 0), SplittingIds(t, sep, limit), limit, t, sep)
           T == {t \in Texts : Holds(t)}
<1>1. <<>> \in T
  <2>1. SplittingIds(<<>>, sep, 0) = [ids |-> <<>>, id |-> 0, done |-> FALSE]
        /\ SplittingIds(<<>>, sep, limit) = [ids |-> <<>>, id |-> 0, done |-> FALSE]
    BY SplittingIdsIs
  <2> DEFINE a == [ids |-> <<>>, id |-> 0, done |-> FALSE]
  <2>2. a \in [ids : Seq(Nat), id : Nat, done : BOOLEAN] /\ ~ a.done /\ Len(a.ids) = 0
    OBVIOUS
  <2> HIDE DEF a
  <2>3. IdsCut(a, a, limit, <<>>, sep)
    BY <2>2 DEF IdsCut
  <2>4. <<>> \in Texts
    BY DEF Texts
  <2> QED BY <2>1, <2>3, <2>4 DEF a
<1>4. \A lim : \A u \in Seq(Nat), d \in Nat :
        SplittingIds(Append(u, d), sep, lim) = IdsAt(SplittingIds(u, sep, lim), d, sep, lim)
  BY SplittingIdsIs
<1>2. ASSUME NEW t \in Seq(Nat), NEW c \in Nat, t \in T PROVE Append(t, c) \in T
  <2>1. /\ SplittingIds(Append(t, c), sep, 0) = IdsAt(SplittingIds(t, sep, 0), c, sep, 0)
        /\ SplittingIds(Append(t, c), sep, limit) = IdsAt(SplittingIds(t, sep, limit), c, sep, limit)
    <3> HIDE DEF T
    <3> QED BY <1>4
  <2>2. Append(t, c) \in Texts /\ t \in Texts
    BY DEF Texts
  <2>3. IdsCut(IdsAt(SplittingIds(t, sep, 0), c, sep, 0),
               IdsAt(SplittingIds(t, sep, limit), c, sep, limit), limit, Append(t, c), sep)
    BY <1>2, <2>2, CutGrows
  <2> QED BY <2>1, <2>2, <2>3
<1>3. Seq(Nat) \subseteq T
  <2> HIDE DEF T
  <2> QED BY <1>1, <1>2, SeqInduction
<1> QED BY <1>3 DEF Texts

\* A limit cuts the ids short.
LEMMA FewIds ==
  ASSUME NEW s \in Texts, NEW sep, ~ IsDigit(sep), NEW limit \in Nat \ {0}
  PROVE  LET few == SplitStringIds(s, sep, limit)
             ids == SplitStringIds(s, sep, 0)
         IN  /\ IsPrefix(few, ids)
             /\ \/ Len(few) = Min({limit, Len(ids)})
                \/ Len(few) = limit + 1 /\ Last(s) = sep
<1> DEFINE few == SplitStringIds(s, sep, limit)
           ids == SplitStringIds(s, sep, 0)
           a == SplittingIds(s, sep, 0)
           b == SplittingIds(s, sep, limit)
<1>1. ids = (IF a.done THEN a.ids ELSE Append(a.ids, a.id))
      /\ few = IF b.done THEN b.ids ELSE Append(b.ids, b.id)
  BY DEF SplitStringIds, SplittingIds
<1>2. IdsCut(a, b, limit, s, sep)
  BY CutFollows
<1> HIDE DEF few, ids, a, b
<1>3. ids = Append(a.ids, a.id) /\ ids \in Seq(Nat) /\ Len(ids) = Len(a.ids) + 1 /\ Len(a.ids) \in Nat
  BY <1>1, <1>2 DEF IdsCut
<1>4. ASSUME NEW l \in Nat, NEW m \in Nat
      PROVE  (l <= m => Min({l, m}) = l) /\ (m <= l => Min({l, m}) = m)
  <2>1. Min({l, m}) \in {l, m} /\ \A k \in {l, m} : Min({l, m}) <= k
    <3>1. {l, m} \subseteq Nat /\ {l, m} # {}
      OBVIOUS
    <3> QED BY <3>1, MinIs
  <2> QED BY <2>1
<1>5. CASE b.done
  <2>1. few = b.ids /\ few \in Seq(Nat) /\ Len(few) = limit /\ limit <= Len(a.ids)
        /\ \A n \in 1 .. limit : few[n] = a.ids[n]
    BY <1>1, <1>2, <1>5 DEF IdsCut
  <2>2. \A n \in 1 .. limit : ids[n] = a.ids[n]
    BY <1>2, <1>3, <2>1 DEF IdsCut
  <2>3. SubSeq(few, 1, Len(few)) = SubSeq(ids, 1, Len(few))
    BY <1>3, <2>1, <2>2
  <2>4. Len(few) <= Len(ids) /\ limit <= Len(ids)
    BY <1>3, <2>1
  <2>5. Len(few) = Min({limit, Len(ids)})
    <3>1. Len(ids) \in Nat
      BY <1>3
    <3>2. Min({limit, Len(ids)}) = limit
      BY <1>4, <2>4, <3>1
    <3> QED BY <2>1, <3>2
  <2> QED BY <2>3, <2>4, <2>5 DEF IsPrefix, few, ids
<1>6. CASE ~ b.done
  <2>1. few = ids /\ Len(a.ids) <= limit /\ (Len(a.ids) = limit => s[Len(s)] = sep)
    BY <1>1, <1>2, <1>3, <1>6 DEF IdsCut
  <2>2. IsPrefix(few, ids)
    BY <1>3, <2>1 DEF IsPrefix
  <2>3. (Len(few) = limit + 1 /\ Last(s) = sep) \/ Len(ids) <= limit
    BY <1>3, <2>1 DEF Last
  <2>4. Len(ids) <= limit => Len(few) = Min({limit, Len(ids)})
    <3>1. Len(ids) \in Nat
      BY <1>3
    <3>2. Len(ids) <= limit => Min({limit, Len(ids)}) = Len(ids)
      BY <1>4, <3>1
    <3> QED BY <2>1, <3>2
  <2> QED BY <2>2, <2>3, <2>4 DEF few, ids
<1> QED BY <1>5, <1>6

-----------------------------------------------------------------------------
(* get_char_num, and the pairs of split_string_vec_pair_ids. *)

LEMMA CharsCounted ==
  ASSUME NEW s \in Texts, NEW sep
  PROVE  Len(SplitString(s, sep)) = GetCharNum(s, sep) + 1
<1> DEFINE At(t) == {n \in 1 .. Len(t) : t[n] = sep}
           T == {t \in Texts : Len(SplitString(t, sep)) = Cardinality(At(t)) + 1}
<1>1. ASSUME NEW t \in Texts PROVE IsFiniteSet(At(t)) /\ GetCharNum(t, sep) = Cardinality(At(t))
  <2>1. Len(t) \in Nat /\ DOMAIN t = 1 .. Len(t)
    BY DEF Texts
  <2>2. IsFiniteSet(1 .. Len(t))
    BY <2>1, FS_Interval
  <2> QED BY <2>1, <2>2, FS_Subset DEF GetCharNum
<1>2. <<>> \in T
  <2>1. At(<<>>) = {} /\ <<>> \in Texts
    BY DEF Texts
  <2>2. SplitString(<<>>, sep) = << <<>> >>
    BY SplitStringIs
  <2>3. Len(<< <<>> >>) = 1
    OBVIOUS
  <2>4. Cardinality({}) = 0
    BY FS_EmptySet
  <2> HIDE DEF At
  <2>5. Len(SplitString(<<>>, sep)) = Cardinality(At(<<>>)) + 1
    <3>1. Cardinality(At(<<>>)) = 0
      BY <2>1, <2>4
    <3>2. Len(SplitString(<<>>, sep)) = 0 + 1
      BY <2>2, <2>3
    <3> QED BY <3>1, <3>2, Zenon
  <2> QED BY <2>1, <2>5
<1>3. ASSUME NEW t \in Seq(Nat), NEW c \in Nat, t \in T PROVE Append(t, c) \in T
  <2> DEFINE u == Append(t, c)
             pieces == SplitString(t, sep)
             q == SplitString(u, sep)
  <2>1. pieces \in Pieces(Nat) /\ q = SplitAt(pieces, c, sep)
    BY SplitStringIs
  <2>2. Grown(q, pieces, c, sep)
    BY <2>1, OneMore
  <2>3. u \in Texts /\ t \in Texts /\ Len(u) = Len(t) + 1 /\ u[Len(u)] = c /\ Len(t) \in Nat
        /\ \A n \in 1 .. Len(t) : u[n] = t[n]
    BY DEF Texts
  <2>4. At(u) = IF c = sep THEN At(t) \cup {Len(u)} ELSE At(t)
    <3> HIDE DEF u
    <3> QED BY <2>3
  <2>5. Len(u) \notin At(t) /\ IsFiniteSet(At(t))
    BY <1>1, <2>3
  <2> HIDE DEF At, u, pieces, q
  <2>6. Cardinality(At(u)) = IF c = sep THEN Cardinality(At(t)) + 1 ELSE Cardinality(At(t))
    BY <2>4, <2>5, FS_AddElement
  <2>7. Len(pieces) = Cardinality(At(t)) + 1 /\ Cardinality(At(t)) \in Nat
    BY <1>3, <2>5, FS_CardinalityType DEF pieces
  <2>8. Len(q) = Cardinality(At(u)) + 1
    BY <2>2, <2>6, <2>7 DEF Grown
  <2> QED BY <2>3, <2>8 DEF q, u
<1>4. Seq(Nat) \subseteq T
  <2> HIDE DEF T
  <2> QED BY <1>2, <1>3, SeqInduction
<1> QED BY <1>1, <1>4 DEF Texts

PairsOfPieces(a, pieces, second) ==
  /\ a \in PairsS
  /\ Len(a.out) = Len(pieces) - 1 /\ a.now = NowOf(pieces[Len(pieces)], second)
  /\ \A n \in 1 .. Len(pieces) - 1 : a.out[n] = PairOf(NowOf(pieces[n], second))

LEMMA PairsGrow ==
  ASSUME NEW pieces \in Pieces(Nat), NEW c \in Nat, NEW sep, ~ IsDigit(sep), NEW second,
         NEW a, PairsOfPieces(a, pieces, second)
  PROVE  PairsOfPieces(PairsAt(a, c, sep, second), SplitAt(pieces, c, sep), second)
<1> DEFINE q == SplitAt(pieces, c, sep)
           b == PairsAt(a, c, sep, second)
           l == Len(pieces)
           N(p) == NowOf(p, second)
<1> SUFFICES PairsOfPieces(b, q, second)
  OBVIOUS
<1>1. Grown(q, pieces, c, sep)
  BY OneMore
<1>2. l \in Nat /\ l >= 1 /\ pieces[l] \in Texts
  BY DEF Pieces, Texts
<1>3. /\ a \in PairsS /\ Len(a.out) = l - 1 /\ a.now = N(pieces[l])
      /\ \A n \in 1 .. l - 1 : a.out[n] = PairOf(N(pieces[n]))
  BY DEF PairsOfPieces
<1>4. a.out \in Seq([id : Nat, number : Nat, places : Int]) /\ a.now \in Nows
  BY <1>3 DEF PairsS
<1>5. b \in PairsS
  BY <1>3, PairsAtIs
<1>6. N(<<>>) = FreshPair /\ N(Append(pieces[l], c)) = PairAt(N(pieces[l]), c, second)
  BY <1>2, NowOfIs DEF Texts
<1>7. PairOf(a.now) \in [id : Nat, number : Nat, places : Int]
  BY <1>4, PairOfIs
<1>8. c = sep => b = [out |-> Append(a.out, PairOf(a.now)), now |-> FreshPair]
  BY DEF PairsAt
<1>9. c # sep => b = [out |-> a.out, now |-> PairAt(a.now, c, second)]
  BY DEF PairsAt
<1> HIDE DEF q, b, N
<1>10. CASE c = sep
  <2>1. Len(q) = l + 1 /\ q[Len(q)] = <<>> /\ \A n \in 1 .. l : q[n] = pieces[n]
    BY <1>1, <1>10 DEF Grown
  <2>2. b.out = Append(a.out, PairOf(a.now)) /\ b.now = N(q[Len(q)])
    BY <1>6, <1>8, <1>10, <2>1
  <2>3. Len(b.out) = Len(q) - 1
    BY <1>3, <1>4, <2>1, <2>2
  <2>4. ASSUME NEW n \in 1 .. Len(q) - 1 PROVE b.out[n] = PairOf(N(q[n]))
    <3>1. q[n] = pieces[n] /\ n \in 1 .. l
      BY <1>2, <2>1
    <3>2. n = l \/ n \in 1 .. l - 1
      BY <1>2, <3>1
    <3>3. n = l => b.out[n] = PairOf(a.now)
      BY <1>3, <1>4, <1>7, <2>2
    <3>4. n # l => b.out[n] = a.out[n]
      BY <1>3, <1>4, <1>7, <2>2, <3>2
    <3> QED BY <1>3, <3>1, <3>2, <3>3, <3>4
  <2> QED BY <1>5, <2>2, <2>3, <2>4, Zenon DEF PairsOfPieces, N
<1>11. CASE c # sep
  <2>1. Len(q) = l /\ q[l] = Append(pieces[l], c) /\ \A n \in 1 .. l - 1 : q[n] = pieces[n]
    BY <1>1, <1>11 DEF Grown
  <2>2. b.out = a.out /\ b.now = N(q[Len(q)])
    BY <1>3, <1>6, <1>9, <1>11, <2>1
  <2>3. Len(b.out) = Len(q) - 1 /\ \A n \in 1 .. Len(q) - 1 : b.out[n] = PairOf(N(q[n]))
    BY <1>3, <2>1, <2>2
  <2> QED BY <1>5, <2>2, <2>3, Zenon DEF PairsOfPieces, N
<1> QED BY <1>10, <1>11

LEMMA PairsFollow ==
  ASSUME NEW s \in Texts, NEW sep, ~ IsDigit(sep), NEW second
  PROVE  PairsOfPieces(SplittingPairs(s, sep, second), SplitString(s, sep), second)
<1> DEFINE T == {t \in Texts :
                   PairsOfPieces(SplittingPairs(t, sep, second), SplitString(t, sep), second)}
<1>1. <<>> \in T
  <2> DEFINE a == [out |-> <<>>, now |-> FreshPair]
  <2>1. SplittingPairs(<<>>, sep, second) = a
    BY SplittingPairsIs
  <2>2. SplitString(<<>>, sep) = << <<>> >>
    BY SplitStringIs
  <2>3. <<>> \in Texts
    BY DEF Texts
  <2>4. a \in PairsS
    BY <2>1, <2>3, SplittingPairsIs DEF Texts
  <2>5. Len(a.out) = 0 /\ a.now = FreshPair
    OBVIOUS
  <2> HIDE DEF a
  <2>6. NowOf(<<>>, second) = FreshPair
    BY NowOfIs
  <2>7. PairsOfPieces(a, << <<>> >>, second)
    <3>1. Len(<< <<>> >>) = 1 /\ << <<>> >>[1] = <<>>
      OBVIOUS
    <3> QED BY <2>4, <2>5, <2>6, <3>1 DEF PairsOfPieces
  <2> QED BY <2>1, <2>2, <2>3, <2>7
<1>2. ASSUME NEW t \in Seq(Nat), NEW c \in Nat, t \in T PROVE Append(t, c) \in T
  <2>1. SplitString(t, sep) \in Pieces(Nat)
        /\ SplitString(Append(t, c), sep) = SplitAt(SplitString(t, sep), c, sep)
    BY SplitStringIs
  <2>2. SplittingPairs(Append(t, c), sep, second)
          = PairsAt(SplittingPairs(t, sep, second), c, sep, second)
    BY SplittingPairsIs
  <2>3. PairsOfPieces(PairsAt(SplittingPairs(t, sep, second), c, sep, second),
                      SplitAt(SplitString(t, sep), c, sep), second)
    BY <1>2, <2>1, PairsGrow
  <2>4. Append(t, c) \in Texts
    BY DEF Texts
  <2> QED BY <2>1, <2>2, <2>3, <2>4
<1>3. Seq(Nat) \subseteq T
  <2> HIDE DEF T
  <2> QED BY <1>1, <1>2, SeqInduction
<1> QED BY <1>3 DEF Texts

LEMMA PairsOfText ==
  ASSUME NEW s \in Texts, NEW sep, ~ IsDigit(sep), NEW second
  PROVE  SplitPairs(s, sep, second)
           = [n \in 1 .. Len(SplitString(s, sep)) |-> PairOf(NowOf(SplitString(s, sep)[n], second))]
<1> DEFINE end == SplittingPairs(s, sep, second)
           pieces == SplitString(s, sep)
           pairs == SplitPairs(s, sep, second)
           R == [id : Nat, number : Nat, places : Int]
<1>1. pairs = Append(end.out, PairOf(end.now))
  BY DEF SplitPairs, SplittingPairs
<1>2. PairsOfPieces(end, pieces, second)
  BY PairsFollow
<1>3. Len(pieces) \in Nat /\ Len(pieces) >= 1
  BY PieceFacts
<1> HIDE DEF end, pieces, pairs
<1>4. end.out \in Seq(R) /\ end.now \in Nows /\ Len(end.out) = Len(pieces) - 1
  BY <1>2 DEF PairsOfPieces, PairsS
<1>5. PairOf(end.now) \in R
  BY <1>4, PairOfIs
<1> HIDE DEF R
<1>6. pairs \in Seq(R) /\ Len(pairs) = Len(pieces)
  BY <1>1, <1>3, <1>4, <1>5
<1>7. ASSUME NEW n \in 1 .. Len(pieces) PROVE pairs[n] = PairOf(NowOf(pieces[n], second))
  <2>1. n = Len(pieces) => pairs[n] = PairOf(end.now)
    BY <1>1, <1>3, <1>4, <1>5
  <2>2. n # Len(pieces) => pairs[n] = end.out[n] /\ n \in 1 .. Len(pieces) - 1
    BY <1>1, <1>3, <1>4, <1>5
  <2> QED BY <1>2, <2>1, <2>2 DEF PairsOfPieces
<1>8. pairs = [n \in 1 .. Len(pieces) |-> PairOf(NowOf(pieces[n], second))]
  BY <1>6, <1>7
<1> QED BY <1>8 DEF pairs, pieces

-----------------------------------------------------------------------------
(* A pair's id is that of the first part of its piece, and its places are    *)
(* the digits behind the point of the second.                                *)

Behind(q) == Len(Digits(Last(SplitString(q, Dot))))

LEMMA BehindIs ==
  ASSUME NEW q \in Texts, NEW c \in Nat
  PROVE  /\ Behind(q) \in Nat
         /\ Behind(Append(q, c)) = IF c = Dot THEN 0
                                   ELSE IF IsDigit(c) THEN Behind(q) + 1 ELSE Behind(q)
<1> DEFINE parts == SplitString(q, Dot)
           more == SplitString(Append(q, c), Dot)
           l == Len(parts)
<1>1. parts \in Pieces(Nat) /\ more = SplitAt(parts, c, Dot)
  BY SplitStringIs DEF Texts
<1>2. Grown(more, parts, c, Dot)
  BY <1>1, OneMore
<1>3. l \in Nat /\ l >= 1 /\ parts[l] \in Texts
  BY <1>1 DEF Pieces, Texts
<1>4. Digits(parts[l]) \in Seq(Nat)
      /\ Digits(Append(parts[l], c)) = DigitAt(Digits(parts[l]), c) /\ Digits(<<>>) = <<>>
  BY <1>3, DigitsAre DEF Texts
<1>5. Behind(q) = Len(Digits(parts[l])) /\ Behind(Append(q, c)) = Len(Digits(more[Len(more)]))
  BY DEF Behind, Last
<1> HIDE DEF parts, more
<1>6. c = Dot => more[Len(more)] = <<>>
  BY <1>2 DEF Grown
<1>7. c # Dot => more[Len(more)] = Append(parts[l], c)
  BY <1>2 DEF Grown
<1> HIDE DEF l
<1>8. IsDigit(c) => Len(DigitAt(Digits(parts[l]), c)) = Len(Digits(parts[l])) + 1
  BY <1>4 DEF DigitAt
<1>9. ~ IsDigit(c) => Len(DigitAt(Digits(parts[l]), c)) = Len(Digits(parts[l]))
  BY <1>4 DEF DigitAt
<1>10. Len(Digits(parts[l])) \in Nat
  BY <1>4
<1>11. Len(<<>>) = 0
  OBVIOUS
<1>12. c = Dot => Behind(Append(q, c)) = 0
  BY <1>4, <1>5, <1>6, <1>11
<1>13. c # Dot => Behind(Append(q, c)) = Len(DigitAt(Digits(parts[l]), c))
  BY <1>4, <1>5, <1>7
<1> QED BY <1>5, <1>8, <1>9, <1>10, <1>12, <1>13

PairFits(now, parts) ==
  /\ now \in Nows /\ (now.score <=> Len(parts) > 1) /\ now.id = W(parts[1])
  /\ Len(parts) = 2 /\ Contains(parts[2], Dot) => now.places = Behind(parts[2])
  /\ Len(parts) = 1 => now.number = 0 /\ (~ Contains(parts[1], Dot) => now.places = -1)
  /\ Len(parts) = 2 => now.number = Decimal(Digits(parts[2]))
  /\ Len(parts) = 2 /\ ~ Contains(parts[1], Dot) /\ ~ Contains(parts[2], Dot)
       => now.places = Len(Digits(parts[2])) - 1

LEMMA ContainsMore ==
  ASSUME NEW q \in Texts, NEW c \in Nat
  PROVE  /\ Contains(Append(q, c), Dot) <=> Contains(q, Dot) \/ c = Dot
         /\ ~ Contains(<<>>, Dot)
<1> DEFINE u == Append(q, c)
<1>1. /\ Len(u) = Len(q) + 1 /\ Len(q) \in Nat /\ u[Len(q) + 1] = c
      /\ \A n \in 1 .. Len(q) : u[n] = q[n]
  BY DEF Texts
<1> HIDE DEF u
<1>2. 1 .. Len(u) = (1 .. Len(q)) \cup {Len(q) + 1}
  BY <1>1
<1>3. Contains(u, Dot) <=> Contains(q, Dot) \/ c = Dot
  BY <1>1, <1>2 DEF Contains
<1>4. ~ Contains(<<>>, Dot)
  BY DEF Contains
<1> QED BY <1>3, <1>4 DEF u

LEMMA PairGrows ==
  ASSUME NEW parts \in Pieces(Nat), NEW c \in Nat, NEW now, PairFits(now, parts)
  PROVE  PairFits(PairAt(now, c, Colon), SplitAt(parts, c, Colon))
<1> DEFINE q == SplitAt(parts, c, Colon)
           x == PairAt(now, c, Colon)
           l == Len(parts)
<1>1. Grown(q, parts, c, Colon)
  BY OneMore
<1>2. /\ l \in Nat /\ l >= 1 /\ q \in Pieces(Nat)
      /\ c = Colon => Len(q) = l + 1 /\ q[Len(q)] = <<>> /\ \A n \in 1 .. l : q[n] = parts[n]
      /\ c # Colon => /\ Len(q) = l /\ q[l] = Append(parts[l], c)
                      /\ \A n \in 1 .. l - 1 : q[n] = parts[n]
  BY <1>1 DEF Grown
<1>3. \A n \in 1 .. l : parts[n] \in Texts
  BY DEF Pieces, Texts
<1>4. /\ now \in Nows /\ (now.score <=> l > 1) /\ now.id = W(parts[1])
      /\ l = 2 /\ Contains(parts[2], Dot) => now.places = Behind(parts[2])
      /\ l = 1 => now.number = 0 /\ (~ Contains(parts[1], Dot) => now.places = -1)
      /\ l = 2 => now.number = Decimal(Digits(parts[2]))
      /\ l = 2 /\ ~ Contains(parts[1], Dot) /\ ~ Contains(parts[2], Dot)
           => now.places = Len(Digits(parts[2])) - 1
  BY DEF PairFits
<1>5. x \in Nows
  BY <1>4, PairAtIs
<1>6. /\ now.id \in Nat /\ now.places \in Int /\ now.number \in Nat
      /\ x.number = IF IsDigit(c) /\ now.score THEN now.number * 10 + c - 48 ELSE now.number
      /\ x.id = IF IsDigit(c) /\ ~ now.score THEN Shift(now.id, c) ELSE now.id
      /\ x.score <=> now.score \/ (~ IsDigit(c) /\ c # Dot /\ c = Colon)
      /\ x.places = IF IsDigit(c) THEN IF now.score THEN now.places + 1 ELSE now.places
                    ELSE IF c = Dot THEN 0 ELSE now.places
  BY <1>4 DEF PairAt, Nows
<1>7. ~ IsDigit(Colon) /\ ~ IsDigit(Dot) /\ Colon # Dot
  BY DEF IsDigit, Colon, Dot
<1> HIDE DEF q, x, l
<1> SUFFICES PairFits(x, q)
  BY DEF q, x
<1>8. CASE c = Colon
  <2>1. x.score /\ Len(q) > 1 /\ x.id = now.id /\ x.places = now.places
    BY <1>2, <1>6, <1>7, <1>8
  <2>2. q[1] = parts[1]
    BY <1>2, <1>8
  <2>3. Len(q) = 2 => q[2] = <<>>
    BY <1>2, <1>8
  <2>4. ~ Contains(<<>>, Dot)
    BY DEF Contains
  <2>5. Len(q) # 1 /\ x.number = now.number /\ (Len(q) = 2 => l = 1)
    BY <1>2, <1>6, <1>7, <1>8
  <2>6. Decimal(Digits(<<>>)) = 0 /\ Len(Digits(<<>>)) = 0
    BY DigitsAre, DecimalIs
  <2>7. Len(q) = 2 => x.number = Decimal(Digits(q[2]))
    BY <1>4, <2>3, <2>5, <2>6
  <2>8. Len(q) = 2 /\ ~ Contains(q[1], Dot) /\ ~ Contains(q[2], Dot)
          => x.places = Len(Digits(q[2])) - 1
    BY <1>4, <2>1, <2>2, <2>3, <2>5, <2>6
  <2> QED BY <1>4, <1>5, <2>1, <2>2, <2>3, <2>4, <2>5, <2>7, <2>8 DEF PairFits
<1>9. CASE c # Colon
  <2>1. x.score <=> Len(q) > 1
    BY <1>2, <1>4, <1>6, <1>9
  <2>2. x.id = W(q[1])
    <3>1. CASE l = 1
      <4>1. q[1] = Append(parts[1], c) /\ ~ now.score
        BY <1>2, <1>4, <1>9, <3>1
      <4>2. W(Append(parts[1], c)) = IF IsDigit(c) THEN Shift(W(parts[1]), c) ELSE W(parts[1])
        BY <1>2, <1>3, WIs
      <4> QED BY <1>4, <1>6, <4>1, <4>2
    <3>2. CASE l # 1
      BY <1>2, <1>4, <1>6, <1>9, <3>2, SMTT(20)
    <3> QED BY <3>1, <3>2
  <2>3. ASSUME Len(q) = 2, Contains(q[2], Dot) PROVE x.places = Behind(q[2])
    <3>1. l = 2 /\ q[2] = Append(parts[2], c) /\ parts[2] \in Texts
      BY <1>2, <1>3, <1>9, <2>3
    <3>2. now.score
      BY <1>4, <3>1
    <3>3. Behind(parts[2]) \in Nat
          /\ Behind(q[2]) = IF c = Dot THEN 0
                            ELSE IF IsDigit(c) THEN Behind(parts[2]) + 1 ELSE Behind(parts[2])
      BY <3>1, BehindIs
    <3>4. CASE c = Dot
      BY <1>6, <1>7, <3>3, <3>4
    <3>5. CASE c # Dot
      <4>1. Contains(parts[2], Dot)
        <5>1. PICK n \in 1 .. Len(q[2]) : q[2][n] = Dot
          BY <2>3 DEF Contains
        <5>2. n \in 1 .. Len(parts[2]) /\ parts[2][n] = Dot
          BY <3>1, <3>5, <5>1 DEF Texts
        <5> QED BY <5>2 DEF Contains
      <4>2. now.places = Behind(parts[2])
        BY <1>4, <3>1, <4>1
      <4> QED BY <1>6, <3>2, <3>3, <3>5, <4>2
    <3> QED BY <3>4, <3>5
  <2>4. ASSUME Len(q) = 1
        PROVE  x.number = 0 /\ (~ Contains(q[1], Dot) => x.places = -1)
    <3>1. l = 1 /\ q[1] = Append(parts[1], c) /\ ~ now.score /\ parts[1] \in Texts
      BY <1>2, <1>3, <1>4, <1>9, <2>4
    <3>2. Contains(q[1], Dot) <=> Contains(parts[1], Dot) \/ c = Dot
      BY <3>1, ContainsMore
    <3> QED BY <1>4, <1>6, <3>1, <3>2
  <2>5. ASSUME Len(q) = 2
        PROVE  /\ x.number = Decimal(Digits(q[2]))
               /\ ~ Contains(q[1], Dot) /\ ~ Contains(q[2], Dot)
                    => x.places = Len(Digits(q[2])) - 1
    <3>1. /\ l = 2 /\ q[2] = Append(parts[2], c) /\ q[1] = parts[1] /\ now.score
          /\ parts[2] \in Texts
      BY <1>2, <1>3, <1>4, <1>9, <2>5
    <3>2. Contains(q[2], Dot) <=> Contains(parts[2], Dot) \/ c = Dot
      BY <3>1, ContainsMore
    <3> DEFINE digits == Digits(parts[2])
    <3>3. digits \in Seq(Nat) /\ Digits(q[2]) = DigitAt(digits, c)
      BY <3>1, DigitsAre DEF Texts
    <3>4. now.number = Decimal(digits)
          /\ (~ Contains(q[1], Dot) /\ ~ Contains(parts[2], Dot) => now.places = Len(digits) - 1)
      BY <1>4, <3>1
    <3> HIDE DEF digits
    <3>5. CASE IsDigit(c)
      <4>1. Digits(q[2]) = Append(digits, c)
        BY <3>3, <3>5 DEF DigitAt
      <4>2. Decimal(Digits(q[2])) = Decimal(digits) * 10 + c - 48
        BY <3>3, <4>1, DecimalIs
      <4>3. Len(Digits(q[2])) = Len(digits) + 1 /\ Len(digits) \in Nat
        BY <3>3, <4>1
      <4>4. x.number = now.number * 10 + c - 48 /\ x.places = now.places + 1
        BY <1>6, <3>1, <3>5
      <4>5. x.number = Decimal(Digits(q[2]))
        BY <3>4, <4>2, <4>4
      <4>6. ~ Contains(q[1], Dot) /\ ~ Contains(q[2], Dot) => x.places = Len(Digits(q[2])) - 1
        BY <3>2, <3>4, <4>3, <4>4
      <4> QED BY <4>5, <4>6
    <3>6. CASE ~ IsDigit(c)
      <4>1. Digits(q[2]) = digits
        BY <3>3, <3>6 DEF DigitAt
      <4>2. x.number = now.number /\ (c # Dot => x.places = now.places)
        BY <1>6, <3>6
      <4> QED BY <3>2, <3>4, <4>1, <4>2
    <3> QED BY <3>5, <3>6
  <2> QED BY <1>5, <2>1, <2>2, <2>3, <2>4, <2>5 DEF PairFits
<1> QED BY <1>8, <1>9

LEMMA PairFollows ==
  ASSUME NEW p \in Texts
  PROVE  PairFits(NowOf(p, Colon), SplitString(p, Colon))
<1> DEFINE T == {t \in Texts : PairFits(NowOf(t, Colon), SplitString(t, Colon))}
<1>1. <<>> \in T
  <2>1. SplitString(<<>>, Colon) = << <<>> >> /\ <<>> \in Texts
    BY SplitStringIs DEF Texts
  <2>4. NowOf(<<>>, Colon) = FreshPair
    BY NowOfIs
  <2>2. Len(<< <<>> >>) = 1 /\ << <<>> >>[1] = <<>>
    OBVIOUS
  <2>5. ~ Contains(<<>>, Dot)
    BY DEF Contains
  <2>3. PairFits(FreshPair, << <<>> >>)
    BY <2>2, <2>5, WIs DEF PairFits, FreshPair, Nows
  <2> QED BY <2>1, <2>3, <2>4
<1>2. ASSUME NEW t \in Seq(Nat), NEW c \in Nat, t \in T PROVE Append(t, c) \in T
  <2>1. SplitString(t, Colon) \in Pieces(Nat)
        /\ SplitString(Append(t, c), Colon) = SplitAt(SplitString(t, Colon), c, Colon)
    BY SplitStringIs
  <2>2. NowOf(Append(t, c), Colon) = PairAt(NowOf(t, Colon), c, Colon)
    BY NowOfIs
  <2>3. PairFits(PairAt(NowOf(t, Colon), c, Colon), SplitAt(SplitString(t, Colon), c, Colon))
    BY <1>2, <2>1, PairGrows
  <2>4. Append(t, c) \in Texts
    BY DEF Texts
  <2> QED BY <2>1, <2>2, <2>3, <2>4
<1>3. Seq(Nat) \subseteq T
  <2> HIDE DEF T
  <2> QED BY <1>1, <1>2, SeqInduction
<1> QED BY <1>3 DEF Texts

-----------------------------------------------------------------------------
(* The keys of the maps are the first parts of the pieces. *)

LEMMA MapKeys ==
  ASSUME NEW q \in Seq(Texts), NEW second
  PROVE  DOMAIN MapOf(q, second, Len(q)) = {SplitString(q[n], second)[1] : n \in 1 .. Len(q)}
<1> DEFINE First(p) == SplitString(p, second)[1]
           T == {t \in Seq(Texts) :
                   DOMAIN MapOf(t, second, Len(t)) = {First(t[n]) : n \in 1 .. Len(t)}}
<1>1. <<>> \in T
  <2>1. <<>> \in Seq(Texts) /\ 1 .. Len(<<>>) = {}
    OBVIOUS
  <2>2. MapOf(<<>>, second, Len(<<>>)) = <<>>
    BY MapOfIs
  <2>3. DOMAIN <<>> = {}
    OBVIOUS
  <2> HIDE DEF First
  <2>4. {First(<<>>[n]) : n \in 1 .. Len(<<>>)} = {}
    BY <2>1
  <2> QED BY <2>1, <2>2, <2>3, <2>4
<1>2. ASSUME NEW t \in Seq(Texts), NEW p \in Texts, t \in T PROVE Append(t, p) \in T
  <2> DEFINE u == Append(t, p)
             m == MapOf(t, second, Len(t))
  <2>1. MapOf(u, second, Len(u)) = MapAt(m, p, second)
    BY MapOfIs
  <2>2. m \in Tables(Texts, Texts)
    BY MapOfIs
  <2>3. DOMAIN MapAt(m, p, second) = DOMAIN m \cup {First(p)}
    BY <2>2, MapAtIs
  <2>4. DOMAIN m = {First(t[n]) : n \in 1 .. Len(t)}
    BY <1>2
  <2>5. u \in Seq(Texts) /\ Len(u) = Len(t) + 1 /\ u[Len(u)] = p /\ Len(t) \in Nat
        /\ \A n \in 1 .. Len(t) : u[n] = t[n]
    OBVIOUS
  <2> HIDE DEF First, u, m
  <2>6. {First(u[n]) : n \in 1 .. Len(u)} = {First(t[n]) : n \in 1 .. Len(t)} \cup {First(p)}
    <3>1. 1 .. Len(u) = (1 .. Len(t)) \cup {Len(u)}
      BY <2>5
    <3> QED BY <2>5, <3>1
  <2>7. DOMAIN MapOf(u, second, Len(u)) = {First(u[n]) : n \in 1 .. Len(u)}
    BY <2>1, <2>3, <2>4, <2>6
  <2> QED BY <2>5, <2>7 DEF u
<1>3. Seq(Texts) \subseteq T
  <2> HIDE DEF T
  <2> QED BY <1>1, <1>2, SeqInduction
<1> QED BY <1>3

LEMMA MapVecKeys ==
  ASSUME NEW q \in Seq(Texts), NEW second
  PROVE  DOMAIN MapVecOf(q, second)
           = UNION {KeysOf(SplitString(q[n], second)) : n \in 1 .. Len(q)}
<1> DEFINE First(p) == KeysOf(SplitString(p, second))
           T == {t \in Seq(Texts) :
                   DOMAIN MapVecOf(t, second) = UNION {First(t[n]) : n \in 1 .. Len(t)}}
<1>1. <<>> \in T
  <2>1. <<>> \in Seq(Texts) /\ 1 .. Len(<<>>) = {}
    OBVIOUS
  <2>2. MapVecOf(<<>>, second) = <<>>
    BY MapVecOfIs
  <2>3. DOMAIN <<>> = {}
    OBVIOUS
  <2> HIDE DEF First
  <2>4. UNION {First(<<>>[n]) : n \in 1 .. Len(<<>>)} = {}
    BY <2>1
  <2> QED BY <2>1, <2>2, <2>3, <2>4
<1>2. ASSUME NEW t \in Seq(Texts), NEW p \in Texts, t \in T PROVE Append(t, p) \in T
  <2> DEFINE u == Append(t, p)
             m == MapVecOf(t, second)
  <2>1. MapVecOf(u, second) = MapVecAt(m, p, second)
    BY MapVecOfIs
  <2>2. m \in Tables(Int, Seq(Texts))
    BY MapVecOfIs
  <2>3. DOMAIN MapVecAt(m, p, second) = DOMAIN m \cup First(p)
    BY <2>2, MapVecAtIs
  <2>4. DOMAIN m = UNION {First(t[n]) : n \in 1 .. Len(t)}
    BY <1>2
  <2>5. u \in Seq(Texts) /\ Len(u) = Len(t) + 1 /\ u[Len(u)] = p /\ Len(t) \in Nat
        /\ \A n \in 1 .. Len(t) : u[n] = t[n]
    OBVIOUS
  <2> HIDE DEF First, u, m
  <2>6. UNION {First(u[n]) : n \in 1 .. Len(u)}
          = (UNION {First(t[n]) : n \in 1 .. Len(t)}) \cup First(p)
    <3>1. 1 .. Len(u) = (1 .. Len(t)) \cup {Len(u)}
      BY <2>5
    <3>2. {First(u[n]) : n \in 1 .. Len(u)} = {First(t[n]) : n \in 1 .. Len(t)} \cup {First(p)}
      BY <2>5, <3>1
    <3>3. ASSUME NEW A, NEW B PROVE UNION (A \cup {B}) = (UNION A) \cup B
      <4>1. ASSUME NEW x
            PROVE  x \in UNION (A \cup {B}) <=> x \in (UNION A) \cup B
        <5>1. x \in UNION (A \cup {B}) <=> \E X \in A \cup {B} : x \in X
          OBVIOUS
        <5>2. x \in UNION A <=> \E X \in A : x \in X
          OBVIOUS
        <5> QED BY <5>1, <5>2
      <4> QED BY <4>1
    <3> QED BY <3>2, <3>3, Zenon
  <2>7. DOMAIN MapVecOf(u, second) = UNION {First(u[n]) : n \in 1 .. Len(u)}
    <3>1. DOMAIN MapVecOf(u, second) = DOMAIN m \cup First(p)
      BY <2>1, <2>3
    <3> HIDE DEF MapVecOf
    <3>2. DOMAIN MapVecOf(u, second) = (UNION {First(t[n]) : n \in 1 .. Len(t)}) \cup First(p)
      BY <2>4, <3>1
    <3> QED BY <2>6, <3>2
  <2> QED BY <2>5, <2>7 DEF u
<1>3. Seq(Texts) \subseteq T
  <2> HIDE DEF T
  <2> QED BY <1>1, <1>2, SeqInduction
<1> QED BY <1>3

\* Each key keeps what the first piece with that key gave it.
PlanOf(parts) == <<parts[2], IF Len(parts) = 2 THEN <<49>> ELSE parts[3]>>
FirstKept(m, q, second) ==
  \A n \in 1 .. Len(q) :
    LET parts(k) == SplitString(q[k], second)
    IN  /\ Len(parts(n)) > 1
        /\ \A k \in 1 .. Len(q) : Len(parts(k)) > 1 /\ k < n => Atoi(parts(k)[1]) # Atoi(parts(n)[1])
        => m[Atoi(parts(n)[1])] = PlanOf(parts(n))

LEMMA MapVecKeeps ==
  ASSUME NEW q \in Seq(Texts), NEW second
  PROVE  FirstKept(MapVecOf(q, second), q, second)
<1> DEFINE Parts(p) == SplitString(p, second)
           T == {t \in Seq(Texts) : FirstKept(MapVecOf(t, second), t, second)}
<1>1. <<>> \in T
  <2>1. <<>> \in Seq(Texts) /\ 1 .. Len(<<>>) = {}
    OBVIOUS
  <2> QED BY <2>1 DEF FirstKept
<1>2. ASSUME NEW t \in Seq(Texts), NEW p \in Texts, t \in T PROVE Append(t, p) \in T
  <2> DEFINE u == Append(t, p)
             m == MapVecOf(t, second)
             new == MapVecOf(u, second)
             key == Atoi(Parts(p)[1])
  <2>1. new = MapVecAt(m, p, second)
    BY MapVecOfIs
  <2>2. Len(Parts(p)) \in Nat
    BY FirstPart
  <2>3. new = IF Len(Parts(p)) > 1 THEN MapInsert(m, key, PlanOf(Parts(p))) ELSE m
    <3> DEFINE parts == Parts(p)
    <3>1. new = IF Len(parts) < 2 THEN m
                ELSE MapInsert(m, key, <<parts[2], IF Len(parts) < 3 THEN <<49>> ELSE parts[3]>>)
      BY <2>1 DEF MapVecAt
    <3>2. Len(parts) \in Nat
      BY <2>2
    <3> HIDE DEF parts, new, m, key
    <3>3. /\ Len(parts) > 1 => (Len(parts) < 3 <=> Len(parts) = 2)
          /\ Len(parts) < 2 <=> ~ (Len(parts) > 1)
      <4>1. \A l \in Nat : (l > 1 => (l < 3 <=> l = 2)) /\ (l < 2 <=> ~ (l > 1))
        OBVIOUS
      <4> QED BY <3>2, <4>1, Zenon
    <3>5. new = IF Len(parts) > 1 THEN MapInsert(m, key, PlanOf(parts)) ELSE m
      BY <3>1, <3>3 DEF PlanOf
    <3> QED BY <3>5 DEF parts
  <2>4. DOMAIN m = UNION {KeysOf(Parts(t[n])) : n \in 1 .. Len(t)}
    BY MapVecKeys
  <2>5. u \in Seq(Texts) /\ Len(u) = Len(t) + 1 /\ u[Len(u)] = p /\ Len(t) \in Nat
        /\ \A n \in 1 .. Len(t) : u[n] = t[n]
    OBVIOUS
  <2>6. FirstKept(m, t, second)
    BY <1>2
  <2> HIDE DEF Parts, u, m, new, key
  <2>7. \A x \in DOMAIN m : new[x] = m[x]
    <3> DEFINE more == MapInsert(m, key, PlanOf(Parts(p)))
    <3>1. \A x \in DOMAIN m : more[x] = m[x]
      BY DEF MapInsert
    <3>2. new = more \/ new = m
      BY <2>3
    <3> HIDE DEF more
    <3> QED BY <3>1, <3>2
  <2> SUFFICES ASSUME NEW n \in 1 .. Len(u), Len(Parts(u[n])) > 1,
                      \A k \in 1 .. Len(u) : Len(Parts(u[k])) > 1 /\ k < n =>
                        Atoi(Parts(u[k])[1]) # Atoi(Parts(u[n])[1])
               PROVE  new[Atoi(Parts(u[n])[1])] = PlanOf(Parts(u[n]))
    BY <2>5 DEF FirstKept, Parts, u, new
  <2>8. CASE n \in 1 .. Len(t)
    <3>1. u[n] = t[n] /\ 1 .. Len(t) \subseteq 1 .. Len(u)
      BY <2>5, <2>8
    <3>2. \A k \in 1 .. Len(t) : Len(Parts(t[k])) > 1 /\ k < n =>
            Atoi(Parts(t[k])[1]) # Atoi(Parts(t[n])[1])
      BY <2>5, <3>1
    <3>3. m[Atoi(Parts(t[n])[1])] = PlanOf(Parts(t[n]))
      BY <2>6, <2>8, <3>1, <3>2 DEF FirstKept, Parts
    <3>4. Atoi(Parts(t[n])[1]) \in KeysOf(Parts(t[n]))
      BY <3>1 DEF KeysOf
    <3>5. Atoi(Parts(t[n])[1]) \in DOMAIN m
      BY <2>4, <2>8, <3>4
    <3> QED BY <2>7, <3>1, <3>3, <3>5
  <2>9. CASE n = Len(u)
    <3>1. u[n] = p /\ Len(Parts(p)) > 1
      BY <2>5, <2>9
    <3>2. key \notin DOMAIN m
      <4>1. SUFFICES ASSUME key \in DOMAIN m PROVE FALSE
        OBVIOUS
      <4>2. PICK k \in 1 .. Len(t) : key \in KeysOf(Parts(t[k]))
        BY <2>4, <4>1
      <4>3. Len(Parts(t[k])) > 1 /\ key = Atoi(Parts(t[k])[1])
        BY <4>2 DEF KeysOf
      <4>4. k \in 1 .. Len(u) /\ k < n /\ u[k] = t[k]
        BY <2>5, <2>9
      <4> QED BY <3>1, <4>3, <4>4 DEF key
    <3>3. new = MapInsert(m, key, PlanOf(Parts(p)))
      BY <2>3, <3>1
    <3>4. new[key] = PlanOf(Parts(p))
      BY <3>2, <3>3, TableKeeps
    <3> QED BY <3>1, <3>4 DEF key
  <2> QED BY <2>5, <2>8, <2>9
<1>3. Seq(Texts) \subseteq T
  <2> HIDE DEF T
  <2> QED BY <1>1, <1>2, SeqInduction
<1> QED BY <1>3

LEMMA MapStringKeys ==
  ASSUME NEW s \in Texts
  PROVE  DOMAIN SplitMapString(s, Comma, Colon, -1)
           = {SplitString(SplitString(s, Comma)[n], Colon)[1] : n \in 1 .. Len(SplitString(s, Comma))}
<1> DEFINE pieces == SplitString(s, Comma)
           taken == IF -1 = -1 \/ Len(pieces) <= -1 + 1 THEN Len(pieces) ELSE -1 + 1
<1>1. SplitMapString(s, Comma, Colon, -1) = MapOf(pieces, Colon, taken)
  BY DEF SplitMapString, MapOf
<1>2. taken = Len(pieces)
  OBVIOUS
<1>3. pieces \in Seq(Texts)
  BY PieceFacts
<1> HIDE DEF taken, pieces
<1>4. DOMAIN MapOf(pieces, Colon, Len(pieces))
        = {SplitString(pieces[n], Colon)[1] : n \in 1 .. Len(pieces)}
  BY <1>3, MapKeys
<1> QED BY <1>1, <1>2, <1>4 DEF pieces

LEMMA MapVecStringKeys ==
  ASSUME NEW s \in Texts
  PROVE  LET pieces == SplitString(s, Comma)
             parts(n) == SplitString(pieces[n], Colon)
         IN  DOMAIN SplitMapVecString(s, Comma, Colon)
               = {Atoi(parts(n)[1]) : n \in {m \in 1 .. Len(pieces) : Len(parts(m)) > 1}}
<1> DEFINE pieces == SplitString(s, Comma)
           parts(n) == SplitString(pieces[n], Colon)
<1>1. SplitMapVecString(s, Comma, Colon) = MapVecOf(pieces, Colon)
  BY DEF SplitMapVecString, MapVecOf
<1>2. pieces \in Seq(Texts)
  BY PieceFacts
<1>3. DOMAIN MapVecOf(pieces, Colon) = UNION {KeysOf(parts(n)) : n \in 1 .. Len(pieces)}
  <2> HIDE DEF pieces
  <2> QED BY <1>2, MapVecKeys
<1> HIDE DEF parts, pieces
<1>4. UNION {KeysOf(parts(n)) : n \in 1 .. Len(pieces)}
        = {Atoi(parts(n)[1]) : n \in {m \in 1 .. Len(pieces) : Len(parts(m)) > 1}}
  BY DEF KeysOf
<1> QED BY <1>1, <1>3, <1>4 DEF parts, pieces

-----------------------------------------------------------------------------
(* The theorem. *)

LEMMA InputText == InputOK => input \in Texts
<1>1. Bytes \subseteq Nat
  BY DEF Bytes
<1>2. Seq(Bytes) \subseteq Seq(Nat)
  BY <1>1, SeqMonotonic
<1> QED BY <1>2 DEF InputOK, Texts

LEMMA Agree == InputOK => PiecesAgree
<1> SUFFICES ASSUME input \in Texts PROVE PiecesAgree
  BY InputText
<1> DEFINE pieces == SplitString(input, Comma)
           parts(n) == SplitString(pieces[n], Colon)
           ids == SplitStringIds(input, Comma, 0)
           pairs == SplitPairs(input, Comma, Colon)
           plan == SplitMapVecString(input, Comma, Colon)
           planned == {n \in DOMAIN pieces : Len(parts(n)) > 1}
           key(n) == Atoi(parts(n)[1])
<1>1. ~ IsDigit(Comma)
  BY DEF IsDigit, Comma
<1>2. pieces \in Seq(Texts) /\ DOMAIN pieces = 1 .. Len(pieces) /\ Len(pieces) \in Nat
      /\ \A n \in 1 .. Len(pieces) : pieces[n] \in Texts
  BY PieceFacts
<1>3. ids = [n \in DOMAIN pieces |-> Wrapped(Digits(pieces[n]))]
  <2>1. ids = [n \in 1 .. Len(pieces) |-> W(pieces[n])]
    BY <1>1, IdsOfText
  <2> HIDE DEF pieces, ids
  <2> QED BY <1>2, <2>1 DEF W
<1>4. SplitStringSetIds(input, Comma, 0) = Range(ids)
  BY DEF SplitStringSetIds
<1>5. Len(pieces) = GetCharNum(input, Comma) + 1
  BY CharsCounted
<1>6. ASSUME NEW limit \in 1 .. MaxInput
      PROVE  LET few == SplitStringIds(input, Comma, limit)
             IN  /\ IsPrefix(few, ids)
                 /\ \/ Len(few) = Min({limit, Len(ids)})
                    \/ Len(few) = limit + 1 /\ Last(input) = Comma
  <2>1. limit \in Nat \ {0}
    OBVIOUS
  <2> QED BY <1>1, <2>1, FewIds
<1>7. pairs = [n \in 1 .. Len(pieces) |-> PairOf(NowOf(pieces[n], Colon))]
  BY <1>1, PairsOfText
<1>8. Len(pairs) = Len(pieces) /\ DOMAIN pairs = 1 .. Len(pieces)
  <2> HIDE DEF pieces, pairs
  <2> QED BY <1>2, <1>7
<1>9. ASSUME NEW n \in DOMAIN pairs
      PROVE  /\ pairs[n].id = Wrapped(Digits(parts(n)[1]))
             /\ Len(parts(n)) = 2 /\ Contains(parts(n)[2], Dot)
                  => pairs[n].places = Len(Digits(Last(SplitString(parts(n)[2], Dot))))
             /\ Len(parts(n)) = 2 => pairs[n].number = Decimal(Digits(parts(n)[2]))
             /\ Len(parts(n)) = 2 /\ ~ Contains(parts(n)[1], Dot) /\ ~ Contains(parts(n)[2], Dot)
                  => pairs[n].places = Max({0, Len(Digits(parts(n)[2])) - 1})
  <2> DEFINE now == NowOf(pieces[n], Colon)
  <2>1. pieces[n] \in Texts
    BY <1>2, <1>8
  <2>2. PairFits(now, parts(n))
    <3> HIDE DEF pieces
    <3> QED BY <2>1, PairFollows
  <2>3. pairs[n] = PairOf(now)
    BY <1>7, <1>8
  <2> HIDE DEF now, parts, pairs
  <2>4. pairs[n].id = W(parts(n)[1])
    BY <2>2, <2>3 DEF PairFits, PairOf
  <2>5. ASSUME Len(parts(n)) = 2, Contains(parts(n)[2], Dot)
        PROVE  pairs[n].places = Behind(parts(n)[2])
    <3>1. now.places = Behind(parts(n)[2])
      BY <2>2, <2>5 DEF PairFits
    <3>2. Behind(parts(n)[2]) \in Nat
      <4>1. parts(n) \in Seq(Texts)
        <5> HIDE DEF pieces
        <5> QED BY <2>1, PieceFacts DEF parts
      <4>2. parts(n)[2] \in Texts
        BY <2>5, <4>1
      <4> QED BY <4>2, BehindIs
    <3>3. now.places # -1
      BY <3>1, <3>2
    <3> QED BY <2>3, <3>1, <3>3 DEF PairOf
  <2>6. Len(parts(n)) = 2 => pairs[n].number = Decimal(Digits(parts(n)[2]))
    BY <2>2, <2>3 DEF PairFits, PairOf
  <2>7. ASSUME Len(parts(n)) = 2, ~ Contains(parts(n)[1], Dot), ~ Contains(parts(n)[2], Dot)
        PROVE  pairs[n].places = Max({0, Len(Digits(parts(n)[2])) - 1})
    <3> DEFINE k == Len(Digits(parts(n)[2]))
    <3>1. now.places = k - 1
      BY <2>2, <2>7 DEF PairFits
    <3>2. k \in Nat
      <4>1. parts(n) \in Seq(Texts)
        <5> HIDE DEF pieces
        <5> QED BY <2>1, PieceFacts DEF parts
      <4>2. parts(n)[2] \in Seq(Nat)
        <5>1. ASSUME NEW q \in Seq(Texts), Len(q) = 2 PROVE q[2] \in Texts
          <6>1. 2 \in 1 .. Len(q)
            BY <5>1
          <6> QED BY <6>1, ElementOfSeq
        <5> HIDE DEF parts
        <5> QED BY <2>7, <4>1, <5>1 DEF Texts
      <4>3. Digits(parts(n)[2]) \in Seq(Nat)
        BY <4>2, DigitsAre
      <4> QED BY <4>3
    <3> HIDE DEF k
    <3>3. Max({0, k - 1}) = IF 0 >= k - 1 THEN 0 ELSE k - 1
      <4>1. 0 \in Int /\ k - 1 \in Int
        BY <3>2
      <4> QED BY <4>1, OfTwo
    <3>4. pairs[n].places = Max({0, k - 1})
      BY <2>3, <3>1, <3>2, <3>3 DEF PairOf
    <3> QED BY <3>4 DEF k
  <2> QED BY <2>4, <2>5, <2>6, <2>7 DEF W, Behind
<1>10. DOMAIN SplitMapString(input, Comma, Colon, -1) = {parts(n)[1] : n \in DOMAIN pieces}
  BY <1>2, MapStringKeys
<1>11. DOMAIN plan = {key(n) : n \in planned}
  BY <1>2, MapVecStringKeys
<1>13. ASSUME NEW n \in planned
       PROVE  /\ (\A m \in planned : m < n => key(m) # key(n)) =>
                   plan[key(n)] = <<parts(n)[2], IF Len(parts(n)) = 2 THEN <<49>> ELSE parts(n)[3]>>
              /\ IsNumber(parts(n)[1]) /\ Decimal(Digits(parts(n)[1])) < IntWidth \div 2
                   => key(n) = NumberIn(parts(n)[1])
  <2>1. n \in 1 .. Len(pieces) /\ Len(parts(n)) > 1 /\ pieces[n] \in Texts
    BY <1>2
  <2>2. plan = MapVecOf(pieces, Colon)
    BY DEF SplitMapVecString, MapVecOf
  <2>3. FirstKept(MapVecOf(pieces, Colon), pieces, Colon)
    <3> HIDE DEF pieces
    <3> QED BY <1>2, MapVecKeeps
  <2>4. parts(n)[1] \in Seq(Nat)
    <3>1. parts(n) \in Seq(Texts) /\ Len(parts(n)) >= 1
      <4> HIDE DEF pieces
      <4> QED BY <2>1, FirstPart DEF parts
    <3> HIDE DEF parts
    <3> QED BY <3>1 DEF Texts
  <2>5. IsNumber(parts(n)[1]) /\ Decimal(Digits(parts(n)[1])) < IntWidth \div 2
          => key(n) = NumberIn(parts(n)[1])
    <3> HIDE DEF parts
    <3> QED BY <2>4, AtoiIs DEF key
  <2>6. ASSUME \A m \in planned : m < n => key(m) # key(n)
        PROVE  plan[key(n)] = PlanOf(parts(n))
    <3> HIDE DEF pieces, plan
    <3>1. \A m \in 1 .. Len(pieces) : Len(parts(m)) > 1 /\ m < n => key(m) # key(n)
      BY <1>2, <2>6 DEF planned
    <3>2. MapVecOf(pieces, Colon)[key(n)] = PlanOf(parts(n))
      BY <2>1, <2>3, <3>1 DEF FirstKept, parts, key
    <3> QED BY <2>2, <3>2
  <2> HIDE DEF planned, plan, key, parts
  <2> QED BY <2>5, <2>6 DEF PlanOf
<1> HIDE DEF pieces, parts, ids, pairs, plan, planned, key
<1>12. PiecesAgree <=>
         /\ ids = [n \in DOMAIN pieces |-> Wrapped(Digits(pieces[n]))]
         /\ SplitStringSetIds(input, Comma, 0) = Range(ids)
         /\ Len(pieces) = GetCharNum(input, Comma) + 1
         /\ \A limit \in 1 .. MaxInput :
              LET few == SplitStringIds(input, Comma, limit)
              IN  /\ IsPrefix(few, ids)
                  /\ \/ Len(few) = Min({limit, Len(ids)})
                     \/ Len(few) = limit + 1 /\ Last(input) = Comma
         /\ Len(pairs) = Len(pieces)
         /\ \A n \in DOMAIN pairs :
              /\ pairs[n].id = Wrapped(Digits(parts(n)[1]))
              /\ Len(parts(n)) = 2 /\ Contains(parts(n)[2], Dot)
                   => pairs[n].places = Len(Digits(Last(SplitString(parts(n)[2], Dot))))
              /\ Len(parts(n)) = 2 => pairs[n].number = Decimal(Digits(parts(n)[2]))
              /\ Len(parts(n)) = 2 /\ ~ Contains(parts(n)[1], Dot) /\ ~ Contains(parts(n)[2], Dot)
                   => pairs[n].places = Max({0, Len(Digits(parts(n)[2])) - 1})
         /\ DOMAIN SplitMapString(input, Comma, Colon, -1) = {parts(n)[1] : n \in DOMAIN pieces}
         /\ DOMAIN plan = {key(n) : n \in planned}
         /\ \A n \in planned :
              /\ (\A m \in planned : m < n => key(m) # key(n)) =>
                   plan[key(n)] = <<parts(n)[2], IF Len(parts(n)) = 2 THEN <<49>> ELSE parts(n)[3]>>
              /\ IsNumber(parts(n)[1]) /\ Decimal(Digits(parts(n)[1])) < IntWidth \div 2
                   => key(n) = NumberIn(parts(n)[1])
  BY DEF PiecesAgree, pieces, parts, ids, pairs, plan, planned, key
<1> QED BY <1>3, <1>4, <1>5, <1>6, <1>8, <1>9, <1>10, <1>11, <1>12, <1>13, Zenon

\* The functions that split a text agree on where it is to be split, for texts
\* of any length: split_string_ids has the numbers of the pieces, a limit cuts
\* it short, a pair has its own score's places, the maps the first parts of the
\* pieces, and each key of a plan is its own number, with its sign, and has the
\* rest of the first piece with that key (utility.h:46-234).
THEOREM SplittersAgree == Spec => []PiecesAgree
BY InputInit, InputStep, Agree, PTL DEF Spec

-----------------------------------------------------------------------------
(* What fgets leaves of a file whose lines fit in the buffer. *)

Short(pieces) == \A n \in 1 .. Len(pieces) : Len(pieces[n]) < BufLen - 1

\* The chunks are the pieces with their newlines; an empty last piece is none.
\* A piece does not end with a newline.
ChunksOf(chunks, pieces) ==
  /\ Len(chunks) = IF pieces[Len(pieces)] = <<>> THEN Len(pieces) - 1 ELSE Len(pieces)
  /\ \A n \in 1 .. Len(pieces) - 1 : chunks[n] = Append(pieces[n], Newline)
  /\ pieces[Len(pieces)] # <<>> =>
       /\ chunks[Len(pieces)] = pieces[Len(pieces)]
       /\ Last(pieces[Len(pieces)]) # Newline

LEMMA ShortBefore ==
  ASSUME NEW pieces \in Pieces(Nat), NEW q, NEW c \in Nat,
         Grown(q, pieces, c, Newline), Short(q)
  PROVE  Short(pieces)
<1> SUFFICES ASSUME NEW n \in 1 .. Len(pieces) PROVE Len(pieces[n]) < BufLen - 1
  BY DEF Short
<1>1. Len(pieces) \in Nat /\ pieces[n] \in Seq(Nat)
  BY DEF Pieces
<1>2. CASE c = Newline \/ n # Len(pieces)
  <2>1. q[n] = pieces[n] /\ n \in 1 .. Len(q)
    BY <1>1, <1>2 DEF Grown
  <2> QED BY <2>1 DEF Short
<1>3. CASE c # Newline /\ n = Len(pieces)
  <2>1. q[n] = Append(pieces[n], c) /\ n \in 1 .. Len(q)
    BY <1>1, <1>3 DEF Grown
  <2>2. Len(Append(pieces[n], c)) = Len(pieces[n]) + 1 /\ Len(pieces[n]) \in Nat
    BY <1>1
  <2>3. Len(q[n]) < BufLen - 1
    BY <2>1 DEF Short
  <2> QED BY <2>1, <2>2, <2>3, DataFilesAssumption
<1> QED BY <1>2, <1>3

LEMMA ChunkGrows ==
  ASSUME NEW pieces \in Pieces(Nat), NEW chunks \in Chunks, NEW c \in Nat,
         NEW q, Grown(q, pieces, c, Newline),
         Short(pieces), ChunksOf(chunks, pieces)
  PROVE  ChunksOf(FgetsAt(chunks, c), q)
<1> DEFINE l == Len(pieces)
           last == pieces[l]
           new == FgetsAt(chunks, c)
<1>1. l \in Nat /\ l >= 1 /\ last \in Seq(Nat) /\ l \in 1 .. l
  BY DEF Pieces
<1>2. chunks \in Seq(Texts \ {<<>>}) /\ Len(chunks) \in Nat
  BY DEF Chunks
<1>3. Len(last) < BufLen - 1
  BY <1>1 DEF Short
<1> DEFINE Seen == /\ Len(new) = l /\ new[l] = Append(last, c)
                       /\ \A n \in 1 .. l - 1 : new[n] = Append(pieces[n], Newline)
<1>4. ASSUME last = <<>> PROVE Seen
  <2>1. Len(chunks) = l - 1
    BY <1>4 DEF ChunksOf
  <2>2. chunks = <<>> \/ Last(Last(chunks)) = Newline
    <3>1. CASE l = 1
      BY <1>2, <2>1, <3>1
    <3>2. CASE l # 1
      <4>1. l - 1 \in 1 .. l - 1 /\ pieces[l - 1] \in Seq(Nat)
        <5>1. l - 1 \in 1 .. l - 1 /\ l - 1 \in 1 .. l
          <6>1. \A x \in Nat : x >= 1 /\ x # 1 => x - 1 \in 1 .. x - 1 /\ x - 1 \in 1 .. x
            OBVIOUS
          <6> HIDE DEF last
          <6> QED BY <1>1, <3>2, <6>1
        <5>2. pieces \in Seq(Seq(Nat))
          BY DEF Pieces
        <5> QED BY <5>1, <5>2
      <4>2. chunks[Len(chunks)] = Append(pieces[l - 1], Newline)
        BY <2>1, <4>1 DEF ChunksOf
      <4>3. Last(Append(pieces[l - 1], Newline)) = Newline
        BY <4>1 DEF Last
      <4> QED BY <4>2, <4>3 DEF Last
    <3> QED BY <3>1, <3>2
  <2>3. new = Append(chunks, <<c>>)
    BY <2>2 DEF FgetsAt
  <2> HIDE DEF new
  <2>4. Len(new) = l /\ new[l] = <<c>> /\ \A n \in 1 .. l - 1 : new[n] = chunks[n]
    BY <1>1, <1>2, <2>1, <2>3
  <2>5. \A n \in 1 .. l - 1 : new[n] = Append(pieces[n], Newline)
    BY <2>4 DEF ChunksOf
  <2>6. Append(last, c) = <<c>>
    BY <1>4
  <2> QED BY <2>4, <2>5, <2>6
<1>5. ASSUME last # <<>> PROVE Seen
  <2>1. Len(chunks) = l /\ chunks[l] = last /\ Last(last) # Newline
    BY <1>5 DEF ChunksOf
  <2>2. Last(chunks) = last
    BY <2>1 DEF Last
  <2>3. chunks # <<>> /\ Len(last) # BufLen - 1
    BY <1>1, <1>3, <2>1, DataFilesAssumption
  <2>4. new = [chunks EXCEPT ![l] = Append(chunks[l], c)]
    BY <2>1, <2>2, <2>3 DEF FgetsAt
  <2> HIDE DEF new
  <2>5. Len(new) = l /\ new[l] = Append(last, c) /\ \A n \in 1 .. l - 1 : new[n] = chunks[n]
    BY <1>1, <1>2, <2>1, <2>4
  <2>6. \A n \in 1 .. l - 1 : new[n] = Append(pieces[n], Newline)
    BY <2>5 DEF ChunksOf
  <2> QED BY <2>5, <2>6
<1>6. Seen
  BY <1>4, <1>5
<1> SUFFICES ChunksOf(new, q)
  OBVIOUS
<1> HIDE DEF new
<1>7. CASE c = Newline
  <2>1. Len(q) = l + 1 /\ q[Len(q)] = <<>> /\ \A n \in 1 .. l : q[n] = pieces[n]
    BY <1>7 DEF Grown
  <2>2. Len(new) = Len(q) - 1
    BY <1>1, <1>6, <2>1
  <2>3. ASSUME NEW n \in 1 .. Len(q) - 1 PROVE new[n] = Append(q[n], Newline)
    <3>1. n \in 1 .. l /\ (n = l \/ n \in 1 .. l - 1)
      BY <1>1, <2>1
    <3> QED BY <1>6, <1>7, <2>1, <3>1
  <2>4. Len(new) = IF q[Len(q)] = <<>> THEN Len(q) - 1 ELSE Len(q)
    BY <2>1, <2>2
  <2> HIDE DEF Seen
  <2> QED BY <2>1, <2>3, <2>4 DEF ChunksOf
<1>8. CASE c # Newline
  <2>1. Len(q) = l /\ q[l] = Append(last, c) /\ \A n \in 1 .. l - 1 : q[n] = pieces[n]
    BY <1>8 DEF Grown
  <2>2. Append(last, c) # <<>> /\ Last(Append(last, c)) = c
    <3>1. Len(Append(last, c)) = Len(last) + 1 /\ Append(last, c)[Len(last) + 1] = c
          /\ Len(last) \in Nat /\ Len(<<>>) = 0
      BY <1>1
    <3> QED BY <3>1 DEF Last
  <2>3. ASSUME NEW n \in 1 .. l - 1 PROVE new[n] = Append(q[n], Newline)
    BY <1>6, <2>1
  <2>4. Last(q[l]) # Newline /\ q[l] # <<>>
    BY <1>8, <2>1, <2>2
  <2>5. Len(new) = l /\ new[l] = q[l]
    BY <1>6, <2>1
  <2> HIDE DEF Seen, l
  <2> QED BY <2>1, <2>3, <2>4, <2>5 DEF ChunksOf
<1> QED BY <1>7, <1>8

LEMMA ChunksFollow ==
  ASSUME NEW s \in Texts, Short(SplitString(s, Newline))
  PROVE  ChunksOf(FgetsChunks(s), SplitString(s, Newline))
<1> DEFINE P(t) == SplitString(t, Newline)
           T == {t \in Texts : Short(P(t)) => ChunksOf(FgetsChunks(t), P(t))}
<1>1. <<>> \in T
  <2>1. P(<<>>) = << <<>> >> /\ FgetsChunks(<<>>) = <<>>
    BY SplitStringIs, FgetsChunksAre
  <2>2. Len(<< <<>> >>) = 1 /\ << <<>> >>[1] = <<>> /\ Len(<<>>) = 0
    OBVIOUS
  <2> HIDE DEF P
  <2>3. ChunksOf(<<>>, << <<>> >>)
    BY <2>2 DEF ChunksOf
  <2>4. <<>> \in Texts
    BY DEF Texts
  <2> QED BY <2>1, <2>3, <2>4
<1>2. ASSUME NEW t \in Seq(Nat), NEW c \in Nat, t \in T PROVE Append(t, c) \in T
  <2>1. P(t) \in Pieces(Nat) /\ P(Append(t, c)) = SplitAt(P(t), c, Newline)
    BY SplitStringIs
  <2>2. FgetsChunks(t) \in Chunks /\ FgetsChunks(Append(t, c)) = FgetsAt(FgetsChunks(t), c)
    BY FgetsChunksAre
  <2>3. Append(t, c) \in Texts
    BY DEF Texts
  <2> HIDE DEF P
  <2>4. Grown(P(Append(t, c)), P(t), c, Newline)
    BY <2>1, OneMore
  <2>5. ASSUME Short(P(Append(t, c)))
        PROVE  ChunksOf(FgetsChunks(Append(t, c)), P(Append(t, c)))
    <3>1. Short(P(t))
      BY <2>1, <2>4, <2>5, ShortBefore
    <3>2. ChunksOf(FgetsChunks(t), P(t))
      BY <1>2, <3>1
    <3>3. ChunksOf(FgetsAt(FgetsChunks(t), c), P(Append(t, c)))
      BY <2>1, <2>2, <2>4, <3>1, <3>2, ChunkGrows
    <3> QED BY <2>2, <3>3
  <2> QED BY <2>3, <2>5
<1>3. Seq(Nat) \subseteq T
  <2> HIDE DEF T
  <2> QED BY <1>1, <1>2, SeqInduction
<1> QED BY <1>3 DEF Texts

LEMMA SomethingRead ==
  ASSUME NEW s \in Texts, s # <<>>
  PROVE  FgetsChunks(s) # <<>>
<1> DEFINE T == {t \in Texts : t # <<>> => FgetsChunks(t) # <<>>}
<1>1. <<>> \in T
  BY DEF Texts
<1>2. ASSUME NEW t \in Seq(Nat), NEW c \in Nat, t \in T PROVE Append(t, c) \in T
  <2> DEFINE chunks == FgetsChunks(t)
  <2>1. chunks \in Chunks /\ FgetsChunks(Append(t, c)) = FgetsAt(chunks, c)
    BY FgetsChunksAre
  <2>2. Append(t, c) \in Texts
    BY DEF Texts
  <2> HIDE DEF chunks
  <2>3. chunks \in Seq(Texts \ {<<>>})
    BY <2>1 DEF Chunks
  <2>4. Append(chunks, <<c>>) # <<>>
    <3>1. <<c>> \in Texts \ {<<>>}
      BY DEF Texts
    <3> QED BY <2>3, <3>1, AppendProperties
  <2>5. chunks # <<>> => [chunks EXCEPT ![Len(chunks)] = Append(@, c)] # <<>>
    BY <2>3
  <2>6. FgetsAt(chunks, c) # <<>>
    BY <2>4, <2>5 DEF FgetsAt
  <2> QED BY <2>1, <2>2, <2>6
<1>3. Seq(Nat) \subseteq T
  <2> HIDE DEF T
  <2> QED BY <1>1, <1>2, SeqInduction
<1> QED BY <1>3 DEF Texts

\* A newline at the end of a line changes no number of it.
LEMMA NewlineKeeps ==
  ASSUME NEW line \in Texts
  PROVE  /\ Strtoull(Append(line, Newline)) = Strtoull(line)
         /\ SplitStringIds(Append(line, Newline), Comma, 0) = SplitStringIds(line, Comma, 0)
<1> DEFINE a == SplittingIds(line, Comma, 0)
           b == SplittingIds(Append(line, Newline), Comma, 0)
<1>1. /\ Newline \in Nat /\ ~ IsDigit(Newline) /\ Newline # Comma /\ IsSpace(Newline)
      /\ line \in Seq(Nat)
  BY DEF Newline, Comma, IsDigit, IsSpace, Texts
<1>2. Strtoull(Append(line, Newline)) = Strtoull(line)
  BY <1>1, StrtoullIs
<1>3. b = IdsAt(a, Newline, Comma, 0)
  BY <1>1, SplittingIdsIs
<1>4. SplitStringIds(line, Comma, 0) = IF a.done THEN a.ids ELSE Append(a.ids, a.id)
  BY DEF SplitStringIds, SplittingIds
<1>5. SplitStringIds(Append(line, Newline), Comma, 0)
        = IF b.done THEN b.ids ELSE Append(b.ids, b.id)
  BY DEF SplitStringIds, SplittingIds
<1> HIDE DEF a, b
<1>6. b = IF a.done THEN [ids |-> a.ids, id |-> a.id, done |-> TRUE] ELSE a
  BY <1>1, <1>3 DEF IdsAt
<1>7. a.done => b.done /\ b.ids = a.ids
  BY <1>6
<1>8. ~ a.done => b = a
  BY <1>6
<1>9. SplitStringIds(Append(line, Newline), Comma, 0) = SplitStringIds(line, Comma, 0)
  BY <1>4, <1>5, <1>7, <1>8
<1> QED BY <1>2, <1>9

\* What was read is the lines, with or without their newlines.
ReadAs(chunks, lines) ==
  /\ chunks \in Seq(Texts) /\ chunks # <<>>
  /\ lines \in Seq(Texts) /\ Len(chunks) = Len(lines)
  /\ \A n \in 1 .. Len(lines) : chunks[n] = lines[n] \/ chunks[n] = Append(lines[n], Newline)

LEMMA LinesRead ==
  ASSUME NEW s \in Texts, s # <<>>,
         \A n \in DOMAIN Lines(s) : Len(Lines(s)[n]) < BufLen - 1
  PROVE  ReadAs(FgetsChunks(s), Lines(s))
<1> DEFINE pieces == SplitString(s, Newline)
           chunks == FgetsChunks(s)
           lines == Lines(s)
           l == Len(pieces)
<1>1. pieces \in Seq(Texts) /\ l \in Nat /\ l >= 1 /\ \A n \in 1 .. l : pieces[n] \in Texts
  BY PieceFacts
<1>2. lines = IF pieces[l] = <<>> THEN SubSeq(pieces, 1, l - 1) ELSE pieces
  BY DEF Lines, Last, Front
<1>3. chunks # <<>>
  BY SomethingRead
<1>4. chunks \in Seq(Texts)
  <2>1. chunks \in Chunks
    BY FgetsChunksAre DEF Texts
  <2>2. Texts \ {<<>>} \subseteq Texts
    OBVIOUS
  <2> HIDE DEF chunks
  <2> QED BY <2>1, <2>2, SeqMonotonic DEF Chunks
<1> HIDE DEF lines
<1>5. lines \in Seq(Texts)
      /\ Len(lines) = IF pieces[l] = <<>> THEN l - 1 ELSE l
  <2> HIDE DEF pieces
  <2> QED BY <1>1, <1>2
<1>6. \A n \in 1 .. Len(lines) : n \in 1 .. l /\ lines[n] = pieces[n]
  <2> HIDE DEF pieces
  <2> QED BY <1>1, <1>2
<1>7. Short(pieces)
  <2>1. \A n \in 1 .. Len(lines) : Len(lines[n]) < BufLen - 1
    <3>1. DOMAIN lines = 1 .. Len(lines)
      BY <1>5
    <3> QED BY <3>1 DEF lines
  <2> SUFFICES ASSUME NEW n \in 1 .. l PROVE Len(pieces[n]) < BufLen - 1
    BY DEF Short
  <2> HIDE DEF pieces
  <2>2. CASE n \in 1 .. Len(lines)
    BY <1>6, <2>1, <2>2
  <2>3. CASE n \notin 1 .. Len(lines)
    <3>1. pieces[l] = <<>> /\ n = l
      BY <1>1, <1>5, <2>3
    <3>2. Len(pieces[n]) = 0
      BY <3>1
    <3> QED BY <3>2, DataFilesAssumption
  <2> QED BY <2>2, <2>3
<1>8. ChunksOf(chunks, pieces)
  BY <1>7, ChunksFollow
<1>9. Len(chunks) = Len(lines)
  BY <1>5, <1>8 DEF ChunksOf
<1> HIDE DEF pieces, chunks
<1>10. ASSUME NEW n \in 1 .. Len(lines)
       PROVE  chunks[n] = lines[n] \/ chunks[n] = Append(lines[n], Newline)
  <2>1. lines[n] = pieces[n] /\ n \in 1 .. l
    BY <1>6
  <2>2. CASE n \in 1 .. l - 1
    BY <1>8, <2>1, <2>2 DEF ChunksOf
  <2>3. CASE n \notin 1 .. l - 1
    <3>1. n = l /\ pieces[l] # <<>>
      BY <1>1, <1>5, <2>1, <2>3
    <3> QED BY <1>8, <2>1, <3>1 DEF ChunksOf
  <2> QED BY <2>2, <2>3
<1> QED BY <1>3, <1>4, <1>5, <1>9, <1>10 DEF ReadAs, chunks, lines

-----------------------------------------------------------------------------
(* The table of a file: of each id, the first value. *)

Kv(buf) == SplitStringIds(buf, Comma, 0)
HasValue(buf) == Len(Kv(buf)) > 1

TableFits(table, bufs) ==
  /\ \A x : x \in DOMAIN table <=> \E n \in 1 .. Len(bufs) : HasValue(bufs[n]) /\ x = Kv(bufs[n])[1]
  /\ \A n \in 1 .. Len(bufs) :
       HasValue(bufs[n])
       /\ (\A m \in 1 .. n - 1 : HasValue(bufs[m]) => Kv(bufs[m])[1] # Kv(bufs[n])[1])
         => table[Kv(bufs[n])[1]] = Kv(bufs[n])[2] % ValueWidth

LEMMA FitGrows ==
  ASSUME NEW table, NEW bufs \in Seq(Texts), NEW buf \in Texts, TableFits(table, bufs)
  PROVE  TableFits(KvAt(table, buf, Comma), Append(bufs, buf))
<1> DEFINE new == KvAt(table, buf, Comma)
           u == Append(bufs, buf)
           l == Len(bufs)
           v == Kv(buf)[2] % ValueWidth
<1> SUFFICES TableFits(new, u)
  OBVIOUS
<1>1. new = IF HasValue(buf) THEN MapInsert(table, Kv(buf)[1], v) ELSE table
  <2>1. Kv(buf) \in Seq(Nat)
    BY IdsAre DEF Kv
  <2>2. Len(Kv(buf)) < 2 <=> ~ HasValue(buf)
    BY <2>1 DEF HasValue
  <2> QED BY <2>2 DEF KvAt, Kv
<1>2. l \in Nat /\ Len(u) = l + 1 /\ u[l + 1] = buf /\ \A n \in 1 .. l : u[n] = bufs[n]
  OBVIOUS
<1> HIDE DEF new, u, l, v
<1>3. ASSUME NEW x
      PROVE  x \in DOMAIN new <=> \E n \in 1 .. Len(u) : HasValue(u[n]) /\ x = Kv(u[n])[1]
  <2>1. x \in DOMAIN new <=> x \in DOMAIN table \/ (HasValue(buf) /\ x = Kv(buf)[1])
    <3>1. CASE HasValue(buf)
      BY <1>1, <3>1 DEF MapInsert
    <3>2. CASE ~ HasValue(buf)
      BY <1>1, <3>2
    <3> QED BY <3>1, <3>2
  <2>2. x \in DOMAIN table <=> \E n \in 1 .. l : HasValue(bufs[n]) /\ x = Kv(bufs[n])[1]
    BY DEF TableFits, l
  <2>3. \A n : n \in 1 .. Len(u) <=> n \in 1 .. l \/ n = l + 1
    BY <1>2
  <2> QED BY <1>2, <2>1, <2>2, <2>3
<1>4. ASSUME NEW n \in 1 .. Len(u), HasValue(u[n]),
             \A m \in 1 .. n - 1 : HasValue(u[m]) => Kv(u[m])[1] # Kv(u[n])[1]
      PROVE  new[Kv(u[n])[1]] = Kv(u[n])[2] % ValueWidth
  <2>1. CASE n \in 1 .. l
    <3>1. u[n] = bufs[n] /\ \A m \in 1 .. n - 1 : u[m] = bufs[m]
      BY <1>2, <2>1
    <3>2. table[Kv(bufs[n])[1]] = Kv(bufs[n])[2] % ValueWidth
      BY <1>4, <2>1, <3>1 DEF TableFits, l
    <3>3. Kv(bufs[n])[1] \in DOMAIN table
      BY <1>4, <2>1, <3>1 DEF TableFits, l
    <3>4. new[Kv(bufs[n])[1]] = table[Kv(bufs[n])[1]]
      BY <1>1, <3>3 DEF MapInsert
    <3> QED BY <3>1, <3>2, <3>4
  <2>2. CASE n \notin 1 .. l
    <3>1. n = l + 1 /\ u[n] = buf /\ n - 1 = l
      BY <1>2, <2>2
    <3>2. Kv(buf)[1] \notin DOMAIN table
      <4>1. \A m \in 1 .. l : HasValue(bufs[m]) => Kv(bufs[m])[1] # Kv(buf)[1]
        BY <1>2, <1>4, <3>1
      <4> QED BY <4>1 DEF TableFits, l
    <3>3. new[Kv(buf)[1]] = v
      BY <1>1, <1>4, <3>1, <3>2 DEF MapInsert
    <3> QED BY <3>1, <3>3 DEF v
  <2> QED BY <2>1, <2>2
<1> QED BY <1>3, <1>4 DEF TableFits

LEMMA TableFollows ==
  ASSUME NEW bufs \in Seq(Texts)
  PROVE  TableFits(TableOf(bufs, Comma), bufs)
<1> DEFINE T == {t \in Seq(Texts) : TableFits(TableOf(t, Comma), t)}
<1>1. <<>> \in T
  <2>1. TableOf(<<>>, Comma) = <<>>
    BY TableOfIs
  <2>2. TableFits(<<>>, <<>>)
    <3>1. DOMAIN <<>> = {} /\ Len(<<>>) = 0 /\ 1 .. 0 = {}
      OBVIOUS
    <3> QED BY <3>1 DEF TableFits
  <2> QED BY <2>1, <2>2
<1>2. ASSUME NEW t \in Seq(Texts), NEW buf \in Texts, t \in T PROVE Append(t, buf) \in T
  <2>1. TableOf(Append(t, buf), Comma) = KvAt(TableOf(t, Comma), buf, Comma)
    BY TableOfIs
  <2>2. TableFits(TableOf(t, Comma), t)
    BY <1>2
  <2>3. TableFits(KvAt(TableOf(t, Comma), buf, Comma), Append(t, buf))
    BY <2>2, FitGrows
  <2>4. Append(t, buf) \in Seq(Texts)
    OBVIOUS
  <2> QED BY <2>1, <2>3, <2>4
<1>3. Seq(Texts) \subseteq T
  <2> HIDE DEF T
  <2> QED BY <1>1, <1>2, SeqInduction
<1> QED BY <1>3

\* To look at a line of the table again changes nothing.
LEMMA TwiceIsOnce ==
  ASSUME NEW bufs \in Seq(Texts), NEW n \in 1 .. Len(bufs)
  PROVE  TableOf(Append(bufs, bufs[n]), Comma) = TableOf(bufs, Comma)
<1> DEFINE table == TableOf(bufs, Comma)
           buf == bufs[n]
           key == Kv(buf)[1]
           v == Kv(buf)[2] % ValueWidth
<1>1. buf \in Texts
  OBVIOUS
<1>2. TableOf(Append(bufs, buf), Comma) = KvAt(table, buf, Comma)
  BY <1>1, TableOfIs
<1>3. KvAt(table, buf, Comma) = IF HasValue(buf) THEN MapInsert(table, key, v) ELSE table
  <2>1. Kv(buf) \in Seq(Nat)
    BY <1>1, IdsAre DEF Kv
  <2>2. Len(Kv(buf)) < 2 <=> ~ HasValue(buf)
    BY <2>1 DEF HasValue
  <2> QED BY <2>2 DEF KvAt, Kv
<1>4. HasValue(buf) => key \in DOMAIN table
  BY TableFollows DEF TableFits
<1>5. table \in Tables(Nat, Nat)
  BY TableOfIs
<1> HIDE DEF table, buf, v, key
<1>6. PICK D \in SUBSET Nat : table \in [D -> Nat]
  BY <1>5, TablesAre
<1>7. HasValue(buf) => MapInsert(table, key, v) = table
  <2>1. key \in D => MapInsert(table, key, v) = [x \in D |-> table[x]]
    BY <1>6 DEF MapInsert
  <2> QED BY <1>4, <1>6, <2>1
<1>8. KvAt(table, buf, Comma) = table
  BY <1>3, <1>7
<1> QED BY <1>2, <1>8 DEF table, buf

-----------------------------------------------------------------------------
(* The theorem about files. *)

ReadWhole(s) ==
  LET lines == Lines(s)
      ids(n) == SplitStringIds(lines[n], Comma, 0)
      table == KvLoaded(s, Unset, Comma)
      first(id) == Min({n \in DOMAIN lines : Len(ids(n)) > 1 /\ ids(n)[1] = id})
  IN  /\ KeysRead(s) = [n \in DOMAIN lines |-> Strtoull(lines[n])]
      /\ SetLoaded(s, Unset) = Range(KeysRead(s))
      /\ DOMAIN table = {ids(n)[1] : n \in {m \in DOMAIN lines : Len(ids(m)) > 1}}
      /\ \A id \in DOMAIN table : table[id] = ids(first(id))[2] % ValueWidth

LEMMA LoopsSeeLines ==
  ASSUME NEW s \in Texts, ReadAs(FgetsChunks(s), Lines(s))
  PROVE  /\ KeysRead(s) = [n \in DOMAIN Lines(s) |-> Strtoull(Lines(s)[n])]
         /\ SetLoaded(s, Unset) = Range(KeysRead(s))
         /\ KvLoaded(s, Unset, Comma) = TableOf(FgetsChunks(s), Comma)
<1> DEFINE chunks == FgetsChunks(s)
           lines == Lines(s)
           bufs == FeofLoop(s, Unset)
<1>1. /\ chunks \in Seq(Texts) /\ chunks # <<>>
      /\ lines \in Seq(Texts) /\ Len(chunks) = Len(lines)
      /\ \A n \in 1 .. Len(lines) : chunks[n] = lines[n] \/ chunks[n] = Append(lines[n], Newline)
  BY DEF ReadAs
<1>2. bufs = chunks \/ bufs = Append(chunks, chunks[Len(chunks)])
  BY <1>1 DEF FeofLoop, Last
<1>3. KeysRead(s) = [n \in DOMAIN chunks |-> Strtoull(chunks[n])]
  BY DEF KeysRead
<1>4. SetLoaded(s, Unset) = {Strtoull(buf) : buf \in Range(bufs)}
  BY DEF SetLoaded
<1>5. KvLoaded(s, Unset, Comma) = TableOf(bufs, Comma)
  BY DEF KvLoaded, TableOf
<1> HIDE DEF chunks, lines, bufs
<1>6. DOMAIN chunks = 1 .. Len(chunks) /\ DOMAIN lines = 1 .. Len(chunks)
      /\ Len(chunks) \in 1 .. Len(chunks)
  BY <1>1
<1>7. ASSUME NEW n \in 1 .. Len(chunks) PROVE Strtoull(chunks[n]) = Strtoull(lines[n])
  <2>1. lines[n] \in Texts
    BY <1>1
  <2>2. Strtoull(Append(lines[n], Newline)) = Strtoull(lines[n])
    BY <2>1, NewlineKeeps
  <2> QED BY <1>1, <2>2
<1>8. KeysRead(s) = [n \in DOMAIN lines |-> Strtoull(lines[n])]
  BY <1>3, <1>6, <1>7
<1>9. Range(bufs) = Range(chunks)
  <2>1. CASE bufs = Append(chunks, chunks[Len(chunks)])
    <3>1. DOMAIN bufs = 1 .. Len(chunks) + 1 /\ bufs[Len(chunks) + 1] = chunks[Len(chunks)]
          /\ \A n \in 1 .. Len(chunks) : bufs[n] = chunks[n]
      BY <1>1, <1>6, <2>1
    <3>2. \A n : n \in 1 .. Len(chunks) + 1 <=> n \in 1 .. Len(chunks) \/ n = Len(chunks) + 1
      BY <1>6
    <3> QED BY <1>6, <3>1, <3>2 DEF Range
  <2> QED BY <1>2, <2>1
<1>10. SetLoaded(s, Unset) = Range(KeysRead(s))
  <2>1. {Strtoull(buf) : buf \in Range(chunks)} = Range([n \in DOMAIN chunks |-> Strtoull(chunks[n])])
    BY DEF Range
  <2> QED BY <1>3, <1>4, <1>9, <2>1
<1>11. TableOf(bufs, Comma) = TableOf(chunks, Comma)
  <2>1. TableOf(Append(chunks, chunks[Len(chunks)]), Comma) = TableOf(chunks, Comma)
    BY <1>1, <1>6, TwiceIsOnce
  <2> QED BY <1>2, <2>1
<1>12. KvLoaded(s, Unset, Comma) = TableOf(chunks, Comma)
  BY <1>5, <1>11
<1> QED BY <1>8, <1>10, <1>12 DEF lines, chunks

LEMMA FilesAreRead ==
  ASSUME NEW s \in Texts, s # <<>>,
         \A n \in DOMAIN Lines(s) : Len(Lines(s)[n]) < BufLen - 1
  PROVE  ReadWhole(s)
<1> DEFINE chunks == FgetsChunks(s)
           lines == Lines(s)
           ids(n) == SplitStringIds(lines[n], Comma, 0)
           table == KvLoaded(s, Unset, Comma)
           Having(id) == {n \in DOMAIN lines : Len(ids(n)) > 1 /\ ids(n)[1] = id}
           first(id) == Min(Having(id))
<1>1. ReadAs(chunks, lines)
  BY LinesRead
<1>2. /\ KeysRead(s) = [n \in DOMAIN lines |-> Strtoull(lines[n])]
      /\ SetLoaded(s, Unset) = Range(KeysRead(s))
      /\ table = TableOf(chunks, Comma)
  BY <1>1, LoopsSeeLines
<1>3. TableFits(table, chunks)
  <2>1. chunks \in Seq(Texts)
    BY <1>1 DEF ReadAs
  <2> HIDE DEF chunks, table
  <2> QED BY <1>2, <2>1, TableFollows
<1> HIDE DEF table, chunks, lines
<1>4. Len(chunks) = Len(lines) /\ DOMAIN lines = 1 .. Len(lines) /\ Len(lines) \in Nat
  BY <1>1 DEF ReadAs
<1>5. ASSUME NEW n \in 1 .. Len(lines) PROVE Kv(chunks[n]) = ids(n)
  <2>1. lines[n] \in Texts /\ (chunks[n] = lines[n] \/ chunks[n] = Append(lines[n], Newline))
    BY <1>1 DEF ReadAs
  <2>2. SplitStringIds(Append(lines[n], Newline), Comma, 0) = SplitStringIds(lines[n], Comma, 0)
    BY <2>1, NewlineKeeps
  <2> QED BY <2>1, <2>2 DEF Kv
<1> HIDE DEF ids
<1>6. ASSUME NEW x
      PROVE  x \in DOMAIN table <=> \E n \in DOMAIN lines : Len(ids(n)) > 1 /\ ids(n)[1] = x
  <2>1. x \in DOMAIN table <=> \E n \in 1 .. Len(chunks) : HasValue(chunks[n]) /\ x = Kv(chunks[n])[1]
    BY <1>3 DEF TableFits
  <2> QED BY <1>4, <1>5, <2>1 DEF HasValue
<1>7. DOMAIN table = {ids(n)[1] : n \in {m \in DOMAIN lines : Len(ids(m)) > 1}}
  BY <1>6
<1>8. ASSUME NEW id \in DOMAIN table PROVE table[id] = ids(first(id))[2] % ValueWidth
  <2>1. Having(id) # {} /\ Having(id) \subseteq Nat
    BY <1>4, <1>6
  <2>2. \E m \in Having(id) : \A k \in Having(id) : m <= k
    <3> HIDE DEF Having
    <3> QED BY <2>1, Least
  <2>3. first(id) \in Having(id) /\ \A k \in Having(id) : first(id) <= k
    <3> HIDE DEF Having
    <3> QED BY <2>2 DEF Min
  <2> DEFINE m == first(id)
  <2> HIDE DEF m
  <2>4. m \in 1 .. Len(chunks) /\ HasValue(chunks[m]) /\ Kv(chunks[m]) = ids(m) /\ ids(m)[1] = id
    BY <1>4, <1>5, <2>3 DEF HasValue, m
  <2>5. ASSUME NEW k \in 1 .. m - 1, HasValue(chunks[k])
        PROVE  Kv(chunks[k])[1] # Kv(chunks[m])[1]
    <3>1. k \in 1 .. Len(lines) /\ Kv(chunks[k]) = ids(k) /\ ~ (m <= k)
      BY <1>4, <1>5, <2>4
    <3>2. k \notin Having(id)
      <4> HIDE DEF Having
      <4> QED BY <2>3, <3>1 DEF m
    <3>3. k \in DOMAIN lines /\ Len(ids(k)) > 1
      BY <1>4, <2>5, <3>1 DEF HasValue
    <3> QED BY <2>4, <3>1, <3>2, <3>3
  <2>6. table[Kv(chunks[m])[1]] = Kv(chunks[m])[2] % ValueWidth
    BY <1>3, <2>4, <2>5 DEF TableFits
  <2> QED BY <2>4, <2>6 DEF m
<1> QED BY <1>2, <1>7, <1>8 DEF ReadWhole, table, lines, ids

LEMMA WholeFiles == InputOK => FilesReadWhole
<1>1. ASSUME input \in Texts PROVE FilesReadWhole
  <2>1. FilesReadWhole <=>
          (input # <<>> /\ (\A n \in DOMAIN Lines(input) : Len(Lines(input)[n]) < BufLen - 1)
             => ReadWhole(input))
    BY DEF FilesReadWhole, ReadWhole
  <2> QED BY <1>1, <2>1, FilesAreRead
<1> QED BY <1>1, InputText

\* A data file of any length whose lines fit in the buffer is read whole: the
\* two loops see the numbers its lines begin with, the loop that waits for feof
\* although it looks at the last line twice, and a table has of each id the
\* first value (global_set_db_interface.h:37-60, global_kv_db_interface.h:53-80,
\* lab_common_main.cpp:187-202).
THEOREM FilesAreReadWhole == Spec => []FilesReadWhole
BY InputInit, InputStep, WholeFiles, PTL DEF Spec

-----------------------------------------------------------------------------
(* The bytes of a number. *)

LEMMA DivUnique ==
  ASSUME NEW m \in Nat \ {0}, NEW x \in Nat, NEW r \in 0 .. m - 1
  PROVE  (x * m + r) \div m = x /\ (x * m + r) % m = r
OBVIOUS

LEMMA Divided ==
  ASSUME NEW v \in Nat
  PROVE  v \div ByteSize \in Nat /\ v % ByteSize \in 0 .. ByteSize - 1
         /\ v = (v \div ByteSize) * ByteSize + (v % ByteSize)
<1>1. PICK q \in Int, r \in 0 .. ByteSize - 1 :
        q = v \div ByteSize /\ r = v % ByteSize /\ v = ByteSize * q + r
  BY TextAssumption
<1>2. q >= 0
  <2>1. SUFFICES ASSUME q <= -1 PROVE FALSE
    OBVIOUS
  <2>2. PICK y \in Nat : q = -1 - y
    BY <2>1
  <2>3. ByteSize * q = -ByteSize - ByteSize * y /\ ByteSize * y \in Nat
    BY <2>2, TextAssumption
  <2> QED BY <1>1, <2>3, TextAssumption
<1>3. ByteSize * q = q * ByteSize
  BY TextAssumption
<1>4. v = q * ByteSize + r /\ q \in Nat
  BY <1>1, <1>2, <1>3
<1> DEFINE d == v \div ByteSize
           e == v % ByteSize
<1>5. q = d /\ r = e
  BY <1>1
<1> HIDE DEF d, e
<1>6. d \in Nat /\ e \in 0 .. ByteSize - 1 /\ v = d * ByteSize + e
  BY <1>4, <1>5
<1> QED BY <1>6 DEF d, e

LEMMA Bounded ==
  ASSUME NEW m \in Nat, NEW x \in 0 .. m - 1, NEW b \in 0 .. ByteSize - 1
  PROVE  x * ByteSize + b \in 0 .. m * ByteSize - 1
<1>1. PICK y \in Nat : m = x + 1 + y
  OBVIOUS
<1>2. m * ByteSize = x * ByteSize + ByteSize + y * ByteSize
  BY <1>1, TextAssumption
<1>3. y * ByteSize \in Nat /\ x * ByteSize \in Nat
  BY TextAssumption
<1> QED BY <1>2, <1>3, TextAssumption

LEMMA Horner ==
  ASSUME NEW x \in Nat, NEW a \in Nat, NEW b \in Nat, NEW c \in Nat, NEW d \in Nat, NEW B \in Nat
  PROVE  x * (B * B * B * B) + (((a * B + b) * B + c) * B + d)
           = (((x * B + a) * B + b) * B + c) * B + d
OBVIOUS

Shifted(v, n) ==
  LET shifted[k \in 0 .. n] == IF k = 0 THEN v ELSE shifted[k - 1] \div ByteSize
  IN  shifted[n]

LEMMA ShiftedIs ==
  ASSUME NEW v \in Nat
  PROVE  /\ Shifted(v, 0) = v
         /\ \A n \in Nat : Shifted(v, n) \in Nat /\ Shifted(v, n + 1) = Shifted(v, n) \div ByteSize
<1> DEFINE G(n) == [x \in Nat \X (1 .. n) |-> x[1] \div ByteSize]
           After(k, n) == [i \in 0 .. n |-> IF i = 0 THEN v ELSE k[i - 1] \div ByteSize]
           Hist(n) == CHOOSE k : k = After(k, n)
<1>1. ASSUME NEW n \in Nat
      PROVE  History(Hist(n), Nat, v, G(n), n) /\ Shifted(v, n) = Hist(n)[n]
  <2>1. G(n) \in [Nat \X (1 .. n) -> Nat]
    BY Divided
  <2>2. \A x \in Nat, i \in 1 .. n : G(n)[<<x, i>>] = x \div ByteSize
    OBVIOUS
  <2> DEFINE g == G(n)
  <2> HIDE DEF G
  <2>3. PICK k : History(k, Nat, v, g, n)
    <3> HIDE DEF g
    <3> QED BY <2>1, SomeHistory DEF g
  <2>4. k = After(k, n)
    <3>1. ASSUME NEW i \in 0 .. n PROVE k[i] = After(k, n)[i]
      <4>1. CASE i = 0
        BY <2>3, <4>1 DEF History
      <4>2. CASE i # 0
        <5>1. i \in 1 .. n /\ i - 1 \in 0 .. n
          BY <4>2
        <5>2. k[i - 1] \in Nat /\ k[i] = g[<<k[i - 1], i>>]
          BY <2>3, <5>1 DEF History
        <5>3. k[i] = k[i - 1] \div ByteSize
          BY <2>2, <5>1, <5>2
        <5> QED BY <4>2, <5>3
      <4> QED BY <4>1, <4>2
    <3>2. k \in [0 .. n -> Nat]
      BY <2>3 DEF History
    <3> QED BY <3>1, <3>2
  <2>5. Hist(n) = After(Hist(n), n)
    <3> HIDE DEF After
    <3> QED BY <2>4
  <2> DEFINE h == Hist(n)
  <2>6. h[0] = v /\ \A i \in 1 .. n : h[i] = h[i - 1] \div ByteSize
    <3> HIDE DEF Hist
    <3> QED BY <2>5
  <2>7. DOMAIN h = 0 .. n /\ h = [i \in 0 .. n |-> h[i]]
    <3> HIDE DEF Hist
    <3> QED BY <2>5
  <2>8. Shifted(v, n) = h[n]
    BY DEF Shifted
  <2> HIDE DEF h, g
  <2>9. \A i \in 0 .. n : h[i] \in Nat
    <3> DEFINE T == {i \in 0 .. n : h[i] \in Nat}
    <3>1. 0 \in T
      BY <2>6
    <3>2. ASSUME NEW i \in 1 .. n, i - 1 \in T PROVE i \in T
      <4>1. h[i - 1] \in Nat /\ h[i] = h[i - 1] \div ByteSize
        BY <2>6, <3>2
      <4> QED BY <4>1, Divided
    <3> HIDE DEF T
    <3>3. \A i \in 0 .. n : i \in T
      BY <3>1, <3>2, Climb
    <3> QED BY <3>3 DEF T
  <2>11. h \in [0 .. n -> Nat]
    BY <2>7, <2>9
  <2>12. \A i \in 1 .. n : h[i] = g[<<h[i - 1], i>>]
    <3>1. \A i \in 1 .. n : i - 1 \in 0 .. n
      OBVIOUS
    <3> QED BY <2>2, <2>6, <2>9, <3>1 DEF g
  <2>13. History(h, Nat, v, g, n)
    BY <2>6, <2>11, <2>12 DEF History
  <2> QED BY <2>8, <2>13 DEF h, g
<1> HIDE DEF Hist
<1>2. Shifted(v, 0) = v
  BY <1>1 DEF History
<1>3. ASSUME NEW n \in Nat
      PROVE  Shifted(v, n) \in Nat /\ Shifted(v, n + 1) = Shifted(v, n) \div ByteSize
  <2> DEFINE a == Hist(n)
             b == Hist(n + 1)
  <2>1. n + 1 \in Nat /\ n \in 0 .. n /\ n + 1 \in 1 .. n + 1
    OBVIOUS
  <2>2. History(a, Nat, v, G(n), n) /\ Shifted(v, n) = a[n]
    BY <1>1
  <2>3. History(b, Nat, v, G(n + 1), n + 1) /\ Shifted(v, n + 1) = b[n + 1]
    BY <1>1, <2>1
  <2> HIDE DEF a, b
  <2>4. a[n] \in Nat
    BY <2>1, <2>2 DEF History
  <2>5. ASSUME NEW i \in 1 .. n + 1 PROVE b[i - 1] \in Nat /\ b[i] = b[i - 1] \div ByteSize
    <3>1. i - 1 \in 0 .. n + 1
      OBVIOUS
    <3>2. b[i - 1] \in Nat /\ b[i] = G(n + 1)[<<b[i - 1], i>>]
      <4> HIDE DEF G
      <4> QED BY <2>3, <3>1 DEF History
    <3> QED BY <3>2
  <2>6. \A i \in 1 .. n : b[i - 1] \in Nat => b[i] = G(n)[<<b[i - 1], i>>]
    BY <2>5
  <2>7. b[0] = v
    BY <2>3 DEF History
  <2>8. \A i \in 0 .. n : b[i] = a[i]
    <3> HIDE DEF G
    <3> QED BY <2>2, <2>6, <2>7, OneHistory
  <2>9. b[n + 1] = b[n] \div ByteSize
    BY <2>1, <2>5
  <2>10. b[n] = a[n]
    BY <2>1, <2>8
  <2> QED BY <2>2, <2>3, <2>4, <2>9, <2>10
<1> QED BY <1>2, <1>3

LEMMA ByteIs ==
  ASSUME NEW v, NEW n
  PROVE  ByteAt(v, n) = Shifted(v, n) % ByteSize
BY DEF ByteAt, Shifted

\* A number and its lowest digit, in one step.
LEMMA Peel ==
  ASSUME NEW x \in Nat, NEW b \in 0 .. ByteSize - 1, NEW v, v = x * ByteSize + b
  PROVE  v \div ByteSize = x /\ v % ByteSize = b /\ v \in Nat
<1>1. (x * ByteSize + b) \div ByteSize = x /\ (x * ByteSize + b) % ByteSize = b
  BY DivUnique, TextAssumption
<1>2. x * ByteSize + b \in Nat
  BY TextAssumption
<1> QED BY <1>1, <1>2

\* The last four digits of a number are d, and w is left when they are cut.
Four(v, q, d) ==
  /\ q \in Nat /\ v \in Nat /\ d \in [0 .. 3 -> 0 .. ByteSize - 1]
  /\ \A n \in 0 .. 3 : ByteAt(v, n) = d[n]
  /\ Shifted(v, 4) = q

LEMMA FourDigits ==
  ASSUME NEW q \in Nat, NEW d \in [0 .. 3 -> 0 .. ByteSize - 1], NEW v,
         v = (((q * ByteSize + d[3]) * ByteSize + d[2]) * ByteSize + d[1]) * ByteSize + d[0]
  PROVE  Four(v, q, d)
<1> DEFINE v1 == ((q * ByteSize + d[3]) * ByteSize + d[2]) * ByteSize + d[1]
           v2 == (q * ByteSize + d[3]) * ByteSize + d[2]
           v3 == q * ByteSize + d[3]
<1>1. d[0] \in 0 .. ByteSize - 1 /\ d[1] \in 0 .. ByteSize - 1
      /\ d[2] \in 0 .. ByteSize - 1 /\ d[3] \in 0 .. ByteSize - 1
  OBVIOUS
<1>2. v = v1 * ByteSize + d[0] /\ v1 = v2 * ByteSize + d[1] /\ v2 = v3 * ByteSize + d[2]
      /\ v3 = q * ByteSize + d[3]
  OBVIOUS
<1> HIDE DEF v1, v2, v3
<1>3. v3 \div ByteSize = q /\ v3 % ByteSize = d[3] /\ v3 \in Nat
  BY <1>1, <1>2, Peel
<1>4. v2 \div ByteSize = v3 /\ v2 % ByteSize = d[2] /\ v2 \in Nat
  BY <1>1, <1>2, <1>3, Peel
<1>5. v1 \div ByteSize = v2 /\ v1 % ByteSize = d[1] /\ v1 \in Nat
  BY <1>1, <1>2, <1>4, Peel
<1>6. v \div ByteSize = v1 /\ v % ByteSize = d[0] /\ v \in Nat
  BY <1>1, <1>2, <1>5, Peel
<1>7. Shifted(v, 0) = v
  BY <1>6, ShiftedIs
<1>8. \A n \in Nat : Shifted(v, n + 1) = Shifted(v, n) \div ByteSize
  BY <1>6, ShiftedIs
<1>9. Shifted(v, 1) = v1
  <2>1. Shifted(v, 0 + 1) = Shifted(v, 0) \div ByteSize
    BY <1>8
  <2> QED BY <1>6, <1>7, <2>1
<1>10. Shifted(v, 2) = v2
  <2>1. Shifted(v, 1 + 1) = Shifted(v, 1) \div ByteSize
    BY <1>8
  <2> QED BY <1>5, <1>9, <2>1
<1>11. Shifted(v, 3) = v3
  <2>1. Shifted(v, 2 + 1) = Shifted(v, 2) \div ByteSize
    BY <1>8
  <2> QED BY <1>4, <1>10, <2>1
<1>12. Shifted(v, 4) = q
  <2>1. Shifted(v, 3 + 1) = Shifted(v, 3) \div ByteSize
    BY <1>8
  <2> QED BY <1>3, <1>11, <2>1
<1>13. ByteAt(v, 0) = d[0] /\ ByteAt(v, 1) = d[1] /\ ByteAt(v, 2) = d[2] /\ ByteAt(v, 3) = d[3]
  BY <1>3, <1>4, <1>5, <1>6, <1>7, <1>9, <1>10, <1>11, ByteIs
<1>14. \A n \in 0 .. 3 : n = 0 \/ n = 1 \/ n = 2 \/ n = 3
  OBVIOUS
<1> QED BY <1>6, <1>12, <1>13, <1>14 DEF Four

WithBytes(q, d) ==
  (((q * ByteSize + d[3]) * ByteSize + d[2]) * ByteSize + d[1]) * ByteSize + d[0]

LEMMA SomeDigits ==
  ASSUME NEW v \in Nat
  PROVE  \E q \in Nat, d \in [0 .. 3 -> 0 .. ByteSize - 1] : v = WithBytes(q, d)
<1> DEFINE q1 == v \div ByteSize
           q2 == q1 \div ByteSize
           q3 == q2 \div ByteSize
           q4 == q3 \div ByteSize
           d0 == v % ByteSize
           d1 == q1 % ByteSize
           d2 == q2 % ByteSize
           d3 == q3 % ByteSize
<1>1. q1 \in Nat /\ d0 \in 0 .. ByteSize - 1 /\ v = q1 * ByteSize + d0
  BY Divided
<1> HIDE DEF q1, d0
<1>2. q2 \in Nat /\ d1 \in 0 .. ByteSize - 1 /\ q1 = q2 * ByteSize + d1
  BY <1>1, Divided
<1> HIDE DEF q2, d1
<1>3. q3 \in Nat /\ d2 \in 0 .. ByteSize - 1 /\ q2 = q3 * ByteSize + d2
  BY <1>2, Divided
<1> HIDE DEF q3, d2
<1>4. q4 \in Nat /\ d3 \in 0 .. ByteSize - 1 /\ q3 = q4 * ByteSize + d3
  BY <1>3, Divided
<1> HIDE DEF q4, d3
<1> DEFINE d == [n \in 0 .. 3 |-> IF n = 0 THEN d0 ELSE IF n = 1 THEN d1 ELSE IF n = 2 THEN d2 ELSE d3]
<1>5. d \in [0 .. 3 -> 0 .. ByteSize - 1]
  BY <1>1, <1>2, <1>3, <1>4
<1>6. d[0] = d0 /\ d[1] = d1 /\ d[2] = d2 /\ d[3] = d3
  OBVIOUS
<1> HIDE DEF d
<1>7. WithBytes(q4, d) = (((q4 * ByteSize + d3) * ByteSize + d2) * ByteSize + d1) * ByteSize + d0
  BY <1>6 DEF WithBytes
<1>8. v = WithBytes(q4, d)
  BY <1>1, <1>2, <1>3, <1>4, <1>7, Zenon
<1> QED BY <1>4, <1>5, <1>8

LEMMA WithBytesIs ==
  ASSUME NEW q \in Nat, NEW d \in [0 .. 3 -> 0 .. ByteSize - 1]
  PROVE  Four(WithBytes(q, d), q, d)
<1> DEFINE v == WithBytes(q, d)
<1>1. v = (((q * ByteSize + d[3]) * ByteSize + d[2]) * ByteSize + d[1]) * ByteSize + d[0]
  BY DEF WithBytes
<1> HIDE DEF v
<1>2. Four(v, q, d)
  BY <1>1, FourDigits
<1> QED BY <1>2 DEF v

\* The four bytes of w, and what stands above them.
LEMMA Halves ==
  ASSUME NEW q \in Nat, NEW d \in [0 .. 3 -> 0 .. ByteSize - 1]
  PROVE  /\ WithBytes(q, d) = q * FourBytes + WithBytes(0, d)
         /\ WithBytes(q, d) \div FourBytes = q
         /\ WithBytes(q, d) % FourBytes = WithBytes(0, d)
<1> DEFINE B == ByteSize
           w == WithBytes(0, d)
           v == WithBytes(q, d)
           F == B * B * B * B
<1>1. d[0] \in 0 .. B - 1 /\ d[1] \in 0 .. B - 1 /\ d[2] \in 0 .. B - 1 /\ d[3] \in 0 .. B - 1
  OBVIOUS
<1>2. B \in Nat \ {0} /\ 1 \in Nat /\ 0 \in 0 .. 1 - 1
  BY TextAssumption
<1>3. w = (((0 * B + d[3]) * B + d[2]) * B + d[1]) * B + d[0]
  BY DEF WithBytes
<1>4. v = (((q * B + d[3]) * B + d[2]) * B + d[1]) * B + d[0]
  BY DEF WithBytes
<1>5. 0 * B + d[3] = d[3]
  BY <1>1, <1>2
<1> HIDE DEF v, w
<1>6. w = ((d[3] * B + d[2]) * B + d[1]) * B + d[0]
  BY <1>3, <1>5
<1>7. v = q * F + w
  <2>1. d[0] \in Nat /\ d[1] \in Nat /\ d[2] \in Nat /\ d[3] \in Nat
    BY <1>1, <1>2
  <2>2. q * F + (((d[3] * B + d[2]) * B + d[1]) * B + d[0]) = v
    BY <1>2, <1>4, <2>1, Horner
  <2> QED BY <1>6, <2>2
<1>8. w \in 0 .. F - 1
  <2> DEFINE w2 == d[3] * B + d[2]
             w1 == w2 * B + d[1]
             F2 == B * B
             F3 == F2 * B
  <2>1. w2 \in 0 .. F2 - 1 /\ F2 \in Nat
    <3>1. B \in Nat /\ B * B \in Nat
      BY <1>2
    <3> QED BY <1>1, <3>1, Bounded
  <2> HIDE DEF w2, F2
  <2>2. w1 \in 0 .. F3 - 1 /\ F3 \in Nat
    <3>1. F2 * B \in Nat
      BY <1>2, <2>1
    <3> QED BY <1>1, <2>1, <3>1, Bounded
  <2> HIDE DEF w1, F3
  <2>3. w1 * B + d[0] \in 0 .. F3 * B - 1
    BY <1>1, <2>2, Bounded
  <2>4. w = w1 * B + d[0] /\ F = F3 * B
    BY <1>6 DEF w1, w2, F3, F2
  <2> HIDE DEF F
  <2> QED BY <2>3, <2>4
<1>9. F \in Nat \ {0}
  <2>1. F \in Nat
    BY <1>2
  <2> HIDE DEF F
  <2> QED BY <1>8, <2>1
<1>10. F = FourBytes
  BY DEF FourBytes
<1> HIDE DEF F, B
<1>11. v \div F = q /\ v % F = w
  BY <1>7, <1>8, <1>9, DivUnique
<1> QED BY <1>7, <1>10, <1>11 DEF v, w

Turned(d) == [n \in 0 .. 3 |-> d[3 - n]]

LEMMA TransformedIs ==
  ASSUME NEW q, NEW v, NEW d \in [0 .. 3 -> 0 .. ByteSize - 1], Four(v, q, d)
  PROVE  TransformatUInt32(v) = WithBytes(0, Turned(d)) /\ Turned(d) \in [0 .. 3 -> 0 .. ByteSize - 1]
<1> DEFINE t == Turned(d)
<1>1. t \in [0 .. 3 -> 0 .. ByteSize - 1] /\ t[0] = d[3] /\ t[1] = d[2] /\ t[2] = d[1] /\ t[3] = d[0]
  BY DEF Turned
<1>2. ByteAt(v, 0) = d[0] /\ ByteAt(v, 1) = d[1] /\ ByteAt(v, 2) = d[2] /\ ByteAt(v, 3) = d[3]
  BY DEF Four
<1> HIDE DEF t
<1>3. TransformatUInt32(v) = ((d[0] * ByteSize + d[1]) * ByteSize + d[2]) * ByteSize + d[3]
  BY <1>2 DEF TransformatUInt32
<1>4. 0 * ByteSize + d[0] = d[0]
  <2>1. d[0] \in 0 .. ByteSize - 1
    OBVIOUS
  <2> QED BY <2>1, TextAssumption
<1>5. WithBytes(0, t) = (((0 * ByteSize + d[0]) * ByteSize + d[1]) * ByteSize + d[2]) * ByteSize + d[3]
  BY <1>1 DEF WithBytes
<1> QED BY <1>1, <1>3, <1>4, <1>5 DEF t

LEMMA UpperBytes ==
  ASSUME NEW v \in Nat, NEW n \in 0 .. 3
  PROVE  ByteAt(v, 4 + n) = ByteAt(Shifted(v, 4), n)
<1> DEFINE u == Shifted(v, 4)
<1>1. u \in Nat
  BY ShiftedIs
<1>2. \A m \in Nat : Shifted(v, m + 1) = Shifted(v, m) \div ByteSize
  BY ShiftedIs
<1> HIDE DEF u
<1>3. Shifted(u, 0) = u /\ \A m \in Nat : Shifted(u, m + 1) = Shifted(u, m) \div ByteSize
  BY <1>1, ShiftedIs
<1> DEFINE T == {m \in 0 .. 3 : Shifted(v, 4 + m) = Shifted(u, m)}
<1>4. 0 \in T
  <2>1. 4 + 0 = 4
    OBVIOUS
  <2> QED BY <1>3, <2>1 DEF u
<1>5. ASSUME NEW m \in 1 .. 3, m - 1 \in T PROVE m \in T
  <2>1. Shifted(v, 4 + (m - 1)) = Shifted(u, m - 1)
    BY <1>5
  <2>2. 4 + (m - 1) \in Nat /\ m - 1 \in Nat /\ (4 + (m - 1)) + 1 = 4 + m /\ (m - 1) + 1 = m
    OBVIOUS
  <2>3. Shifted(v, (4 + (m - 1)) + 1) = Shifted(v, 4 + (m - 1)) \div ByteSize
    BY <1>2, <2>2
  <2>4. Shifted(u, (m - 1) + 1) = Shifted(u, m - 1) \div ByteSize
    BY <1>3, <2>2
  <2> QED BY <2>1, <2>2, <2>3, <2>4
<1> HIDE DEF T
<1>6. \A m \in 0 .. 3 : m \in T
  BY <1>4, <1>5, Climb
<1>7. Shifted(v, 4 + n) = Shifted(u, n)
  BY <1>6 DEF T
<1> QED BY <1>7, ByteIs DEF u

\* transformatUInt64 reverses the bytes of every number.
LEMMA BytesReverse ==
  ASSUME NEW v \in Nat, NEW n \in 0 .. 7
  PROVE  ByteAt(TransformatUInt64(v), n) = ByteAt(v, 7 - n)
<1> DEFINE D == [0 .. 3 -> 0 .. ByteSize - 1]
<1>1. PICK q \in Nat, d \in D : v = WithBytes(q, d)
  BY SomeDigits
<1>2. PICK p \in Nat, e \in D : q = WithBytes(p, e)
  BY SomeDigits
<1> DEFINE w == WithBytes(0, d)
           x == TransformatUInt32(w)
           y == TransformatUInt32(q)
           t == TransformatUInt64(v)
<1>3. v % FourBytes = w /\ v \div FourBytes = q
  BY <1>1, Halves
<1>4. t = x * FourBytes + y
  BY <1>3 DEF TransformatUInt64
<1>5. Four(v, q, d) /\ Four(w, 0, d) /\ Four(q, p, e)
  <2>1. Four(WithBytes(q, d), q, d)
    BY WithBytesIs
  <2>2. Four(WithBytes(0, d), 0, d)
    BY WithBytesIs
  <2>3. Four(WithBytes(p, e), p, e)
    BY WithBytesIs
  <2> QED BY <1>1, <1>2, <2>1, <2>2, <2>3
<1> HIDE DEF w, D
<1>6. x = WithBytes(0, Turned(d)) /\ Turned(d) \in D
  BY <1>5, TransformedIs DEF D
<1>7. y = WithBytes(0, Turned(e)) /\ Turned(e) \in D
  BY <1>5, TransformedIs DEF D
<1> HIDE DEF x, y, t
<1>8. Four(x, 0, Turned(d))
  BY <1>6, WithBytesIs DEF D
<1>9. x \in Nat
  BY <1>8 DEF Four
<1>10. t = WithBytes(x, Turned(e))
  <2>1. WithBytes(x, Turned(e)) = x * FourBytes + WithBytes(0, Turned(e))
    BY <1>7, <1>9, Halves DEF D
  <2> QED BY <1>4, <1>7, <2>1
<1>11. Four(t, x, Turned(e))
  BY <1>7, <1>9, <1>10, WithBytesIs DEF D
<1>12. CASE n \in 0 .. 3
  <2>1. 3 - n \in 0 .. 3 /\ 4 + (3 - n) = 7 - n
    BY <1>12
  <2>2. ByteAt(t, n) = Turned(e)[n]
    BY <1>11, <1>12 DEF Four
  <2>3. Turned(e)[n] = e[3 - n]
    BY <1>12 DEF Turned
  <2>4. ByteAt(q, 3 - n) = e[3 - n]
    BY <1>5, <2>1 DEF Four
  <2>5. ByteAt(v, 4 + (3 - n)) = ByteAt(Shifted(v, 4), 3 - n)
    BY <2>1, UpperBytes
  <2>6. Shifted(v, 4) = q
    BY <1>5 DEF Four
  <2>7. ByteAt(t, n) = ByteAt(v, 7 - n)
    BY <2>1, <2>2, <2>3, <2>4, <2>5, <2>6
  <2> QED BY <2>7 DEF t
<1>13. CASE n \in 4 .. 7
  <2> DEFINE m == n - 4
  <2>1. m \in 0 .. 3 /\ 4 + m = n /\ 3 - m = 7 - n /\ 7 - n \in 0 .. 3
    BY <1>13
  <2> HIDE DEF m
  <2>2. t \in Nat /\ Shifted(t, 4) = x
    BY <1>11 DEF Four
  <2>3. ByteAt(t, 4 + m) = ByteAt(Shifted(t, 4), m)
    BY <2>1, <2>2, UpperBytes
  <2>4. ByteAt(x, m) = Turned(d)[m]
    BY <1>8, <2>1 DEF Four
  <2>5. Turned(d)[m] = d[3 - m]
    BY <2>1 DEF Turned
  <2>6. ByteAt(v, 7 - n) = d[7 - n]
    BY <1>5, <2>1 DEF Four
  <2>7. ByteAt(t, n) = ByteAt(v, 7 - n)
    BY <2>1, <2>2, <2>3, <2>4, <2>5, <2>6
  <2> QED BY <2>7 DEF t
<1>14. n \in 0 .. 3 \/ n \in 4 .. 7
  OBVIOUS
<1> QED BY <1>12, <1>13, <1>14

-----------------------------------------------------------------------------
(* What strstr_k finds. *)

\* sub stands in s up to e, and there s ends or has the character last.
StandsAt(s, sub, last, e) ==
  /\ e \in 1 .. Len(s) /\ Len(sub) <= e
  /\ \A k \in 1 .. Len(sub) : s[e - Len(sub) + k] = sub[k]
  /\ e = Len(s) \/ s[e + 1] = last

\* The search after the character n.
Sought(a, n, s, sub, last) ==
  /\ a \in [at : 0 .. Len(sub), found : BOOLEAN]
  /\ a.at < Len(sub) =>
       ~ a.found /\ a.at <= n /\ \A k \in 1 .. a.at : s[n - a.at + k] = sub[k]
  /\ a.found => \E e : StandsAt(s, sub, last, e)

LEMMA SearchStep ==
  ASSUME NEW s \in Texts, NEW sub \in Texts, NEW last, NEW n \in 1 .. Len(s), NEW a,
         Sought(a, n - 1, s, sub, last)
  PROVE  Sought(SearchAt(a, n, s, sub, last), n, s, sub, last)
<1> DEFINE b == SearchAt(a, n, s, sub, last)
           L == Len(sub)
<1> SUFFICES Sought(b, n, s, sub, last)
  OBVIOUS
<1>1. L \in Nat /\ Len(s) \in Nat /\ a.at \in 0 .. L /\ a.found \in BOOLEAN
  BY DEF Sought, Texts
<1>2. CASE a.at = L
  <2>1. b = a
    BY <1>2 DEF SearchAt
  <2> HIDE DEF b
  <2> QED BY <1>1, <1>2, <2>1 DEF Sought
<1>3. CASE a.at # L /\ s[n] # sub[a.at + 1]
  <2>1. b = [at |-> 0, found |-> FALSE]
    BY <1>3 DEF SearchAt
  <2> HIDE DEF b
  <2> QED BY <1>1, <2>1 DEF Sought
<1>4. CASE a.at # L /\ s[n] = sub[a.at + 1]
  <2> DEFINE m == a.at + 1
  <2>1. b = [at |-> m, found |-> m = L /\ (n = Len(s) \/ s[n + 1] = last)]
    BY <1>4 DEF SearchAt
  <2>2. a.at < L /\ m \in 1 .. L
    BY <1>1, <1>4
  <2>3. a.at <= n - 1 /\ \A k \in 1 .. a.at : s[(n - 1) - a.at + k] = sub[k]
    BY <2>2 DEF Sought
  <2> HIDE DEF b
  <2>4. m <= n
    BY <1>1, <2>3
  <2>5. ASSUME NEW k \in 1 .. m PROVE s[n - m + k] = sub[k]
    <3>1. CASE k = m
      <4>1. n - m + k = n
        BY <1>1, <3>1
      <4> QED BY <1>4, <3>1, <4>1
    <3>2. CASE k # m
      <4>1. k \in 1 .. a.at /\ n - m + k = (n - 1) - a.at + k
        BY <1>1, <3>2
      <4> QED BY <2>3, <4>1
    <3> QED BY <3>1, <3>2
  <2> HIDE DEF m
  <2>6. b.at = m /\ (b.found <=> m = L /\ (n = Len(s) \/ s[n + 1] = last)) /\ b.found \in BOOLEAN
    BY <2>1
  <2>7. ASSUME b.found PROVE \E e : StandsAt(s, sub, last, e)
    <3>1. m = L /\ (n = Len(s) \/ s[n + 1] = last)
      BY <2>6, <2>7
    <3>2. StandsAt(s, sub, last, n)
      BY <2>4, <2>5, <3>1 DEF StandsAt
    <3> QED BY <3>2
  <2>8. b \in [at : 0 .. L, found : BOOLEAN]
    <3>1. m \in 0 .. L
      BY <1>1, <2>2
    <3> QED BY <2>1, <3>1
  <2> QED BY <2>4, <2>5, <2>6, <2>7, <2>8 DEF Sought
<1> QED BY <1>2, <1>3, <1>4

LEMMA SearchIs ==
  ASSUME NEW s \in Texts, NEW sub \in Texts, NEW last, StrstrK(s, sub, last)
  PROVE  \E e : StandsAt(s, sub, last, e)
<1> DEFINE S == [at : 0 .. Len(sub), found : BOOLEAN]
           base == [at |-> 0, found |-> FALSE]
           l == Len(s)
           G == [x \in S \X (1 .. l) |-> SearchAt(x[1], x[2], s, sub, last)]
           After(k) == [n \in 0 .. l |->
                          IF n = 0 THEN base ELSE SearchAt(k[n - 1], n, s, sub, last)]
           Hist == CHOOSE k : k = After(k)
<1>1. Len(sub) \in Nat /\ l \in Nat
  BY DEF Texts
<1>2. base \in S
  BY <1>1
<1>3. ASSUME NEW a \in S, NEW n \in 1 .. l PROVE SearchAt(a, n, s, sub, last) \in S
  BY <1>1 DEF SearchAt
<1>4. G \in [S \X (1 .. l) -> S]
  <2> HIDE DEF S, l
  <2> QED BY <1>3
<1>5. \A x \in S, n \in 1 .. l : G[<<x, n>>] = SearchAt(x, n, s, sub, last)
  OBVIOUS
<1>6. StrstrK(s, sub, last) <=> Hist[l].found
  BY DEF StrstrK
<1> HIDE DEF G, S, base, l
<1>7. PICK k : History(k, S, base, G, l)
  BY <1>1, <1>2, <1>4, SomeHistory
<1>8. k = After(k)
  <2>1. ASSUME NEW n \in 0 .. l PROVE k[n] = After(k)[n]
    <3>1. CASE n = 0
      BY <1>7, <3>1 DEF History
    <3>2. CASE n # 0
      <4>1. n \in 1 .. l /\ n - 1 \in 0 .. l
        BY <1>1, <3>2
      <4>2. k[n - 1] \in S /\ k[n] = G[<<k[n - 1], n>>]
        BY <1>7, <4>1 DEF History
      <4>3. k[n] = SearchAt(k[n - 1], n, s, sub, last)
        BY <1>5, <4>1, <4>2
      <4> QED BY <3>2, <4>3
    <3> QED BY <3>1, <3>2
  <2>2. k \in [0 .. l -> S]
    BY <1>7 DEF History
  <2> QED BY <2>1, <2>2
<1>9. Hist = After(Hist)
  <2> HIDE DEF After
  <2> QED BY <1>8
<1> DEFINE h == Hist
<1>10. h[0] = base /\ \A n \in 1 .. l : h[n] = SearchAt(h[n - 1], n, s, sub, last)
  <2> HIDE DEF Hist
  <2> QED BY <1>1, <1>9
<1> HIDE DEF Hist, After
<1> DEFINE T == {n \in 0 .. l : Sought(h[n], n, s, sub, last)}
<1>11. 0 \in T
  <2>1. Sought(base, 0, s, sub, last)
    BY <1>1 DEF base, Sought
  <2> QED BY <1>1, <1>10, <2>1
<1>12. ASSUME NEW n \in 1 .. l, n - 1 \in T PROVE n \in T
  <2>1. Sought(h[n - 1], n - 1, s, sub, last)
    BY <1>12
  <2>2. h[n] = SearchAt(h[n - 1], n, s, sub, last)
    BY <1>10
  <2> DEFINE a == h[n - 1]
  <2> HIDE DEF a
  <2>3. Sought(a, n - 1, s, sub, last)
    BY <2>1 DEF a
  <2>4. n \in 1 .. Len(s)
    BY DEF l
  <2>5. Sought(SearchAt(a, n, s, sub, last), n, s, sub, last)
    BY <2>3, <2>4, SearchStep
  <2>6. Sought(h[n], n, s, sub, last)
    BY <2>2, <2>5 DEF a
  <2> QED BY <2>6
<1>13. l \in T
  <2>1. l \in 0 .. l
    BY <1>1
  <2> HIDE DEF T
  <2> QED BY <1>1, <1>11, <1>12, <2>1, Climb
<1>14. Sought(h[l], l, s, sub, last)
  BY <1>13
<1> QED BY <1>6, <1>14 DEF Sought

\* The last piece of a text is its end, from the last separator.
LastPiece(p, s, sep) ==
  /\ p \in Texts /\ Len(p) <= Len(s)
  /\ \A k \in 1 .. Len(p) : p[k] = s[Len(s) - Len(p) + k]
  /\ Len(p) = Len(s) \/ s[Len(s) - Len(p)] = sep

LastOf(s, sep) == SplitString(s, sep)[Len(SplitString(s, sep))]

LEMMA LastOfIs ==
  ASSUME NEW sep
  PROVE  /\ LastOf(<<>>, sep) = <<>>
         /\ \A s \in Texts, c \in Nat :
              LastOf(Append(s, c), sep) = IF c = sep THEN <<>> ELSE Append(LastOf(s, sep), c)
<1>1. LastOf(<<>>, sep) = <<>>
  <2>1. SplitString(<<>>, sep) = << <<>> >>
    BY SplitStringIs
  <2>2. << <<>> >>[Len(<< <<>> >>)] = <<>>
    OBVIOUS
  <2> QED BY <2>1, <2>2, Zenon DEF LastOf
<1>2. ASSUME NEW s \in Texts, NEW c \in Nat
      PROVE  LastOf(Append(s, c), sep) = IF c = sep THEN <<>> ELSE Append(LastOf(s, sep), c)
  <2> DEFINE pieces == SplitString(s, sep)
             q == SplitString(Append(s, c), sep)
  <2>1. pieces \in Pieces(Nat) /\ q = SplitAt(pieces, c, sep)
    BY SplitStringIs DEF Texts
  <2>2. LastOf(s, sep) = pieces[Len(pieces)] /\ LastOf(Append(s, c), sep) = q[Len(q)]
    BY DEF LastOf
  <2> HIDE DEF pieces, q
  <2>3. Grown(q, pieces, c, sep)
    BY <2>1, OneMore
  <2> QED BY <2>2, <2>3 DEF Grown
<1> QED BY <1>1, <1>2

LEMMA LastPieceGrows ==
  ASSUME NEW s \in Texts, NEW c \in Nat, NEW sep, NEW p, LastPiece(p, s, sep)
  PROVE  LastPiece(IF c = sep THEN <<>> ELSE Append(p, c), Append(s, c), sep)
<1> DEFINE u == Append(s, c)
           r == Append(p, c)
<1>1. Len(s) \in Nat /\ Len(u) = Len(s) + 1 /\ u[Len(s) + 1] = c /\ u \in Texts
      /\ \A n \in 1 .. Len(s) : u[n] = s[n]
  BY DEF Texts
<1>2. p \in Texts /\ Len(p) \in Nat /\ Len(p) <= Len(s)
  BY DEF LastPiece, Texts
<1>3. Len(r) = Len(p) + 1 /\ r[Len(p) + 1] = c /\ r \in Texts
      /\ \A n \in 1 .. Len(p) : r[n] = p[n]
  BY <1>2 DEF Texts
<1> HIDE DEF u, r
<1>4. CASE c = sep
  <2>1. <<>> \in Texts /\ Len(<<>>) = 0
    BY DEF Texts
  <2>2. LastPiece(<<>>, u, sep)
    BY <1>1, <1>4, <2>1 DEF LastPiece
  <2> QED BY <1>4, <2>2 DEF u
<1>5. CASE c # sep
  <2>1. ASSUME NEW k \in 1 .. Len(r) PROVE r[k] = u[Len(u) - Len(r) + k]
    <3>1. CASE k = Len(r)
      <4>1. Len(u) - Len(r) + k = Len(s) + 1 /\ k = Len(p) + 1
        BY <1>1, <1>2, <1>3, <3>1
      <4> QED BY <1>1, <1>3, <4>1
    <3>2. CASE k # Len(r)
      <4>1. k \in 1 .. Len(p) /\ Len(u) - Len(r) + k = Len(s) - Len(p) + k
            /\ Len(s) - Len(p) + k \in 1 .. Len(s)
        BY <1>1, <1>2, <1>3, <3>2
      <4>2. p[k] = s[Len(s) - Len(p) + k]
        BY <4>1 DEF LastPiece
      <4> QED BY <1>1, <1>3, <4>1, <4>2
    <3> QED BY <3>1, <3>2
  <2>2. Len(r) = Len(u) \/ u[Len(u) - Len(r)] = sep
    <3>1. CASE Len(p) = Len(s)
      BY <1>1, <1>3, <3>1
    <3>2. CASE Len(p) # Len(s)
      <4>1. Len(u) - Len(r) = Len(s) - Len(p) /\ Len(s) - Len(p) \in 1 .. Len(s)
        BY <1>1, <1>2, <1>3, <3>2
      <4>2. s[Len(s) - Len(p)] = sep
        BY <3>2 DEF LastPiece
      <4> QED BY <1>1, <4>1, <4>2
    <3> QED BY <3>1, <3>2
  <2>3. Len(r) <= Len(u)
    BY <1>1, <1>2, <1>3
  <2>4. LastPiece(r, u, sep)
    BY <1>3, <2>1, <2>2, <2>3 DEF LastPiece
  <2> QED BY <1>5, <2>4 DEF r, u
<1> QED BY <1>4, <1>5

LEMMA LastPieceOf ==
  ASSUME NEW s \in Texts, NEW sep
  PROVE  LastPiece(LastOf(s, sep), s, sep)
<1> DEFINE T == {t \in Texts : LastPiece(LastOf(t, sep), t, sep)}
<1>1. <<>> \in T
  <2>1. <<>> \in Texts /\ Len(<<>>) = 0
    BY DEF Texts
  <2>2. LastPiece(<<>>, <<>>, sep)
    BY <2>1 DEF LastPiece
  <2> QED BY <2>1, <2>2, LastOfIs
<1>2. ASSUME NEW t \in Seq(Nat), NEW c \in Nat, t \in T PROVE Append(t, c) \in T
  <2>1. t \in Texts /\ Append(t, c) \in Texts
    BY DEF Texts
  <2> DEFINE p == LastOf(t, sep)
  <2>2. LastPiece(p, t, sep)
    BY <1>2
  <2>3. LastOf(Append(t, c), sep) = IF c = sep THEN <<>> ELSE Append(p, c)
    BY <2>1, LastOfIs
  <2> HIDE DEF p
  <2>4. LastPiece(IF c = sep THEN <<>> ELSE Append(p, c), Append(t, c), sep)
    BY <2>1, <2>2, LastPieceGrows
  <2>5. LastPiece(LastOf(Append(t, c), sep), Append(t, c), sep)
    BY <2>3, <2>4
  <2> QED BY <2>1, <2>5
<1>3. Seq(Nat) \subseteq T
  <2> HIDE DEF T
  <2> QED BY <1>1, <1>2, SeqInduction
<1> QED BY <1>3 DEF Texts

\* What a text has before a separator ends with one of its pieces.
PiecesBefore(s, sep) ==
  \A e \in 0 .. Len(s) - 1 : s[e + 1] = sep =>
    \E n \in 1 .. Len(SplitString(s, sep)) - 1 :
      SplitString(s, sep)[n] = LastOf(SubSeq(s, 1, e), sep)

LEMMA BeforeGrows ==
  ASSUME NEW s \in Texts, NEW c \in Nat, NEW sep, PiecesBefore(s, sep)
  PROVE  PiecesBefore(Append(s, c), sep)
<1> DEFINE u == Append(s, c)
           P == SplitString(s, sep)
           Q == SplitString(u, sep)
<1>1. Len(s) \in Nat /\ Len(u) = Len(s) + 1 /\ u[Len(s) + 1] = c
      /\ \A n \in 1 .. Len(s) : u[n] = s[n]
  BY DEF Texts
<1>2. P \in Pieces(Nat) /\ Q = SplitAt(P, c, sep)
  BY SplitStringIs DEF Texts
<1>3. LastOf(s, sep) = P[Len(P)]
  BY DEF LastOf
<1>4. Grown(Q, P, c, sep)
  <2> HIDE DEF P, Q
  <2> QED BY <1>2, OneMore
<1>5. ASSUME NEW e \in 0 .. Len(s) PROVE SubSeq(u, 1, e) = SubSeq(s, 1, e)
  <2>1. SubSeq(u, 1, e) = [k \in 1 .. e |-> u[k]] /\ SubSeq(s, 1, e) = [k \in 1 .. e |-> s[k]]
    BY DEF Texts
  <2>2. \A k \in 1 .. e : u[k] = s[k]
    BY <1>1
  <2> HIDE DEF u
  <2> QED BY <2>1, <2>2
<1>6. SubSeq(s, 1, Len(s)) = s
  BY DEF Texts
<1>7. \A e \in 0 .. Len(s) - 1 : s[e + 1] = sep =>
        \E n \in 1 .. Len(P) - 1 : P[n] = LastOf(SubSeq(s, 1, e), sep)
  BY DEF PiecesBefore
<1> HIDE DEF P, Q, u
<1>8. ASSUME NEW e \in 0 .. Len(u) - 1, u[e + 1] = sep
      PROVE  \E n \in 1 .. Len(Q) - 1 : Q[n] = LastOf(SubSeq(u, 1, e), sep)
  <2>1. e \in 0 .. Len(s)
    BY <1>1
  <2>2. SubSeq(u, 1, e) = SubSeq(s, 1, e)
    BY <1>5, <2>1
  <2>3. CASE e = Len(s)
    <3>1. c = sep
      BY <1>1, <1>8, <2>3
    <3>2. Len(P) \in 1 .. Len(Q) - 1 /\ Q[Len(P)] = P[Len(P)]
      BY <1>4, <3>1 DEF Grown
    <3> QED BY <1>3, <1>6, <2>2, <2>3, <3>2
  <2>4. CASE e # Len(s)
    <3>1. e \in 0 .. Len(s) - 1 /\ s[e + 1] = sep
      BY <1>1, <1>8, <2>1, <2>4
    <3>2. PICK n \in 1 .. Len(P) - 1 : P[n] = LastOf(SubSeq(s, 1, e), sep)
      BY <1>7, <3>1
    <3>3. n \in 1 .. Len(Q) - 1 /\ Q[n] = P[n]
      BY <1>4 DEF Grown
    <3> QED BY <2>2, <3>2, <3>3
  <2> QED BY <2>3, <2>4
<1> QED BY <1>8 DEF PiecesBefore, Q, u

LEMMA BeforeHolds ==
  ASSUME NEW s \in Texts, NEW sep
  PROVE  PiecesBefore(s, sep)
<1> DEFINE T == {t \in Texts : PiecesBefore(t, sep)}
<1>1. <<>> \in T
  <2>1. <<>> \in Texts /\ Len(<<>>) = 0 /\ 0 .. 0 - 1 = {}
    BY DEF Texts
  <2> QED BY <2>1 DEF PiecesBefore
<1>2. ASSUME NEW t \in Seq(Nat), NEW c \in Nat, t \in T PROVE Append(t, c) \in T
  <2>1. t \in Texts /\ Append(t, c) \in Texts
    BY DEF Texts
  <2>2. PiecesBefore(t, sep)
    BY <1>2
  <2>3. PiecesBefore(Append(t, c), sep)
    BY <2>1, <2>2, BeforeGrows
  <2> QED BY <2>1, <2>3
<1>3. Seq(Nat) \subseteq T
  <2> HIDE DEF T
  <2> QED BY <1>1, <1>2, SeqInduction
<1> QED BY <1>3 DEF Texts

LEMMA ReverseIs ==
  ASSUME NEW s \in Texts
  PROVE  /\ Reverse(s) \in Seq(Nat) /\ Len(Reverse(s)) = Len(s)
         /\ \A k \in 1 .. Len(s) : Reverse(s)[k] = s[(Len(s) - k) + 1]
<1> DEFINE r == [k \in 1 .. Len(s) |-> s[(Len(s) - k) + 1]]
<1>1. Reverse(s) = r
  BY DEF Reverse
<1>2. s \in Seq(Nat) /\ Len(s) \in Nat
  BY DEF Texts
<1>3. \A k \in 1 .. Len(s) : s[(Len(s) - k) + 1] \in Nat
  BY <1>2
<1>4. r \in [1 .. Len(s) -> Nat]
  BY <1>3
<1>5. r \in Seq(Nat) /\ Len(r) = Len(s)
  <2> HIDE DEF r
  <2> QED BY <1>2, <1>4
<1> QED BY <1>1, <1>5

LEMMA SuffixIs ==
  ASSUME NEW sub \in Texts, NEW p \in Texts, Len(sub) <= Len(p),
         \A k \in 1 .. Len(sub) : p[Len(p) - Len(sub) + k] = sub[k]
  PROVE  IsSuffix(sub, p)
<1> DEFINE L == Len(sub)
           M == Len(p)
           a == Reverse(sub)
           b == Reverse(p)
<1>1. L \in Nat /\ M \in Nat
  BY DEF Texts
<1>2. a \in Seq(Nat) /\ Len(a) = L /\ \A k \in 1 .. L : a[k] = sub[(L - k) + 1]
  BY ReverseIs
<1>3. b \in Seq(Nat) /\ Len(b) = M /\ \A k \in 1 .. M : b[k] = p[(M - k) + 1]
  BY ReverseIs
<1>4. ASSUME NEW k \in 1 .. L PROVE a[k] = b[k]
  <2>1. (L - k) + 1 \in 1 .. L /\ M - L + ((L - k) + 1) = (M - k) + 1 /\ k \in 1 .. M
    BY <1>1
  <2>2. p[M - L + ((L - k) + 1)] = sub[(L - k) + 1]
    BY <2>1
  <2> QED BY <1>2, <1>3, <2>1, <2>2
<1> HIDE DEF a, b, L, M
<1>5. SubSeq(a, 1, L) = [k \in 1 .. L |-> a[k]] /\ SubSeq(b, 1, L) = [k \in 1 .. L |-> b[k]]
  BY <1>1, <1>2, <1>3 DEF L, M
<1>6. SubSeq(a, 1, L) = SubSeq(b, 1, L)
  BY <1>4, <1>5
<1>7. IsPrefix(a, b)
  BY <1>2, <1>3, <1>6 DEF IsPrefix, L, M
<1> QED BY <1>7 DEF IsSuffix, a, b

\* What has no separator and stands at the end of a text, stands at the end of
\* its last piece.
LEMMA EndOfLast ==
  ASSUME NEW t \in Texts, NEW sub \in Texts, NEW sep, sep \notin Range(sub),
         Len(sub) <= Len(t), \A k \in 1 .. Len(sub) : t[Len(t) - Len(sub) + k] = sub[k]
  PROVE  IsSuffix(sub, LastOf(t, sep))
<1> DEFINE p == LastOf(t, sep)
           L == Len(sub)
           D == Len(p)
           M == Len(t)
<1>1. LastPiece(p, t, sep)
  BY LastPieceOf
<1> HIDE DEF p
<1>2. L \in Nat /\ D \in Nat /\ M \in Nat /\ D <= M /\ p \in Texts
  BY <1>1 DEF LastPiece, Texts
<1>3. L <= D
  <2> SUFFICES ASSUME L > D PROVE FALSE
    BY <1>2
  <2>1. t[M - D] = sep
    BY <1>1, <1>2 DEF LastPiece
  <2>2. L - D \in 1 .. L /\ M - L + (L - D) = M - D
    BY <1>2
  <2>3. t[M - L + (L - D)] = sub[L - D]
    BY <2>2
  <2>4. sub[L - D] \in Range(sub)
    <3>1. L - D \in DOMAIN sub
      BY <2>2 DEF Texts
    <3> QED BY <3>1 DEF Range
  <2> QED BY <2>1, <2>2, <2>3, <2>4
<1>4. ASSUME NEW k \in 1 .. L PROVE p[D - L + k] = sub[k]
  <2>1. D - L + k \in 1 .. D /\ M - D + (D - L + k) = M - L + k
    BY <1>2, <1>3
  <2>2. p[D - L + k] = t[M - D + (D - L + k)]
    BY <1>1, <2>1 DEF LastPiece
  <2> QED BY <2>1, <2>2
<1>5. IsSuffix(sub, p)
  BY <1>2, <1>3, <1>4, SuffixIs
<1> QED BY <1>5 DEF p

LEMMA FoundInPiece ==
  ASSUME NEW s \in Texts, NEW sub \in Texts, NEW sep, sep \notin Range(sub),
         StrstrK(s, sub, sep)
  PROVE  \E n \in DOMAIN SplitString(s, sep) : IsSuffix(sub, SplitString(s, sep)[n])
<1> DEFINE P == SplitString(s, sep)
<1>1. PICK e : StandsAt(s, sub, sep, e)
  BY SearchIs
<1> DEFINE t == SubSeq(s, 1, e)
<1>2. e \in 1 .. Len(s) /\ Len(s) \in Nat /\ Len(sub) \in Nat /\ Len(sub) <= e
  BY <1>1 DEF StandsAt, Texts
<1>3. t \in Texts /\ Len(t) = e /\ \A k \in 1 .. e : t[k] = s[k]
  BY <1>2 DEF Texts
<1>4. ASSUME NEW k \in 1 .. Len(sub) PROVE t[Len(t) - Len(sub) + k] = sub[k]
  <2>1. e - Len(sub) + k \in 1 .. e
    BY <1>2
  <2>2. s[e - Len(sub) + k] = sub[k]
    BY <1>1 DEF StandsAt
  <2> HIDE DEF t
  <2> QED BY <1>3, <2>1, <2>2
<1>5. IsSuffix(sub, LastOf(t, sep))
  <2> HIDE DEF t
  <2> QED BY <1>2, <1>3, <1>4, EndOfLast
<1>6. P \in Seq(Texts) /\ Len(P) \in Nat /\ Len(P) >= 1
  BY PieceFacts
<1>7. DOMAIN P = 1 .. Len(P)
  BY <1>6
<1>8. \E n \in 1 .. Len(P) : P[n] = LastOf(t, sep)
  <2>1. CASE e = Len(s)
    <3>1. t = s
      BY <2>1 DEF Texts
    <3>2. LastOf(s, sep) = P[Len(P)]
      BY DEF LastOf
    <3>3. Len(P) \in 1 .. Len(P)
      BY <1>6
    <3> HIDE DEF P, t
    <3> QED BY <3>1, <3>2, <3>3
  <2>2. CASE e # Len(s)
    <3>1. e \in 0 .. Len(s) - 1 /\ s[e + 1] = sep
      BY <1>1, <1>2, <2>2 DEF StandsAt
    <3>2. \E n \in 1 .. Len(P) - 1 : P[n] = LastOf(t, sep)
      BY <3>1, BeforeHolds DEF PiecesBefore
    <3> HIDE DEF P, t
    <3> QED BY <1>6, <3>2
  <2> QED BY <2>1, <2>2
<1> HIDE DEF P
<1>9. \E n \in DOMAIN P : IsSuffix(sub, P[n])
  BY <1>5, <1>7, <1>8
<1> QED BY <1>9 DEF P

LEMMA Found == InputOK => FoundIsThere
<1> SUFFICES ASSUME input \in Texts PROVE FoundIsThere
  BY InputText
<1>1. ASSUME NEW sub \in Subs, Comma \notin Range(sub), StrstrK(input, sub, Comma)
      PROVE  \E n \in DOMAIN SplitString(input, Comma) :
               IsSuffix(sub, SplitString(input, Comma)[n])
  <2>1. Seq(0 .. 255) \subseteq Seq(Nat)
    <3>1. 0 .. 255 \subseteq Nat
      OBVIOUS
    <3> QED BY <3>1, SeqMonotonic
  <2>2. sub \in Texts
    BY <2>1, InputsAssumption DEF Texts
  <2> QED BY <1>1, <2>2, FoundInPiece
<1>2. Strtoull(input) \in Nat
  BY StrtoullIs DEF Texts
<1>3. \A n \in 0 .. 7 :
        ByteAt(TransformatUInt64(Strtoull(input)), n) = ByteAt(Strtoull(input), 7 - n)
  BY <1>2, BytesReverse
<1> QED BY <1>1, <1>3 DEF FoundIsThere

\* What strstr_k finds stands in the text at the end of a piece, for texts and
\* searched strings of any length, and transformatUInt64 reverses the bytes of
\* every number, whatever a byte is (utility.h:236-273).
THEOREM FoundHolds == Spec => []FoundIsThere
BY InputInit, InputStep, Found, PTL DEF Spec
=============================================================================
