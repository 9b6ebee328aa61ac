----------------------------- MODULE InputsProofs -----------------------------
(***************************************************************************)
(* Proofs about Inputs: what writing a setting does to the others, for     *)
(* .ini files of any length and any names and values; what load_config     *)
(* makes of a file; and what the tests and the buffers of encode_convert   *)
(* do with texts of any length.                                            *)
(***************************************************************************)
EXTENDS Inputs, WellFoundedInduction, TLAPS

-----------------------------------------------------------------------------
(* The least and the greatest of a set of numbers. *)

LEMMA Least ==
  ASSUME NEW T, T \subseteq Nat, T # {}
  PROVE  \E m \in T : \A k \in T : m <= k
<1> DEFINE R == OpToRel(<, Nat)
<1>1. IsWellFoundedOn(R, Nat)
  BY NatLessThanWellFounded
<1>2. \A x, y \in Nat : x < y => <<x, y>> \in R
  BY DEF OpToRel
<1> HIDE DEF R
<1>3. PICK m \in T : \A k \in T : ~(<<k, m>> \in R)
  BY <1>1, WFMin
<1>4. ASSUME NEW k \in T PROVE m <= k
  <2>1. ~(k < m)
    BY <1>2, <1>3
  <2> QED BY <2>1
<1> QED BY <1>4

LEMMA MinIs ==
  ASSUME NEW T, T \subseteq Nat, T # {}
  PROVE  Min(T) \in T /\ \A k \in T : Min(T) <= k
<1>1. \E m \in T : \A k \in T : m <= k
  BY Least
<1> QED BY <1>1 DEF Min

LEMMA MaxIs ==
  ASSUME NEW T, T \subseteq Nat, T # {}, NEW b \in Nat, \A k \in T : k <= b
  PROVE  Max(T) \in T /\ \A k \in T : k <= Max(T)
<1> DEFINE D == {b - k : k \in T}
<1>1. D \subseteq Nat /\ D # {}
  <2>1. \A k \in T : b - k \in Nat
    OBVIOUS
  <2> QED BY <2>1
<1>2. PICK d \in D : \A k \in D : d <= k
  <2> HIDE DEF D
  <2> QED BY <1>1, Least
<1>3. PICK m \in T : d = b - m
  OBVIOUS
<1>4. \A k \in T : k <= m
  <2> SUFFICES ASSUME NEW k \in T PROVE k <= m
    OBVIOUS
  <2>1. b - k \in D
    OBVIOUS
  <2>2. b - m <= b - k
    BY <1>2, <1>3, <2>1
  <2> QED BY <2>2
<1> QED BY <1>4 DEF Max

-----------------------------------------------------------------------------
(* The lines of a file. *)

LEMMA Lined ==
  ASSUME NEW f \in Seq(Line)
  PROVE  /\ Len(f) \in Nat /\ DOMAIN f = 1 .. Len(f)
         /\ \A n \in DOMAIN f :
              /\ f[n] \in Line /\ f[n].kind \in {"section", "entry", "other"}
              /\ f[n].kind # "other" => f[n].name \in Name
              /\ f[n].kind = "entry" =>
                   f[n] = Entry(f[n].name, f[n].value) /\ f[n].value \in Value \cup {Garbled}
<1>1. Len(f) \in Nat /\ DOMAIN f = 1 .. Len(f) /\ \A n \in DOMAIN f : f[n] \in Line
  OBVIOUS
<1>2. ASSUME NEW l \in Line
      PROVE  /\ l.kind \in {"section", "entry", "other"}
             /\ l.kind # "other" => l.name \in Name
             /\ l.kind = "entry" => l = Entry(l.name, l.value) /\ l.value \in Value \cup {Garbled}
  BY DEF Line, Header, Entry, Other
<1> QED BY <1>1, <1>2

LEMMA HeadersAre ==
  ASSUME NEW f \in Seq(Line)
  PROVE  Headers(f) \subseteq Nat \ {0} /\ Headers(f) \subseteq DOMAIN f
BY Lined DEF Headers

\* The header of the section a line is in ...
LEMMA HeaderOfIs ==
  ASSUME NEW f \in Seq(Line), NEW n \in Nat
  PROVE  /\ HeaderOf(f, n) \in {0} \cup Headers(f) /\ HeaderOf(f, n) \in 0 .. n
         /\ \A h \in Headers(f) : h <= n => h <= HeaderOf(f, n)
<1> DEFINE T == {0} \cup {h \in Headers(f) : h <= n}
<1>1. T \subseteq Nat /\ T # {} /\ \A k \in T : k <= n
  BY HeadersAre
<1>2. Max(T) \in T /\ \A k \in T : k <= Max(T)
  <2> HIDE DEF T
  <2> QED BY <1>1, MaxIs
<1> QED BY <1>1, <1>2 DEF HeaderOf

\* ... is the only line with these properties.
LEMMA HeaderOfOnly ==
  ASSUME NEW f \in Seq(Line), NEW n \in Nat, NEW m \in Nat, m <= n, m \in {0} \cup Headers(f),
         \A h \in Headers(f) : h <= n => h <= m
  PROVE  HeaderOf(f, n) = m
<1>1. /\ HeaderOf(f, n) \in {0} \cup Headers(f) /\ HeaderOf(f, n) \in 0 .. n
      /\ \A h \in Headers(f) : h <= n => h <= HeaderOf(f, n)
  BY HeaderOfIs
<1>2. Headers(f) \subseteq Nat \ {0}
  BY HeadersAre
<1>3. HeaderOf(f, n) <= m
  BY <1>1, <1>2
<1>4. m <= HeaderOf(f, n)
  BY <1>1, <1>2
<1> QED BY <1>1, <1>3, <1>4

LEMMA HitsAre ==
  ASSUME NEW f \in Seq(Line), NEW section, NEW key
  PROVE  /\ SectionHits(f, section) \subseteq Headers(f)
         /\ KeyHits(f, section, key) \subseteq DOMAIN f /\ DOMAIN f \subseteq Nat
BY Lined DEF SectionHits, KeyHits

LEMMA KeyLineIs ==
  ASSUME NEW f \in Seq(Line), NEW section, NEW key
  PROVE  /\ KeyLine(f, section, key) = Missing <=> KeyHits(f, section, key) = {}
         /\ KeyLine(f, section, key) # Missing =>
              /\ KeyLine(f, section, key) \in KeyHits(f, section, key)
              /\ \A n \in KeyHits(f, section, key) : KeyLine(f, section, key) <= n
<1> DEFINE T == KeyHits(f, section, key)
<1>1. T \subseteq Nat
  BY HitsAre
<1>2. T # {} => Min(T) \in T /\ \A k \in T : Min(T) <= k
  <2> HIDE DEF T
  <2> QED BY <1>1, MinIs
<1>3. Missing \notin Nat
  BY DEF Missing
<1> QED BY <1>1, <1>2, <1>3 DEF KeyLine

LEMMA SectionLineIs ==
  ASSUME NEW f \in Seq(Line), NEW section
  PROVE  /\ SectionLine(f, section) = Missing <=> SectionHits(f, section) = {}
         /\ SectionLine(f, section) # Missing =>
              SectionLine(f, section) \in SectionHits(f, section)
<1> DEFINE T == SectionHits(f, section)
<1>1. T \subseteq Nat /\ Len(f) \in Nat /\ \A k \in T : k <= Len(f)
  <2>1. Len(f) \in Nat /\ DOMAIN f = 1 .. Len(f)
    BY Lined
  <2>2. T \subseteq DOMAIN f
    BY HitsAre, HeadersAre
  <2> HIDE DEF T
  <2> QED BY <2>1, <2>2
<1>2. T # {} => Max(T) \in T
  <2> HIDE DEF T
  <2> QED BY <1>1, MaxIs
<1>3. Missing \notin Nat
  BY DEF Missing
<1> QED BY <1>1, <1>2, <1>3 DEF SectionLine

-----------------------------------------------------------------------------
(* One file within another. *)

\* The lines of f are lines of g, in their order, with the same names, and no
\* header of g that is not one of f stands among them.
Embeds(e, f, g) ==
  /\ e \in [DOMAIN f -> DOMAIN g]
  /\ \A m, n \in DOMAIN f : m < n => e[m] < e[n]
  /\ \A n \in DOMAIN f :
       g[e[n]].kind = f[n].kind /\ (f[n].kind # "other" => g[e[n]].name = f[n].name)
  /\ \A h \in Headers(g) :
       (\E n \in DOMAIN f : e[n] = h) \/ (\A n \in DOMAIN f : e[n] < h)

\* A line of f is in the same section of g.
LEMMA HeaderEmbeds ==
  ASSUME NEW f \in Seq(Line), NEW g \in Seq(Line), NEW e, Embeds(e, f, g), NEW n \in DOMAIN f
  PROVE  HeaderOf(g, e[n]) = IF HeaderOf(f, n) = 0 THEN 0 ELSE e[HeaderOf(f, n)]
<1> DEFINE h == HeaderOf(f, n)
           m == IF h = 0 THEN 0 ELSE e[h]
<1>1. /\ e \in [DOMAIN f -> DOMAIN g] /\ \A p, q \in DOMAIN f : p < q => e[p] < e[q]
      /\ \A p \in DOMAIN f :
           g[e[p]].kind = f[p].kind /\ (f[p].kind # "other" => g[e[p]].name = f[p].name)
      /\ \A p \in Headers(g) :
           (\E q \in DOMAIN f : e[q] = p) \/ (\A q \in DOMAIN f : e[q] < p)
  BY DEF Embeds
<1>2. DOMAIN f \subseteq Nat \ {0} /\ DOMAIN g \subseteq Nat \ {0}
  BY Lined
<1>3. n \in Nat /\ e[n] \in Nat
  BY <1>1, <1>2
<1>4. h \in {0} \cup Headers(f) /\ h \in 0 .. n /\ \A p \in Headers(f) : p <= n => p <= h
  BY <1>3, HeaderOfIs
<1> HIDE DEF h
<1>5. h # 0 => h \in DOMAIN f /\ f[h].kind = "section"
  BY <1>4 DEF Headers
<1>6. m \in {0} \cup Headers(g) /\ m \in Nat /\ m <= e[n]
  <2>1. CASE h = 0
    BY <1>3, <2>1
  <2>2. CASE h # 0
    <3>1. m \in Headers(g) /\ m \in Nat
      BY <1>1, <1>2, <1>5, <2>2 DEF Headers
    <3>2. h = n \/ h < n
      BY <1>3, <1>4
    <3>3. h < n => e[h] < e[n]
      BY <1>1, <1>5, <2>2
    <3>4. m <= e[n]
      BY <1>3, <2>2, <3>1, <3>2, <3>3
    <3> QED BY <3>1, <3>4
  <2> QED BY <2>1, <2>2
<1>7. ASSUME NEW p \in Headers(g), p <= e[n] PROVE p <= m
  <2>1. p \in Nat \ {0}
    BY HeadersAre
  <2>2. PICK q \in DOMAIN f : e[q] = p
    BY <1>1, <1>3, <1>7, <2>1
  <2>3. q \in Headers(f)
    BY <1>1, <1>7, <2>2 DEF Headers
  <2>4. ~(n < q)
    BY <1>1, <1>3, <1>7, <2>1, <2>2
  <2>5. q <= h /\ q \in Nat \ {0}
    BY <1>2, <1>3, <1>4, <2>2, <2>3, <2>4
  <2>6. h # 0 /\ (q = h \/ q < h)
    BY <1>3, <1>4, <2>5
  <2>7. q < h => e[q] < e[h]
    BY <1>1, <1>5, <2>6
  <2> QED BY <1>6, <2>1, <2>2, <2>6, <2>7
<1> HIDE DEF m
<1>8. HeaderOf(g, e[n]) = m
  BY <1>3, <1>6, <1>7, HeaderOfOnly
<1> QED BY <1>8 DEF m, h

\* ... and is found there for the same names.
LEMMA HitsEmbed ==
  ASSUME NEW f \in Seq(Line), NEW g \in Seq(Line), NEW e, Embeds(e, f, g), NEW n \in DOMAIN f,
         NEW section, NEW key
  PROVE  e[n] \in KeyHits(g, section, key) <=> n \in KeyHits(f, section, key)
<1> DEFINE h == HeaderOf(f, n)
<1>1. /\ e \in [DOMAIN f -> DOMAIN g]
      /\ \A p \in DOMAIN f :
           g[e[p]].kind = f[p].kind /\ (f[p].kind # "other" => g[e[p]].name = f[p].name)
  BY DEF Embeds
<1>2. n \in Nat /\ h \in {0} \cup Headers(f) /\ Headers(f) \subseteq DOMAIN f
      /\ 0 \notin Headers(f) /\ 0 \notin Headers(g)
  BY Lined, HeaderOfIs, HeadersAre
<1>3. HeaderOf(g, e[n]) = IF h = 0 THEN 0 ELSE e[h]
  BY HeaderEmbeds
<1> HIDE DEF h
<1>4. HeaderOf(g, e[n]) \in SectionHits(g, section) <=> h \in SectionHits(f, section)
  <2>1. CASE h = 0
    BY <1>2, <1>3, <2>1 DEF SectionHits
  <2>2. CASE h # 0
    <3>1. h \in Headers(f) /\ h \in DOMAIN f /\ f[h].kind = "section"
      BY <1>2, <2>2 DEF Headers
    <3>2. e[h] \in Headers(g) /\ g[e[h]].name = f[h].name
      BY <1>1, <3>1 DEF Headers
    <3> QED BY <1>3, <2>2, <3>1, <3>2 DEF SectionHits
  <2> QED BY <2>1, <2>2
<1>5. /\ e[n] \in KeyHits(g, section, key) <=>
           g[e[n]].kind = "entry" /\ Matches(g[e[n]].name, key)
             /\ HeaderOf(g, e[n]) \in SectionHits(g, section)
      /\ n \in KeyHits(f, section, key) <=>
           f[n].kind = "entry" /\ Matches(f[n].name, key) /\ h \in SectionHits(f, section)
  BY <1>1 DEF KeyHits, h
<1> QED BY <1>1, <1>4, <1>5

\* What is found in f is found in g, unless a line that is new is found.
LEMMA LineEmbeds ==
  ASSUME NEW f \in Seq(Line), NEW g \in Seq(Line), NEW e, Embeds(e, f, g),
         NEW section, NEW key,
         \A n \in KeyHits(g, section, key) : \E m \in DOMAIN f : e[m] = n
  PROVE  KeyLine(g, section, key) =
           IF KeyLine(f, section, key) = Missing THEN Missing ELSE e[KeyLine(f, section, key)]
<1> DEFINE F == KeyHits(f, section, key)
           G == KeyHits(g, section, key)
           n == KeyLine(f, section, key)
           l == KeyLine(g, section, key)
<1>1. /\ e \in [DOMAIN f -> DOMAIN g] /\ \A p, q \in DOMAIN f : p < q => e[p] < e[q]
      /\ \A m \in G : \E q \in DOMAIN f : e[q] = m
  BY DEF Embeds
<1>2. F \subseteq DOMAIN f /\ DOMAIN f \subseteq Nat /\ G \subseteq DOMAIN g /\ DOMAIN g \subseteq Nat
  BY HitsAre
<1>3. \A m \in DOMAIN f : e[m] \in G <=> m \in F
  BY HitsEmbed
<1>4. /\ n = Missing <=> F = {}
      /\ n # Missing => n \in F /\ \A m \in F : n <= m
      /\ l = Missing <=> G = {}
      /\ l # Missing => l \in G /\ \A m \in G : l <= m
  BY KeyLineIs
<1> HIDE DEF F, G, n, l
<1>5. CASE n = Missing
  <2>1. G = {}
    BY <1>1, <1>3, <1>4, <1>5
  <2> QED BY <1>4, <1>5, <2>1 DEF n, l
<1>6. CASE n # Missing
  <2>1. e[n] \in G /\ n \in DOMAIN f
    BY <1>2, <1>3, <1>4, <1>6
  <2>2. l \in G /\ l <= e[n]
    BY <1>4, <2>1
  <2>3. PICK q \in DOMAIN f : e[q] = l
    BY <1>1, <2>2
  <2>4. q \in F /\ n <= q
    BY <1>3, <1>4, <1>6, <2>2, <2>3
  <2>5. n = q \/ n < q
    BY <1>2, <2>1, <2>3, <2>4
  <2>6. n < q => e[n] < e[q]
    BY <1>1, <2>1, <2>3
  <2>7. e[n] \in Nat /\ e[q] \in Nat
    BY <1>1, <1>2, <2>1, <2>3
  <2>8. e[n] = l
    BY <2>2, <2>3, <2>5, <2>6, <2>7
  <2> QED BY <1>6, <2>8 DEF n, l
<1> QED BY <1>5, <1>6

-----------------------------------------------------------------------------
(* Writing a setting. *)

LEMMA SamePrefix == \A a \in Name : IsPrefix(a, a)
BY IniFileAssumption DEF IsPrefix

\* A line that is found for two keys makes the file confuse them.
LEMMA FoundForBoth ==
  ASSUME NEW f \in Seq(Line), NEW a, NEW b, NEW x, NEW y,
         NEW n \in KeyHits(f, a, x), n \in KeyHits(f, b, y)
  PROVE  Confused(f, a, b) /\ Confused(f, x, y)
<1>1. /\ n \in DOMAIN f /\ f[n].kind = "entry"
      /\ IsPrefix(f[n].name, x) /\ IsPrefix(f[n].name, y)
      /\ HeaderOf(f, n) \in SectionHits(f, a) /\ HeaderOf(f, n) \in SectionHits(f, b)
  BY DEF KeyHits, Matches
<1>2. PICK h \in DOMAIN f : h = HeaderOf(f, n) /\ f[h].kind = "section"
  BY <1>1 DEF SectionHits, Headers
<1>3. IsPrefix(f[h].name, a) /\ IsPrefix(f[h].name, b)
  BY <1>1, <1>2 DEF SectionHits, Matches
<1> QED BY <1>1, <1>2, <1>3 DEF Confused

\* The promise of WriteKeepsOthers for one write: from f to g.
Kept(f, g, section, key, v) ==
  /\ ReadAll(g, section, key) = Cut(v, Size)
  /\ \A s, k \in Name :
       \/ ReadAll(g, s, k) = ReadAll(f, s, k)
       \/ Confused(g, s, section) /\ Confused(g, k, key)
       \/ HasPercent(f, s, k)

\* It holds when the new value is in the line that is found, and the other
\* entries are the old ones.
LEMMA KeptWhen ==
  ASSUME NEW f \in Seq(Line), NEW g \in Seq(Line), NEW e, Embeds(e, f, g),
         NEW section, NEW key, NEW v, NEW l \in DOMAIN g,
         KeyLine(g, section, key) = l, g[l].value = v,
         \A m \in DOMAIN g : m # l /\ g[m].kind = "entry" => \E n \in DOMAIN f : e[n] = m,
         \A n \in DOMAIN f : e[n] # l /\ f[n].kind = "entry" =>
           g[e[n]].value = f[n].value \/ f[n].value \in Percent
  PROVE  Kept(f, g, section, key, v)
<1>1. l # Missing /\ l \in KeyHits(g, section, key)
  <2>1. l # Missing
    BY Lined DEF Missing
  <2> QED BY <2>1, KeyLineIs
<1>2. ReadAll(g, section, key) = Cut(v, Size)
  BY <1>1 DEF ReadAll, ReadProfile
<1>3. ASSUME NEW s \in Name, NEW k \in Name, l \notin KeyHits(g, s, k), ~HasPercent(f, s, k)
      PROVE  ReadAll(g, s, k) = ReadAll(f, s, k)
  <2> DEFINE n == KeyLine(f, s, k)
  <2>1. \A m \in KeyHits(g, s, k) : m \in DOMAIN g /\ g[m].kind = "entry" /\ m # l
    BY <1>3 DEF KeyHits
  <2>2. \A m \in KeyHits(g, s, k) : \E p \in DOMAIN f : e[p] = m
    BY <2>1
  <2>3. KeyLine(g, s, k) = IF n = Missing THEN Missing ELSE e[n]
    BY <2>2, LineEmbeds
  <2>4. CASE n = Missing
    BY <2>3, <2>4 DEF ReadAll, ReadProfile
  <2>5. CASE n # Missing
    <3>1. n \in DOMAIN f /\ f[n].kind = "entry"
      BY <2>5, KeyLineIs DEF KeyHits
    <3>2. e[n] \in DOMAIN g
      BY <3>1 DEF Embeds
    <3>3. e[n] # Missing
      BY <3>2, Lined DEF Missing
    <3>4. e[n] \in KeyHits(g, s, k)
      BY <2>3, <2>5, <3>3, KeyLineIs
    <3>5. f[n].value \notin Percent
      BY <1>3, <2>5 DEF HasPercent
    <3>6. g[e[n]].value = f[n].value
      BY <2>1, <3>1, <3>4, <3>5
    <3> QED BY <2>3, <2>5, <3>3, <3>6 DEF ReadAll, ReadProfile
  <2> QED BY <2>4, <2>5
<1>4. ASSUME NEW s \in Name, NEW k \in Name, l \in KeyHits(g, s, k)
      PROVE  Confused(g, s, section) /\ Confused(g, k, key)
  BY <1>1, <1>4, FoundForBoth
<1> QED BY <1>2, <1>3, <1>4 DEF Kept

LEMMA Joined ==
  ASSUME NEW a \in Seq(Line), NEW b \in Seq(Line)
  PROVE  /\ a \o b \in Seq(Line) /\ Len(a \o b) = Len(a) + Len(b)
         /\ \A m \in 1 .. Len(a) : (a \o b)[m] = a[m]
         /\ \A m \in 1 .. Len(b) : (a \o b)[Len(a) + m] = b[m]
OBVIOUS

\* The third case of write_profile_string: the key is there.
LEMMA UpdatedKeeps ==
  ASSUME NEW f \in Seq(Line), NEW section \in Name, NEW key \in Name, NEW v \in Value,
         KeyLine(f, section, key) # Missing
  PROVE  /\ Updated(f, section, key, v) \in Seq(Line)
         /\ Kept(f, Updated(f, section, key, v), section, key, v)
<1> DEFINE n == KeyLine(f, section, key)
           g == [f EXCEPT ![n].value = v]
           e == [m \in DOMAIN f |-> m]
<1>1. n \in DOMAIN f /\ f[n].kind = "entry" /\ n # Missing
  BY KeyLineIs DEF KeyHits
<1> HIDE DEF n
<1>2. f[n] = Entry(f[n].name, f[n].value) /\ f[n].name \in Name
  BY <1>1, Lined
<1>3. [f[n] EXCEPT !.value = v] = Entry(f[n].name, v)
  BY <1>2 DEF Entry
<1>4. Entry(f[n].name, v) \in Line
  BY <1>2 DEF Line
<1>5. /\ g \in Seq(Line) /\ DOMAIN g = DOMAIN f
      /\ g[n] = Entry(f[n].name, v) /\ \A m \in DOMAIN f : m # n => g[m] = f[m]
  BY <1>1, <1>3, <1>4
<1> HIDE DEF g
<1>6. \A m \in DOMAIN f : g[m].kind = f[m].kind /\ (f[m].kind # "other" => g[m].name = f[m].name)
  BY <1>1, <1>5 DEF Entry
<1>7. Embeds(e, f, g)
  BY <1>5, <1>6 DEF Embeds, Headers
<1>8. \A m \in DOMAIN g : e[m] = m /\ m \in DOMAIN f
  BY <1>5
<1>9. KeyLine(g, section, key) = n
  <2>1. \A m \in KeyHits(g, section, key) : \E p \in DOMAIN f : e[p] = m
    BY <1>8 DEF KeyHits
  <2>2. KeyLine(g, section, key) = IF n = Missing THEN Missing ELSE e[n]
    <3> HIDE DEF e
    <3> QED BY <1>5, <1>7, <2>1, LineEmbeds DEF n
  <2> QED BY <1>1, <1>5, <1>8, <2>2
<1>10. g[n].value = v
  BY <1>5 DEF Entry
<1>11. Kept(f, g, section, key, v)
  <2> HIDE DEF e
  <2> QED BY <1>1, <1>5, <1>7, <1>8, <1>9, <1>10, KeptWhen
<1> QED BY <1>5, <1>11 DEF Updated, n, g

\* The second case: the section is there.  First where the lines are ...
LEMMA InsertedLines ==
  ASSUME NEW f \in Seq(Line), NEW section \in Name, NEW key \in Name, NEW v \in Value,
         NEW n \in DOMAIN f, n = SectionLine(f, section), NEW g, g = Inserted(f, section, key, v)
  PROVE  /\ g \in Seq(Line) /\ DOMAIN g = 1 .. Len(f) + 1
         /\ g[n + 1] = Entry(key, v)
         /\ \A m \in DOMAIN f : m <= n => g[m] = f[m]
         /\ \A m \in DOMAIN f : m > n =>
              g[m + 1] = IF f[m].kind = "entry" /\ f[m].value \in Percent
                         THEN Entry(f[m].name, Garbled) ELSE f[m]
<1> DEFINE Form(line) == IF line.kind = "entry" /\ line.value \in Percent
                         THEN Entry(line.name, Garbled) ELSE line
           rest == SubSeq(f, n + 1, Len(f))
           form == [m \in DOMAIN rest |-> Form(rest[m])]
           new == <<Entry(key, v)>>
<1>1. n \in 1 .. Len(f) /\ Len(f) \in Nat
  BY Lined
<1>2. Entry(key, v) \in Line
  BY DEF Line
<1>3. ASSUME NEW line \in Line PROVE Form(line) \in Line
  <2>1. CASE line.kind = "entry"
    <3>1. line.name \in Name
      BY <2>1 DEF Line, Header, Entry, Other
    <3>2. Entry(line.name, Garbled) \in Line
      BY <3>1 DEF Line
    <3> QED BY <3>2
  <2> QED BY <2>1
<1> HIDE DEF Form
<1>4. rest \in Seq(Line) /\ Len(rest) = Len(f) - n /\ \A m \in 1 .. Len(f) - n : rest[m] = f[n + m]
  BY <1>1
<1>5. form \in Seq(Line) /\ Len(form) = Len(f) - n /\ \A m \in 1 .. Len(f) - n : form[m] = Form(f[n + m])
  <2> HIDE DEF rest
  <2>1. Len(f) - n \in Nat /\ DOMAIN rest = 1 .. Len(f) - n
    BY <1>1, <1>4
  <2>2. form \in [1 .. Len(f) - n -> Line]
    BY <1>3, <1>4, <2>1
  <2>3. \A m \in 1 .. Len(f) - n : form[m] = Form(f[n + m])
    BY <1>4, <2>1
  <2> HIDE DEF form
  <2>4. form \in Seq(Line) /\ Len(form) = Len(f) - n
    BY <2>1, <2>2
  <2> QED BY <2>3, <2>4
<1>6. g = SubSeq(f, 1, n) \o new \o form
  BY DEF Inserted, Formatted, Form
<1> HIDE DEF form
<1>7. SubSeq(f, 1, n) \in Seq(Line) /\ Len(SubSeq(f, 1, n)) = n
      /\ \A m \in 1 .. n : SubSeq(f, 1, n)[m] = f[m]
  BY <1>1
<1>8. new \in Seq(Line) /\ Len(new) = 1 /\ new[1] = Entry(key, v)
  BY <1>2
<1> HIDE DEF new
<1> DEFINE head == SubSeq(f, 1, n)
<1> HIDE DEF head
<1>9. head \in Seq(Line) /\ Len(head) = n /\ \A m \in 1 .. n : head[m] = f[m]
  BY <1>7 DEF head
<1>10. g = head \o new \o form
  BY <1>6 DEF head
<1>11. /\ g \in Seq(Line) /\ Len(g) = Len(f) + 1
       /\ \A m \in 1 .. n : g[m] = f[m]
       /\ g[n + 1] = Entry(key, v)
       /\ \A m \in 1 .. Len(f) - n : g[n + 1 + m] = form[m]
  <2> DEFINE front == head \o new
  <2>1. front \in Seq(Line) /\ Len(front) = n + 1 /\ front[n + 1] = Entry(key, v)
        /\ \A m \in 1 .. n : front[m] = f[m]
    <3>1. /\ front \in Seq(Line) /\ Len(front) = Len(head) + Len(new)
          /\ \A m \in 1 .. Len(head) : front[m] = head[m]
          /\ \A m \in 1 .. Len(new) : front[Len(head) + m] = new[m]
      BY <1>8, <1>9, Joined
    <3>2. 1 \in 1 .. Len(new)
      BY <1>8
    <3> HIDE DEF front
    <3> QED BY <1>1, <1>8, <1>9, <3>1, <3>2
  <2>2. g = front \o form
    BY <1>10
  <2> HIDE DEF front
  <2>3. g \in Seq(Line) /\ Len(g) = n + 1 + (Len(f) - n)
        /\ (\A m \in 1 .. n + 1 : g[m] = front[m])
        /\ \A m \in 1 .. Len(f) - n : g[n + 1 + m] = form[m]
    <3>1. /\ front \o form \in Seq(Line) /\ Len(front \o form) = Len(front) + Len(form)
          /\ \A m \in 1 .. Len(front) : (front \o form)[m] = front[m]
          /\ \A m \in 1 .. Len(form) : (front \o form)[Len(front) + m] = form[m]
      BY <1>5, <2>1, Joined
    <3> QED BY <1>5, <2>1, <2>2, <3>1
  <2>4. /\ n + 1 \in 1 .. n + 1 /\ 1 .. n \subseteq 1 .. n + 1
        /\ n + 1 + (Len(f) - n) = Len(f) + 1
    BY <1>1
  <2>5. \A m \in 1 .. n : g[m] = f[m]
    BY <2>1, <2>3, <2>4
  <2> QED BY <2>1, <2>3, <2>4, <2>5
<1>12. ASSUME NEW m \in DOMAIN f, m > n PROVE g[m + 1] = Form(f[m])
  <2>1. m - n \in 1 .. Len(f) - n /\ n + 1 + (m - n) = m + 1 /\ n + (m - n) = m
    BY <1>1, <1>12
  <2>2. g[n + 1 + (m - n)] = form[m - n] /\ form[m - n] = Form(f[n + (m - n)])
    BY <1>5, <1>11, <2>1
  <2> QED BY <2>1, <2>2
<1> QED BY <1>1, <1>11, <1>12 DEF Form

\* ... then that the new entry is the only one that is found.
LEMMA InsertedKeeps ==
  ASSUME NEW f \in Seq(Line), NEW section \in Name, NEW key \in Name, NEW v \in Value,
         SectionLine(f, section) # Missing, KeyLine(f, section, key) = Missing
  PROVE  /\ Inserted(f, section, key, v) \in Seq(Line)
         /\ Kept(f, Inserted(f, section, key, v), section, key, v)
<1> DEFINE n == SectionLine(f, section)
           g == Inserted(f, section, key, v)
           e == [m \in DOMAIN f |-> IF m <= n THEN m ELSE m + 1]
<1>1. n \in DOMAIN f /\ n \in Headers(f) /\ n \in SectionHits(f, section)
  BY SectionLineIs, HeadersAre DEF SectionHits
<1>2. DOMAIN f = 1 .. Len(f) /\ Len(f) \in Nat /\ n \in Nat
  BY <1>1, Lined
<1>3. /\ g \in Seq(Line) /\ DOMAIN g = 1 .. Len(f) + 1
      /\ g[n + 1] = Entry(key, v)
      /\ \A m \in DOMAIN f : m <= n => g[m] = f[m]
      /\ \A m \in DOMAIN f : m > n =>
           g[m + 1] = IF f[m].kind = "entry" /\ f[m].value \in Percent
                      THEN Entry(f[m].name, Garbled) ELSE f[m]
  <2> HIDE DEF n, g
  <2>1. n = SectionLine(f, section) /\ g = Inserted(f, section, key, v)
    BY DEF n, g
  <2> QED BY <1>1, <2>1, InsertedLines
<1> HIDE DEF n, g
<1>4. /\ e \in [DOMAIN f -> DOMAIN g]
      /\ \A m, p \in DOMAIN f : m < p => e[m] < e[p]
      /\ \A m \in DOMAIN f : e[m] # n + 1
      /\ \A m \in DOMAIN g : m # n + 1 => \E p \in DOMAIN f : e[p] = m
  <2>1. e \in [DOMAIN f -> DOMAIN g] /\ \A m, p \in DOMAIN f : m < p => e[m] < e[p]
    BY <1>2, <1>3
  <2>2. \A m \in DOMAIN f : e[m] # n + 1
    BY <1>2
  <2>3. ASSUME NEW m \in DOMAIN g, m # n + 1 PROVE \E p \in DOMAIN f : e[p] = m
    <3>1. CASE m <= n
      <4>1. m \in DOMAIN f /\ e[m] = m
        BY <1>1, <1>2, <1>3, <3>1
      <4> QED BY <4>1
    <3>2. CASE m > n
      <4>1. m - 1 \in DOMAIN f /\ m - 1 > n
        BY <1>1, <1>2, <1>3, <2>3, <3>2
      <4>2. ~(m - 1 <= n) /\ (m - 1) + 1 = m
        BY <1>2, <1>3, <4>1
      <4>3. e[m - 1] = m
        BY <4>1, <4>2
      <4> QED BY <4>1, <4>3
    <3> QED BY <1>2, <1>3, <3>1, <3>2
  <2> QED BY <2>1, <2>2, <2>3
<1>5. ASSUME NEW m \in DOMAIN f
      PROVE  /\ g[e[m]].kind = f[m].kind /\ (f[m].kind # "other" => g[e[m]].name = f[m].name)
             /\ f[m].kind = "entry" => g[e[m]].value = f[m].value \/ f[m].value \in Percent
  <2>1. CASE m <= n
    BY <1>3, <2>1
  <2>2. CASE m > n
    <3>1. e[m] = m + 1
      BY <1>2, <2>2
    <3>2. CASE f[m].kind = "entry" /\ f[m].value \in Percent
      <4>1. g[e[m]] = Entry(f[m].name, Garbled)
        BY <1>3, <2>2, <3>1, <3>2
      <4> QED BY <3>2, <4>1 DEF Entry
    <3>3. CASE ~(f[m].kind = "entry" /\ f[m].value \in Percent)
      <4>1. g[e[m]] = f[m]
        BY <1>3, <2>2, <3>1, <3>3
      <4> QED BY <4>1
    <3> QED BY <3>2, <3>3
  <2> QED BY <1>2, <2>1, <2>2
<1>6. e[n] = n
  BY <1>1, <1>2
<1> HIDE DEF e
<1>7. g[n + 1].kind = "entry" /\ g[n + 1].name = key /\ g[n + 1].value = v
  BY <1>3 DEF Entry
<1>8. Embeds(e, f, g)
  <2>1. \A h \in Headers(g) : \E m \in DOMAIN f : e[m] = h
    BY <1>4, <1>7 DEF Headers
  <2> QED BY <1>4, <1>5, <2>1 DEF Embeds
<1>9. n + 1 \in KeyHits(g, section, key)
  <2>1. n + 1 \in DOMAIN g /\ n \in DOMAIN g
    BY <1>1, <1>2, <1>3
  <2>2. n \in SectionHits(g, section) /\ n \in Headers(g)
    BY <1>1, <1>3, <2>1 DEF SectionHits, Headers
  <2>3. ASSUME NEW h \in Headers(g), h <= n + 1 PROVE h <= n
    <3>1. h # n + 1 /\ h \in Nat
      BY <1>2, <1>3, <1>7 DEF Headers
    <3> QED BY <1>2, <2>3, <3>1
  <2>4. HeaderOf(g, n + 1) = n
    BY <1>2, <1>3, <2>2, <2>3, HeaderOfOnly
  <2>5. Matches(g[n + 1].name, key)
    BY <1>7, SamePrefix DEF Matches
  <2> QED BY <1>7, <2>1, <2>2, <2>4, <2>5 DEF KeyHits
<1>10. KeyHits(f, section, key) = {}
  BY KeyLineIs
<1>11. \A m \in KeyHits(g, section, key) : m = n + 1
  <2> SUFFICES ASSUME NEW m \in KeyHits(g, section, key), m # n + 1 PROVE FALSE
    OBVIOUS
  <2>1. m \in DOMAIN g
    BY DEF KeyHits
  <2>2. PICK p \in DOMAIN f : e[p] = m
    BY <1>4, <2>1
  <2>3. p \in KeyHits(f, section, key)
    BY <1>3, <1>8, <2>2, HitsEmbed
  <2> QED BY <1>10, <2>3
<1>12. KeyLine(g, section, key) = n + 1
  BY <1>3, <1>9, <1>11, KeyLineIs
<1>13. n + 1 \in DOMAIN g
  BY <1>1, <1>2, <1>3
<1>14. Kept(f, g, section, key, v)
  <2> DEFINE l == n + 1
  <2>1. /\ l \in DOMAIN g /\ KeyLine(g, section, key) = l /\ g[l].value = v
        /\ \A m \in DOMAIN g : m # l /\ g[m].kind = "entry" => \E p \in DOMAIN f : e[p] = m
        /\ \A m \in DOMAIN f : e[m] # l /\ f[m].kind = "entry" =>
             g[e[m]].value = f[m].value \/ f[m].value \in Percent
    BY <1>4, <1>5, <1>7, <1>12, <1>13
  <2> HIDE DEF l
  <2> QED BY <1>3, <1>8, <2>1, KeptWhen
<1> QED BY <1>3, <1>14 DEF g

\* The first case: there is no section.
LEMMA AddedKeeps ==
  ASSUME NEW f \in Seq(Line), NEW section \in Name, NEW key \in Name, NEW v \in Value,
         SectionLine(f, section) = Missing
  PROVE  /\ Added(f, section, key, v) \in Seq(Line)
         /\ Kept(f, Added(f, section, key, v), section, key, v)
<1> DEFINE g == Added(f, section, key, v)
           e == [m \in DOMAIN f |-> m]
<1>1. DOMAIN f = 1 .. Len(f) /\ Len(f) \in Nat
  BY Lined
<1>2. Header(section) \in Line /\ Entry(key, v) \in Line /\ Other \in Line
  BY DEF Line
<1>3. PICK l \in Nat :
        /\ l > Len(f) + 1 /\ g \in Seq(Line) /\ DOMAIN g = 1 .. l
        /\ g[l] = Entry(key, v) /\ g[l - 1] = Header(section)
        /\ \A m \in 1 .. Len(f) : g[m] = f[m]
        /\ \A m \in Len(f) + 1 .. l - 2 : g[m] = Other
  <2>1. CASE f = <<>>
    <3>1. g = <<Header(section), Entry(key, v)>> /\ Len(f) = 0
      BY <2>1 DEF Added
    <3>2. /\ g \in Seq(Line) /\ DOMAIN g = 1 .. 2 /\ g[2] = Entry(key, v) /\ g[2 - 1] = Header(section)
      BY <1>2, <3>1
    <3> HIDE DEF g
    <3> QED BY <1>1, <3>1, <3>2
  <2>2. CASE f # <<>>
    <3> DEFINE new == <<Other, Header(section), Entry(key, v)>>
    <3>1. g = f \o new
      BY <2>2 DEF Added
    <3>2. new \in Seq(Line) /\ Len(new) = 3 /\ new[1] = Other /\ new[2] = Header(section)
          /\ new[3] = Entry(key, v)
      BY <1>2
    <3> HIDE DEF g, new
    <3>3. /\ g \in Seq(Line) /\ Len(g) = Len(f) + 3
          /\ \A m \in 1 .. Len(f) : g[m] = f[m]
          /\ \A m \in 1 .. 3 : g[Len(f) + m] = new[m]
      <4>1. /\ g \in Seq(Line) /\ Len(g) = Len(f) + Len(new)
            /\ \A m \in 1 .. Len(f) : g[m] = f[m]
            /\ \A m \in 1 .. Len(new) : g[Len(f) + m] = new[m]
        BY <3>1, <3>2, Joined
      <4> QED BY <3>2, <4>1
    <3>4. DOMAIN g = 1 .. Len(f) + 3
      BY <3>3
    <3>5. g[Len(f) + 1] = Other /\ g[Len(f) + 2] = Header(section) /\ g[Len(f) + 3] = Entry(key, v)
      <4>1. 1 \in 1 .. 3 /\ 2 \in 1 .. 3 /\ 3 \in 1 .. 3
        OBVIOUS
      <4> QED BY <3>2, <3>3, <4>1
    <3>6. /\ Len(f) + 3 \in Nat /\ Len(f) + 3 > Len(f) + 1 /\ Len(f) + 3 - 1 = Len(f) + 2
          /\ \A m \in Len(f) + 1 .. Len(f) + 3 - 2 : m = Len(f) + 1
      BY <1>1
    <3> QED BY <3>3, <3>4, <3>5, <3>6
  <2> QED BY <2>1, <2>2
<1> HIDE DEF g
<1>4. l \in DOMAIN g /\ l - 1 \in DOMAIN g /\ \A m \in DOMAIN f : m < l - 1 /\ m \in DOMAIN g
  BY <1>1, <1>3
<1>5. /\ g[l].kind = "entry" /\ g[l].name = key /\ g[l].value = v
      /\ g[l - 1].kind = "section" /\ g[l - 1].name = section
  BY <1>3 DEF Entry, Header
<1>6. \A m \in DOMAIN g : m \in DOMAIN f \/ m = l \/ m = l - 1 \/ g[m].kind = "other"
  <2> SUFFICES ASSUME NEW m \in DOMAIN g, m \notin DOMAIN f, m # l, m # l - 1
               PROVE  g[m].kind = "other"
    OBVIOUS
  <2>1. m \in Len(f) + 1 .. l - 2
    BY <1>1, <1>3
  <2> QED BY <1>3, <2>1 DEF Other
<1>7. Embeds(e, f, g)
  <2>1. e \in [DOMAIN f -> DOMAIN g] /\ \A m \in DOMAIN f : e[m] = m /\ g[m] = f[m]
    BY <1>1, <1>3, <1>4
  <2>2. \A h \in Headers(g) : h \in DOMAIN f \/ h = l - 1
    BY <1>5, <1>6 DEF Headers
  <2> HIDE DEF e
  <2> QED BY <1>4, <2>1, <2>2 DEF Embeds
<1>8. SectionHits(f, section) = {} /\ KeyHits(f, section, key) = {}
  BY SectionLineIs DEF KeyHits
<1>9. l \in KeyHits(g, section, key)
  <2>1. l - 1 \in Headers(g) /\ l - 1 \in SectionHits(g, section)
    BY <1>4, <1>5, SamePrefix DEF SectionHits, Headers, Matches
  <2>2. ASSUME NEW h \in Headers(g), h <= l PROVE h <= l - 1
    <3>1. h # l /\ h \in Nat
      BY <1>3, <1>5 DEF Headers
    <3> QED BY <1>3, <2>2, <3>1
  <2>3. HeaderOf(g, l) = l - 1
    <3>1. l - 1 \in Nat /\ l - 1 <= l
      BY <1>1, <1>3
    <3> QED BY <1>3, <2>1, <2>2, <3>1, HeaderOfOnly
  <2> QED BY <1>4, <1>5, <2>1, <2>3, SamePrefix DEF KeyHits, Matches
<1>10. \A m \in DOMAIN f : e[m] = m
  OBVIOUS
<1> HIDE DEF e
<1>11. \A m \in KeyHits(g, section, key) : m = l
  <2> SUFFICES ASSUME NEW m \in KeyHits(g, section, key), m # l PROVE FALSE
    OBVIOUS
  <2>1. m \in DOMAIN f
    BY <1>5, <1>6 DEF KeyHits
  <2>2. m \in KeyHits(f, section, key)
    BY <1>3, <1>7, <1>10, <2>1, HitsEmbed
  <2> QED BY <1>8, <2>2
<1>12. KeyLine(g, section, key) = l
  BY <1>3, <1>9, <1>11, KeyLineIs
<1>13. \A m \in DOMAIN g : m # l /\ g[m].kind = "entry" => \E p \in DOMAIN f : e[p] = m
  BY <1>5, <1>6, <1>10
<1>14. \A m \in DOMAIN f : g[e[m]].value = f[m].value
  BY <1>1, <1>3, <1>10
<1>15. Kept(f, g, section, key, v)
  BY <1>3, <1>4, <1>5, <1>7, <1>12, <1>13, <1>14, KeptWhen, SMTT(20)
<1> QED BY <1>3, <1>15 DEF g

LEMMA WrittenKeeps ==
  ASSUME NEW f \in Seq(Line), NEW section \in Name, NEW key \in Name, NEW v \in Value
  PROVE  /\ Written(f, section, key, v) \in Seq(Line)
         /\ Kept(f, Written(f, section, key, v), section, key, v)
BY AddedKeeps, InsertedKeeps, UpdatedKeeps DEF Written

\* A file stays a sequence of lines.
FileOK == file \in Seq(Line)

LEMMA FileInit == Init => FileOK
BY InputsAssumption DEF Init, FileOK

LEMMA FileStep == FileOK /\ [Next]_vars => FileOK'
<1> SUFFICES ASSUME file \in Seq(Line), [Next]_vars PROVE file' \in Seq(Line)
  BY DEF FileOK
<1>1. ASSUME NEW setting \in Settable, Write(setting[1], setting[2], setting[3])
      PROVE  file' \in Seq(Line)
  <2>1. setting[1] \in Name /\ setting[2] \in Name /\ setting[3] \in Value
    BY InputsAssumption
  <2> QED BY <1>1, <2>1, WrittenKeeps DEF Write
<1>2. CASE UNCHANGED vars
  BY <1>2 DEF vars
<1>3. CASE Truncate
  <2>1. file' = <<>>
    BY <1>3 DEF Truncate
  <2> QED BY <2>1
<1>4. ASSUME NEW c, Grow(c) PROVE file' \in Seq(Line)
  BY <1>4 DEF Grow
<1> QED BY <1>1, <1>2, <1>3, <1>4 DEF Next

\* What was written is read back and the other settings are left alone, for
\* files of any length and all names and values: unless the file confuses the
\* two keys and their sections, or the value has a '%' (ini_file.c:240-307).
THEOREM WriteKeeps == Spec => WriteKeepsOthers
<1>1. FileOK /\ [Next]_vars =>
        [wrote' \notin {wrote, None} =>
           /\ ReadAll(file', wrote'[1], wrote'[2]) = Cut(wrote'[3], Size)
           /\ \A section, key \in Name :
                \/ ReadAll(file', section, key) = ReadAll(file, section, key)
                \/ Confused(file', section, wrote'[1]) /\ Confused(file', key, wrote'[2])
                \/ HasPercent(file, section, key)]_vars
  <2> SUFFICES ASSUME FileOK, Next, wrote' \notin {wrote, None}
               PROVE  /\ ReadAll(file', wrote'[1], wrote'[2]) = Cut(wrote'[3], Size)
                      /\ \A section, key \in Name :
                           \/ ReadAll(file', section, key) = ReadAll(file, section, key)
                           \/ Confused(file', section, wrote'[1]) /\ Confused(file', key, wrote'[2])
                           \/ HasPercent(file, section, key)
    BY DEF vars
  <2>1. PICK setting \in Settable : Write(setting[1], setting[2], setting[3])
    BY DEF Next, Truncate, Grow
  <2>2. setting[1] \in Name /\ setting[2] \in Name /\ setting[3] \in Value
    BY InputsAssumption
  <2>3. /\ wrote'[1] = setting[1] /\ wrote'[2] = setting[2] /\ wrote'[3] = setting[3]
        /\ file' = Written(file, setting[1], setting[2], setting[3])
    BY <2>1 DEF Write
  <2>4. Kept(file, file', setting[1], setting[2], setting[3])
    BY <2>2, <2>3, WrittenKeeps DEF FileOK
  <2> QED BY <2>3, <2>4 DEF Kept
<1> QED BY <1>1, FileInit, FileStep, PTL DEF Spec, WriteKeepsOthers

-----------------------------------------------------------------------------
(* What load_config makes of a file. *)

\* The names are a sequence of words.
LEMMA NamesAre ==
  ASSUME NEW f \in Seq(Line)
  PROVE  DbNames(f) \in Seq(Seq(Nat))
<1> DEFINE n == KeyLine(f, DbInfo, DbsName)
<1>1. CASE n = Missing
  <2>1. DbNames(f) = <<>>
    BY <1>1 DEF DbNames, ReadProfile
  <2> QED BY <2>1
<1>2. CASE n # Missing
  <2>1. n \in DOMAIN f /\ f[n].kind = "entry"
    BY <1>2, KeyLineIs DEF KeyHits
  <2>2. f[n].value \in Seq(Seq(Nat))
    BY <2>1, Lined, IniFileAssumption
  <2>3. ASSUME NEW v \in Seq(Seq(Nat)) PROVE Cut(v, Size) \in Seq(Seq(Nat))
    <3>1. Size - 1 \in Nat /\ Len(v) \in Nat
      BY ConfigAssumption
    <3> QED BY <3>1 DEF Cut
  <2>4. DbNames(f) = Cut(f[n].value, Size)
    BY <1>2 DEF DbNames, ReadProfile
  <2> QED BY <2>2, <2>3, <2>4
<1> QED BY <1>1, <1>2

Usable(f, x) == Loadable(f, x) /\ ReadInt(f, x, DbType) \in KnownTypes

\* The loop of load_config over the first l names.
MadeLoop(made, f, names, l) ==
  made = [n \in 0 .. l |->
            IF n = 0 THEN <<>>
            ELSE IF Usable(f, names[n]) THEN Append(made[n - 1], Settings(f, names[n]))
            ELSE made[n - 1]]

LEMMA SomeMade ==
  ASSUME NEW f, NEW names, NEW l \in Nat
  PROVE  \E made : MadeLoop(made, f, names, l)
<1> DEFINE T == {m \in Nat : ~ \E made : MadeLoop(made, f, names, m)}
           More(a, m) == IF Usable(f, names[m]) THEN Append(a, Settings(f, names[m])) ELSE a
<1> SUFFICES ASSUME T # {} PROVE FALSE
  OBVIOUS
<1>1. PICK m \in T : \A k \in T : m <= k
  BY Least
<1>2. CASE m = 0
  <2>1. MadeLoop([n \in 0 .. 0 |-> <<>>], f, names, 0)
    BY DEF MadeLoop
  <2> QED BY <1>1, <1>2, <2>1
<1>3. CASE m # 0
  <2>1. m - 1 \in Nat /\ m - 1 \notin T
    BY <1>1, <1>3
  <2>2. PICK a : MadeLoop(a, f, names, m - 1)
    BY <2>1
  <2> DEFINE b == [n \in 0 .. m |-> IF n = m THEN More(a[m - 1], m) ELSE a[n]]
  <2> HIDE DEF More
  <2>3. ASSUME NEW n \in 0 .. m
        PROVE  b[n] = IF n = 0 THEN <<>> ELSE More(b[n - 1], n)
    <3>1. CASE n = m
      <4>1. b[n - 1] = a[m - 1] /\ n # 0
        BY <1>3, <3>1
      <4> QED BY <3>1, <4>1
    <3>2. CASE n # m
      <4>1. n \in 0 .. m - 1 /\ b[n] = a[n]
        BY <3>2
      <4>2. a[n] = IF n = 0 THEN <<>> ELSE More(a[n - 1], n)
        BY <2>2, <4>1 DEF MadeLoop, More
      <4>3. n # 0 => b[n - 1] = a[n - 1]
        BY <4>1
      <4> HIDE DEF b
      <4> QED BY <4>1, <4>2, <4>3
    <3> QED BY <3>1, <3>2
  <2>4. b = [n \in 0 .. m |-> IF n = 0 THEN <<>> ELSE More(b[n - 1], n)]
    <3>1. b = [n \in 0 .. m |-> b[n]]
      OBVIOUS
    <3> HIDE DEF b
    <3> QED BY <2>3, <3>1
  <2>5. MadeLoop(b, f, names, m)
    <3> HIDE DEF b
    <3> QED BY <2>4 DEF MadeLoop, More
  <2> QED BY <1>1, <2>5
<1> QED BY <1>2, <1>3

\* It makes an interface with its settings for each name that is usable, and no
\* others.
LEMMA MadeIs ==
  ASSUME NEW f \in Seq(Line)
  PROVE  /\ Len(Made(f)) \in Nat /\ DOMAIN Made(f) = 1 .. Len(Made(f))
         /\ \A n \in DOMAIN Made(f) :
              \E x \in Range(DbNames(f)) : Usable(f, x) /\ Made(f)[n] = Settings(f, x)
         /\ \A x \in Range(DbNames(f)) :
              Usable(f, x) => \E n \in DOMAIN Made(f) : Made(f)[n] = Settings(f, x)
<1> DEFINE names == DbNames(f)
           l == Len(names)
           A == CHOOSE made : MadeLoop(made, f, names, l)
<1>1. Made(f) = A[l]
  BY DEF Made, MadeLoop, Usable
<1>2. l \in Nat /\ DOMAIN names = 1 .. l
  BY NamesAre
<1> HIDE DEF names, l
<1>3. MadeLoop(A, f, names, l)
  BY <1>2, SomeMade
<1> HIDE DEF A
<1> DEFINE Right(m) ==
      /\ A[m] \in Seq({Settings(f, names[j]) : j \in 1 .. m})
      /\ \A n \in DOMAIN A[m] :
           \E j \in 1 .. m : Usable(f, names[j]) /\ A[m][n] = Settings(f, names[j])
      /\ \A j \in 1 .. m :
           Usable(f, names[j]) => \E n \in DOMAIN A[m] : A[m][n] = Settings(f, names[j])
           T == {m \in 0 .. l : ~Right(m)}
<1>4. T = {}
  <2> SUFFICES ASSUME T # {} PROVE FALSE
    OBVIOUS
  <2>1. PICK m \in T : \A k \in T : m <= k
    <3>1. T \subseteq Nat
      BY <1>2
    <3> HIDE DEF T
    <3> QED BY <3>1, Least
  <2>2. m \in 0 .. l /\ m \in Nat
    BY <1>2, <2>1
  <2>3. CASE m = 0
    <3>1. A[m] = <<>>
      BY <1>3, <2>2, <2>3 DEF MadeLoop
    <3>2. Right(m)
      BY <2>3, <3>1
    <3> QED BY <2>1, <3>2
  <2>4. CASE m # 0
    <3>1. m - 1 \in 0 .. l /\ m - 1 \notin T /\ m - 1 \in Nat
      <4> HIDE DEF T
      <4> QED BY <1>2, <2>1, <2>2, <2>4
    <3>2. Right(m - 1)
      BY <3>1
    <3> DEFINE a == A[m - 1]
               S == {Settings(f, names[j]) : j \in 1 .. m}
    <3>3. a \in Seq(S)
      <4>1. {Settings(f, names[j]) : j \in 1 .. m - 1} \subseteq S
        BY <3>1
      <4> QED BY <3>2, <4>1
    <3>4. CASE Usable(f, names[m])
      <4>1. A[m] = Append(a, Settings(f, names[m]))
        BY <1>3, <2>2, <2>4, <3>4 DEF MadeLoop
      <4>2. Settings(f, names[m]) \in S
        BY <2>2, <2>4
      <4> DEFINE new == Settings(f, names[m])
      <4>3. /\ A[m] \in Seq(S) /\ DOMAIN A[m] = DOMAIN a \cup {Len(a) + 1}
            /\ A[m][Len(a) + 1] = new /\ \A n \in DOMAIN a : A[m][n] = a[n]
        <5> HIDE DEF new, a, S
        <5>1. Len(a) \in Nat /\ DOMAIN a = 1 .. Len(a)
          BY <3>3
        <5> QED BY <3>3, <4>1, <4>2, <5>1 DEF new
      <4>4. ASSUME NEW n \in DOMAIN A[m]
            PROVE  \E j \in 1 .. m : Usable(f, names[j]) /\ A[m][n] = Settings(f, names[j])
        <5>1. CASE n \in DOMAIN a
          <6>1. PICK j \in 1 .. m - 1 : Usable(f, names[j]) /\ a[n] = Settings(f, names[j])
            BY <3>2, <5>1
          <6>2. j \in 1 .. m
            BY <2>2
          <6> QED BY <4>3, <5>1, <6>1, <6>2
        <5>2. CASE n = Len(a) + 1
          <6>1. m \in 1 .. m
            BY <2>2, <2>4
          <6> QED BY <3>4, <4>3, <5>2, <6>1
        <5> QED BY <4>3, <5>1, <5>2
      <4>5. ASSUME NEW j \in 1 .. m, Usable(f, names[j])
            PROVE  \E n \in DOMAIN A[m] : A[m][n] = Settings(f, names[j])
        <5>1. CASE j = m
          BY <4>3, <5>1
        <5>2. CASE j # m
          <6>1. j \in 1 .. m - 1
            BY <2>2, <5>2
          <6>2. PICK n \in DOMAIN a : a[n] = Settings(f, names[j])
            BY <3>2, <4>5, <6>1
          <6> QED BY <4>3, <6>2
        <5> QED BY <5>1, <5>2
      <4>6. Right(m)
        BY <4>3, <4>4, <4>5
      <4> QED BY <2>1, <4>6
    <3>5. CASE ~Usable(f, names[m])
      <4>1. A[m] = a
        BY <1>3, <2>2, <2>4, <3>5 DEF MadeLoop
      <4>2. \A j \in 1 .. m : j = m \/ j \in 1 .. m - 1
        BY <2>2
      <4>3. 1 .. m - 1 \subseteq 1 .. m
        BY <2>2
      <4>4. Right(m)
        BY <3>2, <3>3, <3>5, <4>1, <4>2, <4>3, SMTT(20)
      <4> QED BY <2>1, <4>4
    <3> QED BY <3>4, <3>5
  <2> QED BY <2>3, <2>4
<1>5. Right(l)
  <2>1. l \in 0 .. l
    BY <1>2
  <2> HIDE DEF Right
  <2> QED BY <1>4, <2>1
<1>6. Len(A[l]) \in Nat /\ DOMAIN A[l] = 1 .. Len(A[l])
  BY <1>5
<1>7. Range(names) = {names[j] : j \in 1 .. l}
  BY <1>2 DEF Range
<1>8. \A n \in DOMAIN A[l] :
        \E x \in Range(names) : Usable(f, x) /\ A[l][n] = Settings(f, x)
  BY <1>5, <1>7
<1>9. \A x \in Range(names) :
        Usable(f, x) => \E n \in DOMAIN A[l] : A[l][n] = Settings(f, x)
  BY <1>5, <1>7
<1> QED BY <1>1, <1>6, <1>8, <1>9 DEF names

\* When no other name in the file is the beginning of the names asked for, what
\* is found is what has the name.
LEMMA ReadsExactly ==
  ASSUME NEW f \in Seq(Line), NEW section, NEW key, NEW size, NEW default,
         \A n \in DOMAIN f : f[n].kind # "other" =>
           /\ IsPrefix(f[n].name, section) => f[n].name = section
           /\ IsPrefix(f[n].name, key) => f[n].name = key
  PROVE  /\ ReadProfile(f, section, key, size, default) = ReadExactly(f, section, key, size, default)
         /\ KeyLine(f, section, key) = Missing <=> ExactHits(f, section, key) = {}
<1> DEFINE hits == ExactHits(f, section, key)
<1>1. ASSUME NEW n \in DOMAIN f PROVE n \in KeyHits(f, section, key) <=> n \in hits
  <2> DEFINE h == HeaderOf(f, n)
  <2>1. h \in {0} \cup Headers(f) /\ Headers(f) \subseteq DOMAIN f /\ 0 \notin Headers(f)
    BY Lined, HeaderOfIs, HeadersAre
  <2>2. f[n].kind = "entry" => (IsPrefix(f[n].name, key) <=> f[n].name = key)
    BY Lined, SamePrefix
  <2>3. h \in SectionHits(f, section) <=> h # 0 /\ f[h].name = section
    <3> HIDE DEF h
    <3>1. h \in Headers(f) =>
            f[h].kind = "section" /\ (IsPrefix(f[h].name, section) <=> f[h].name = section)
      BY <2>1, Lined, SamePrefix DEF Headers
    <3> QED BY <2>1, <3>1 DEF SectionHits, Matches
  <2>4. n \in KeyHits(f, section, key) <=>
          f[n].kind = "entry" /\ IsPrefix(f[n].name, key) /\ h \in SectionHits(f, section)
    BY DEF KeyHits, Matches
  <2>5. n \in hits <=> f[n].kind = "entry" /\ f[n].name = key /\ h # 0 /\ f[h].name = section
    BY DEF ExactHits
  <2> HIDE DEF h, hits
  <2> QED BY <2>2, <2>3, <2>4, <2>5
<1>2. KeyHits(f, section, key) = hits
  <2>1. KeyHits(f, section, key) \subseteq DOMAIN f /\ hits \subseteq DOMAIN f
    BY DEF KeyHits, ExactHits
  <2> HIDE DEF hits
  <2> QED BY <1>1, <2>1
<1>3. hits # {} => Min(hits) # Missing
  <2>1. hits \subseteq Nat
    BY <1>2, HitsAre
  <2> HIDE DEF hits
  <2> QED BY <2>1, MinIs DEF Missing
<1>4. ReadExactly(f, section, key, size, default) =
        IF hits = {} THEN default ELSE Cut(f[Min(hits)].value, size)
  BY DEF ReadExactly
<1>5. KeyLine(f, section, key) = IF hits = {} THEN Missing ELSE Min(hits)
  BY <1>2 DEF KeyLine
<1> QED
  <2> HIDE DEF hits
  <2>1. KeyLine(f, section, key) = Missing <=> hits = {}
    BY <1>3, <1>5
  <2>2. ReadProfile(f, section, key, size, default) = ReadExactly(f, section, key, size, default)
    BY <1>3, <1>4, <1>5 DEF ReadProfile
  <2> QED BY <2>1, <2>2 DEF hits

LEMMA ByFieldIs ==
  ASSUME NEW made, NEW field, NEW l \in Nat, DOMAIN made = 1 .. l
  PROVE  /\ DOMAIN ByField(made, field) = {made[n][field] : n \in DOMAIN made}
         /\ \A n \in DOMAIN made :
              LET first == ByField(made, field)[made[n][field]]
              IN  first \in DOMAIN made /\ made[first][field] = made[n][field] /\ first <= n
<1>1. DOMAIN ByField(made, field) = {made[n][field] : n \in DOMAIN made}
  BY DEF ByField
<1>2. ASSUME NEW n \in DOMAIN made
      PROVE  LET first == ByField(made, field)[made[n][field]]
             IN  first \in DOMAIN made /\ made[first][field] = made[n][field] /\ first <= n
  <2> DEFINE T == {m \in DOMAIN made : made[m][field] = made[n][field]}
  <2>1. ByField(made, field)[made[n][field]] = Min(T)
    BY DEF ByField, FirstWith
  <2>2. T \subseteq Nat /\ n \in T
    OBVIOUS
  <2>3. Min(T) \in T /\ Min(T) <= n
    <3> HIDE DEF T
    <3> QED BY <2>2, MinIs
  <2> QED BY <2>1, <2>3
<1> QED BY <1>1, <1>2

LEMMA OwnSettings ==
  ASSUME NEW f \in Seq(Line), Unrelated(f), NEW x \in Range(DbNames(f))
  PROVE  /\ Settings(f, x) =
              [name |-> x, id |-> Number(ReadExactly(f, x, DbId, Size, None)) % IdWidth,
               type |-> Number(ReadExactly(f, x, DbType, Size, None)),
               place |-> [key \in Place |-> ReadExactly(f, x, key, Size, None)]]
         /\ Usable(f, x) <=>
              /\ \A key \in Place : ExactHits(f, x, key) # {}
              /\ Number(ReadExactly(f, x, DbType, Size, None)) \in KnownTypes
<1>1. ASSUME NEW key \in {DbId, DbType} \cup Place
      PROVE  /\ ReadProfile(f, x, key, Size, <<>>) = ReadExactly(f, x, key, Size, <<>>)
             /\ KeyLine(f, x, key) = Missing <=> ExactHits(f, x, key) = {}
  <2>1. \A n \in DOMAIN f : f[n].kind # "other" =>
          /\ IsPrefix(f[n].name, x) => f[n].name = x
          /\ IsPrefix(f[n].name, key) => f[n].name = key
    BY DEF Unrelated, Asked
  <2> QED BY <2>1, ReadsExactly, ZenonT(40)
<1>2. None = <<>>
  BY DEF None
<1> QED BY <1>1, <1>2 DEF Settings, Usable, Loadable, ReadInt

LEMMA Loads == FileOK => LoadsAsWritten
<1> SUFFICES ASSUME file \in Seq(Line), Unrelated(file) PROVE LoadsAsWritten
  BY DEF FileOK, LoadsAsWritten
<1> DEFINE made == Made(file)
           names == DbNames(file)
           own(x, key) == ReadExactly(file, x, key, Size, None)
           whole(x) == /\ \A key \in Place : ExactHits(file, x, key) # {}
                       /\ Number(own(x, DbType)) \in KnownTypes
           ids == ByDbId(made)
           byName == ByName(made)
<1>1. /\ Len(made) \in Nat /\ DOMAIN made = 1 .. Len(made)
      /\ \A n \in DOMAIN made :
           \E x \in Range(names) : Usable(file, x) /\ made[n] = Settings(file, x)
      /\ \A x \in Range(names) :
           Usable(file, x) => \E n \in DOMAIN made : made[n] = Settings(file, x)
  BY MadeIs
<1>2. \A x \in Range(names) :
        /\ Settings(file, x) =
             [name |-> x, id |-> Number(own(x, DbId)) % IdWidth,
              type |-> Number(own(x, DbType)), place |-> [key \in Place |-> own(x, key)]]
        /\ Usable(file, x) <=> whole(x)
  BY OwnSettings
<1> HIDE DEF made, names, own, whole
<1>3. /\ DOMAIN byName = {made[n].name : n \in DOMAIN made}
      /\ \A n \in DOMAIN made :
           /\ byName[made[n].name] \in DOMAIN made
           /\ made[byName[made[n].name]].name = made[n].name
  <2>1. /\ DOMAIN ByField(made, "name") = {made[n]["name"] : n \in DOMAIN made}
        /\ \A n \in DOMAIN made :
             LET first == ByField(made, "name")[made[n]["name"]]
             IN  first \in DOMAIN made /\ made[first]["name"] = made[n]["name"] /\ first <= n
    BY <1>1, ByFieldIs
  <2> QED BY <2>1 DEF ByName
<1>4. /\ DOMAIN ids = {made[n].id : n \in DOMAIN made}
      /\ \A n \in DOMAIN made :
           ids[made[n].id] \in DOMAIN made /\ made[ids[made[n].id]].id = made[n].id
  <2>1. /\ DOMAIN ByField(made, "id") = {made[n]["id"] : n \in DOMAIN made}
        /\ \A n \in DOMAIN made :
             LET first == ByField(made, "id")[made[n]["id"]]
             IN  first \in DOMAIN made /\ made[first]["id"] = made[n]["id"] /\ first <= n
    BY <1>1, ByFieldIs
  <2> QED BY <2>1 DEF ByDbId
<1> HIDE DEF ids, byName
<1>5. ASSUME NEW x \in Range(names), whole(x)
      PROVE  x \in DOMAIN byName
  <2>1. PICK n \in DOMAIN made : made[n] = Settings(file, x)
    BY <1>1, <1>2, <1>5
  <2>2. made[n].name = x
    BY <2>1 DEF Settings
  <2> QED BY <1>3, <2>1, <2>2
<1>7. ASSUME NEW x \in DOMAIN byName
      PROVE  /\ x \in Range(names) /\ whole(x)
             /\ made[byName[x]] =
                  [name |-> x, id |-> Number(own(x, DbId)) % IdWidth,
                   type |-> Number(own(x, DbType)), place |-> [key \in Place |-> own(x, key)]]
  <2>1. byName[x] \in DOMAIN made /\ made[byName[x]].name = x
    BY <1>3
  <2>2. PICK y \in Range(names) : Usable(file, y) /\ made[byName[x]] = Settings(file, y)
    BY <1>1, <2>1
  <2>3. y = x
    BY <2>1, <2>2 DEF Settings
  <2> QED BY <1>2, <2>2, <2>3
<1>8. DOMAIN byName = {x \in Range(names) : whole(x)}
  BY <1>5, <1>7
<1>6. ASSUME \A m, n \in DOMAIN made : m # n => made[m].id # made[n].id
      PROVE  /\ \A n \in DOMAIN made : ids[made[n].id] = n
             /\ NeverDeleted(made) = {} /\ NeverDeletedGlobal(made) = {}
  <2>1. ASSUME NEW n \in DOMAIN made PROVE ids[made[n].id] = n
    BY <1>4, <1>6
  <2>2. ASSUME NEW n \in DOMAIN made PROVE n \in Range(ids)
    BY <1>4, <2>1 DEF Range
  <2>3. ASSUME NEW n \in DOMAIN made PROVE n \in Range(byName)
    <3> DEFINE k == byName[made[n].name]
    <3>1. k \in DOMAIN made /\ made[k].name = made[n].name /\ made[n].name \in DOMAIN byName
      BY <1>3
    <3>2. PICK x \in Range(names) : made[n] = Settings(file, x)
      BY <1>1
    <3>3. PICK y \in Range(names) : made[k] = Settings(file, y)
      BY <1>1, <3>1
    <3>4. x = y
      BY <3>1, <3>2, <3>3 DEF Settings
    <3>5. made[k].id = made[n].id
      BY <3>2, <3>3, <3>4
    <3>6. k = n
      BY <1>6, <3>1, <3>5
    <3> QED BY <3>1, <3>6 DEF Range
  <2> QED BY <2>1, <2>2, <2>3 DEF NeverDeleted, NeverDeletedGlobal, ids, byName
<1> QED BY <1>6, <1>7, <1>8 DEF LoadsAsWritten, made, names, own, whole, ids, byName

\* A file whose names are unrelated is loaded as it is written, whatever its
\* length: the listed databases whose section has an address, a port and a known
\* type, and no others, get an interface with their own section's settings, and
\* when the ids differ everything that was made is found and deleted
\* (db_company.h:156-178, db_interface.h:85-164).
THEOREM Loaded == Spec => []LoadsAsWritten
BY FileInit, FileStep, Loads, PTL DEF Spec

-----------------------------------------------------------------------------
(* Texts of bytes. *)

Bytes == 0 .. 255

\* The loop of _isUTF8_ over l bytes ...
UTF8Loop(h, str, l) == h = [n \in 0 .. l |-> IF n = 0 THEN 0 ELSE AfterByte(h[n - 1], str[n])]

\* ... computes something for each byte.
LEMMA SomeUTF8Loop ==
  ASSUME NEW str, NEW l \in Nat
  PROVE  \E h : UTF8Loop(h, str, l)
<1> DEFINE T == {m \in Nat : ~ \E h : UTF8Loop(h, str, m)}
<1> SUFFICES ASSUME T # {} PROVE FALSE
  OBVIOUS
<1>1. PICK m \in T : \A k \in T : m <= k
  BY Least
<1>2. CASE m = 0
  <2>1. UTF8Loop([n \in 0 .. 0 |-> 0], str, 0)
    BY DEF UTF8Loop
  <2> QED BY <1>1, <1>2, <2>1
<1>3. CASE m # 0
  <2>1. m - 1 \in Nat /\ m - 1 \notin T
    BY <1>1, <1>3
  <2>2. PICK a : UTF8Loop(a, str, m - 1)
    BY <2>1
  <2> DEFINE b == [n \in 0 .. m |-> IF n = m THEN AfterByte(a[m - 1], str[m]) ELSE a[n]]
  <2>3. ASSUME NEW n \in 0 .. m
        PROVE  b[n] = IF n = 0 THEN 0 ELSE AfterByte(b[n - 1], str[n])
    <3>1. CASE n = m
      <4>1. b[n - 1] = a[m - 1] /\ n # 0
        BY <1>3, <3>1
      <4> QED BY <3>1, <4>1
    <3>2. CASE n # m
      <4>1. n \in 0 .. m - 1 /\ b[n] = a[n]
        BY <3>2
      <4>2. a[n] = IF n = 0 THEN 0 ELSE AfterByte(a[n - 1], str[n])
        BY <2>2, <4>1 DEF UTF8Loop
      <4>3. n # 0 => b[n - 1] = a[n - 1]
        BY <4>1
      <4> HIDE DEF b
      <4> QED BY <4>1, <4>2, <4>3
    <3> QED BY <3>1, <3>2
  <2>4. b = [n \in 0 .. m |-> b[n]]
    OBVIOUS
  <2>5. UTF8Loop(b, str, m)
    <3> HIDE DEF b
    <3> QED BY <2>3, <2>4 DEF UTF8Loop
  <2> QED BY <1>1, <2>5
<1> QED BY <1>2, <1>3

LEMMA IsUTF8Is ==
  ASSUME NEW str \in Seq(Bytes)
  PROVE  \E h : UTF8Loop(h, str, Len(str)) /\ (IsUTF8(str) <=> h[Len(str)] = 0)
<1> DEFINE h == CHOOSE g : UTF8Loop(g, str, Len(str))
<1>1. UTF8Loop(h, str, Len(str))
  <2>1. \E g : UTF8Loop(g, str, Len(str))
    BY SomeUTF8Loop
  <2> QED BY <2>1
<1>2. IsUTF8(str) <=> h[Len(str)] = 0
  BY DEF IsUTF8, UTF8Loop
<1> QED BY <1>1, <1>2

\* Which ends of a text of size l are a row of characters, from the kth byte
\* on; chars has the first and the last byte of each.
Rows(h, chars, l, k) ==
  h = [n \in k .. l + 1 |-> n = l + 1 \/ \E m \in n .. l : <<n, m>> \in chars /\ h[m + 1]]

LEMMA SomeRows ==
  ASSUME NEW chars, NEW l \in Nat
  PROVE  \E h : Rows(h, chars, l, 1)
<1> DEFINE T == {d \in Nat : d <= l /\ ~ \E h : Rows(h, chars, l, l + 1 - d)}
<1>1. ASSUME T # {} PROVE FALSE
  <2>1. PICK d \in T : \A k \in T : d <= k
    BY <1>1, Least
  <2> DEFINE p == l + 1 - d
  <2>2. p \in 1 .. l + 1
    BY <2>1
  <2>3. CASE d = 0
    <3> DEFINE a == [n \in l + 1 .. l + 1 |-> TRUE]
    <3>1. ASSUME NEW n \in l + 1 .. l + 1
          PROVE  (n = l + 1 \/ \E m \in n .. l : <<n, m>> \in chars /\ a[m + 1]) = TRUE
      <4>1. n = l + 1
        OBVIOUS
      <4> QED BY <4>1
    <3>2. Rows(a, chars, l, l + 1)
      BY <3>1 DEF Rows
    <3> QED BY <2>1, <2>3, <3>2
  <2>4. CASE d # 0
    <3>1. d - 1 \in Nat /\ d - 1 \notin T /\ d - 1 <= l /\ l + 1 - (d - 1) = p + 1
      BY <2>1, <2>4
    <3>2. PICK a : Rows(a, chars, l, p + 1)
      <4>1. \E a : Rows(a, chars, l, l + 1 - (d - 1))
        BY <3>1
      <4> QED BY <3>1, <4>1
    <3>3. p <= l
      BY <2>1, <2>4
    <3> HIDE DEF p
    <3> DEFINE Begins(h, n) == n = l + 1 \/ \E m \in n .. l : <<n, m>> \in chars /\ h[m + 1]
               b == [n \in p .. l + 1 |-> IF n = p THEN Begins(a, p) ELSE a[n]]
    <3>4. ASSUME NEW n \in p + 1 .. l + 1 PROVE b[n] = a[n] /\ a[n] = Begins(a, n)
      <4>1. n \in p .. l + 1 /\ n # p
        BY <2>2
      <4>2. b[n] = a[n]
        BY <4>1
      <4> HIDE DEF b
      <4>3. a[n] = Begins(a, n)
        BY <3>2, Zenon DEF Rows
      <4> QED BY <4>2, <4>3
    <3>5. b[p] = Begins(a, p)
      BY <2>2
    <3> HIDE DEF b
    <3>6. ASSUME NEW n \in p .. l + 1 PROVE Begins(a, n) = Begins(b, n)
      <4>1. \A m \in n .. l : b[m + 1] = a[m + 1]
        BY <2>2, <3>4
      <4> QED BY <4>1
    <3>7. ASSUME NEW n \in p .. l + 1 PROVE b[n] = Begins(b, n)
      <4>1. n = p \/ n \in p + 1 .. l + 1
        BY <2>2
      <4> HIDE DEF Begins
      <4> QED BY <3>4, <3>5, <3>6, <4>1
    <3>8. b = [n \in p .. l + 1 |-> b[n]]
      BY DEF b
    <3>9. Rows(b, chars, l, p)
      BY <3>7, <3>8 DEF Rows
    <3> QED BY <2>1, <3>9 DEF p
  <2> QED BY <2>3, <2>4
<1>2. l \notin T
  BY <1>1
<1>3. l + 1 - l = 1
  OBVIOUS
<1> QED BY <1>2, <1>3

\* The two grammars are such rows.
LEMMA WellFormedUTF8Is ==
  ASSUME NEW str \in Seq(Bytes)
  PROVE  LET chars == {c \in (1 .. Len(str)) \X (1 .. Len(str)) : CharUTF8(str, c[1], c[2])}
         IN  \E h : Rows(h, chars, Len(str), 1) /\ (WellFormedUTF8(str) <=> h[1])
<1> DEFINE l == Len(str)
           chars == {c \in (1 .. l) \X (1 .. l) : CharUTF8(str, c[1], c[2])}
           Grammar(h) == h = [n \in 1 .. l + 1 |->
                           n = l + 1 \/ \E m \in n .. l : CharUTF8(str, n, m) /\ h[m + 1]]
           h == CHOOSE g : Grammar(g)
<1>1. ASSUME NEW g PROVE Rows(g, chars, l, 1) <=> Grammar(g)
  <2>1. \A n \in 1 .. l + 1 : \A m \in n .. l : <<n, m>> \in chars <=> CharUTF8(str, n, m)
    OBVIOUS
  <2> HIDE DEF chars
  <2>2. [n \in 1 .. l + 1 |->
                           n = l + 1 \/ \E m \in n .. l : CharUTF8(str, n, m) /\ g[m + 1]]
        = [n \in 1 .. l + 1 |-> n = l + 1 \/ \E m \in n .. l : <<n, m>> \in chars /\ g[m + 1]]
    BY <2>1
  <2> QED BY <2>2 DEF Rows
<1>2. Grammar(h)
  <2>1. \E g : Rows(g, chars, l, 1)
    <3>1. l \in Nat
      OBVIOUS
    <3> HIDE DEF l, chars
    <3> QED BY <3>1, SomeRows
  <2> HIDE DEF Grammar
  <2> QED BY <1>1, <2>1
<1>3. WellFormedUTF8(str) <=> h[1]
  BY DEF WellFormedUTF8
<1> HIDE DEF h, Grammar
<1>4. Rows(h, chars, l, 1)
  BY <1>1, <1>2
<1> QED BY <1>3, <1>4

\* The loop at a byte: it never leaves -1, and else counts down.
LEMMA AfterByteIs ==
  ASSUME NEW p \in -1 .. 5, NEW b \in Bytes \ {254, 255}
  PROVE  /\ AfterByte(p, b) \in -1 .. 5
         /\ p = -1 => AfterByte(p, b) = -1
         /\ p > 0 => AfterByte(p, b) = IF IsContinuation(b) THEN p - 1 ELSE -1
         /\ p = 0 /\ b < 128 => AfterByte(p, b) = 0
         /\ p = 0 /\ b \in 128 .. 191 => AfterByte(p, b) = -1
         /\ p = 0 /\ b \in 192 .. 253 =>
              LeadBytes(b) \in 2 .. 6 /\ AfterByte(p, b) = LeadBytes(b) - 1
BY DEF AfterByte, LeadBytes, IsContinuation, Bytes

\* The loop ends with 0 from wherever it finds the rest of a character and then
\* a row of characters, and from nowhere else.
LEMMA UTF8Agrees ==
  ASSUME NEW str \in Seq(Bytes), \A n \in 1 .. Len(str) : str[n] \notin {254, 255}
  PROVE  IsUTF8(str) <=> WellFormedUTF8(str)
<1> DEFINE l == Len(str)
           chars == {c \in (1 .. l) \X (1 .. l) : CharUTF8(str, c[1], c[2])}
<1>1. PICK st : UTF8Loop(st, str, l) /\ (IsUTF8(str) <=> st[l] = 0)
  BY IsUTF8Is
<1>2. PICK h : Rows(h, chars, l, 1) /\ (WellFormedUTF8(str) <=> h[1])
  BY WellFormedUTF8Is
<1>3. l \in Nat /\ \A n \in 1 .. l : str[n] \in Bytes \ {254, 255}
  OBVIOUS
<1>4. st[0] = 0 /\ \A n \in 1 .. l : st[n] = AfterByte(st[n - 1], str[n])
  BY <1>1, <1>3 DEF UTF8Loop
<1>5. ASSUME NEW n \in 1 .. l + 1
      PROVE  h[n] <=> (n = l + 1 \/ \E m \in n .. l : <<n, m>> \in chars /\ h[m + 1])
  <2> HIDE DEF l, chars
  <2>1. h[n] = (n = l + 1 \/ \E m \in n .. l : <<n, m>> \in chars /\ h[m + 1])
    BY <1>2, ZenonT(40) DEF Rows
  <2> QED BY <2>1
<1>6. \A n, m \in 1 .. l : <<n, m>> \in chars <=> CharUTF8(str, n, m)
  OBVIOUS
<1> HIDE DEF l, chars
<1>7. \A n \in 0 .. l : st[n] \in -1 .. 5
  <2> DEFINE T == {n \in Nat : n <= l /\ st[n] \notin -1 .. 5}
  <2> SUFFICES ASSUME T # {} PROVE FALSE
    BY <1>3
  <2>1. PICK n \in T : \A k \in T : n <= k
    BY Least
  <2>2. n # 0
    BY <1>4, <2>1
  <2>3. n \in 1 .. l /\ n - 1 \in Nat /\ n - 1 <= l /\ n - 1 \notin T
    BY <1>3, <2>1, <2>2
  <2>4. st[n - 1] \in -1 .. 5
    BY <2>3
  <2>5. AfterByte(st[n - 1], str[n]) \in -1 .. 5
    BY <1>3, <2>3, <2>4, AfterByteIs
  <2> QED BY <1>4, <2>1, <2>3, <2>5
<1> DEFINE Good(n, p) == /\ n + p <= l
                         /\ \A c \in n + 1 .. n + p : IsContinuation(str[c])
                         /\ h[n + p + 1]
           Says(n) == IF st[n] = -1 THEN st[l] # 0 ELSE st[l] = 0 <=> Good(n, st[n])
<1>8. ASSUME NEW n \in 0 .. l - 1, Says(n + 1) PROVE Says(n)
  <2> DEFINE b == str[n + 1]
             p == st[n]
             q == st[n + 1]
  <2>1. n + 1 \in 1 .. l /\ b \in Bytes \ {254, 255} /\ p \in -1 .. 5 /\ q \in -1 .. 5
        /\ q = AfterByte(p, b) /\ n \in Nat
    <3>1. n + 1 \in 1 .. l /\ (n + 1) - 1 = n /\ n \in 0 .. l /\ n + 1 \in 0 .. l
      BY <1>3
    <3>2. st[n + 1] = AfterByte(st[(n + 1) - 1], str[n + 1])
      BY <1>4, <3>1
    <3> QED BY <1>3, <1>7, <3>1, <3>2
  <2>2. IF q = -1 THEN st[l] # 0 ELSE st[l] = 0 <=> Good(n + 1, q)
    BY <1>8
  <2>3. h[n + 1] <=> \E m \in n + 1 .. l : CharUTF8(str, n + 1, m) /\ h[m + 1]
    <3>1. n + 1 \in 1 .. l + 1 /\ n + 1 # l + 1
      BY <1>3
    <3>2. h[n + 1] <=> \E m \in n + 1 .. l : <<n + 1, m>> \in chars /\ h[m + 1]
      BY <1>5, <3>1
    <3>3. \A m \in n + 1 .. l : <<n + 1, m>> \in chars <=> CharUTF8(str, n + 1, m)
      BY <1>3, <1>6, <2>1
    <3> QED BY <3>2, <3>3
  <2>4. SUFFICES IF p = -1 THEN st[l] # 0 ELSE st[l] = 0 <=> Good(n, p)
    OBVIOUS
  <2> HIDE DEF b, p, q
  <2>5. CASE p = -1
    <3>1. q = -1
      BY <2>1, <2>5, AfterByteIs
    <3> QED BY <2>2, <2>5, <3>1
  <2>6. CASE p > 0
    <3>1. q = IF IsContinuation(b) THEN p - 1 ELSE -1
      BY <2>1, <2>6, AfterByteIs, SMTT(20)
    <3>2. CASE IsContinuation(b)
      <4>1. q = p - 1 /\ q # -1 /\ n + 1 + q = n + p /\ n + 1 + q + 1 = n + p + 1
        BY <2>1, <2>6, <3>1, <3>2
      <4>2. ASSUME NEW c \in n + 1 .. n + p, c \notin n + 1 + 1 .. n + p
            PROVE  IsContinuation(str[c])
        <5>1. c = n + 1
          BY <2>1, <4>2
        <5> QED BY <3>2, <5>1 DEF b
      <4>3. n + 1 + 1 .. n + p \subseteq n + 1 .. n + p
        BY <2>1
      <4>4. Good(n + 1, q) <=> Good(n, p)
        BY <4>1, <4>2, <4>3
      <4> HIDE DEF Good
      <4> QED BY <2>2, <4>1, <4>4, <2>6
    <3>3. CASE ~ IsContinuation(b)
      <4>1. n + 1 \in n + 1 .. n + p
        BY <2>1, <2>6
      <4>2. ~ Good(n, p)
        BY <3>3, <4>1 DEF b
      <4> HIDE DEF Good
      <4> QED BY <2>2, <2>6, <3>1, <3>3, <4>2
    <3> QED BY <3>2, <3>3
  <2>7. CASE p = 0
    <3>1. Good(n, p) <=> h[n + 1]
      BY <1>3, <2>1, <2>7
    <3>2. CASE b < 128
      <4>1. q = 0
        BY <2>1, <2>7, <3>2, AfterByteIs
      <4>2. Good(n + 1, q) <=> h[n + 2]
        BY <1>3, <2>1, <4>1
      <4>3. ASSUME NEW m \in n + 1 .. l PROVE CharUTF8(str, n + 1, m) <=> m = n + 1
        <5>1. b < 128 /\ b \notin 192 .. 253
          BY <2>1, <3>2, SMTT(20) DEF Bytes
        <5>2. str[n + 1] < 128 /\ str[n + 1] \notin 192 .. 253
          BY <5>1 DEF b
        <5> QED BY <5>2, Zenon DEF CharUTF8
      <4>4. h[n + 1] <=> h[n + 2]
        <5>1. n + 1 \in n + 1 .. l /\ n + 1 + 1 = n + 2
          BY <1>3, <2>1
        <5> QED BY <2>3, <4>3, <5>1
      <4> HIDE DEF Good
      <4> QED BY <2>2, <2>7, <3>1, <4>1, <4>2, <4>4
    <3>3. CASE b \in 128 .. 191
      <4>1. q = -1
        BY <2>1, <2>7, <3>3, AfterByteIs
      <4>2. ASSUME NEW m \in n + 1 .. l PROVE ~ CharUTF8(str, n + 1, m)
        <5>1. ~ (b < 128) /\ b \notin 192 .. 253
          BY <3>3
        <5>2. ~ (str[n + 1] < 128) /\ str[n + 1] \notin 192 .. 253
          BY <5>1 DEF b
        <5> QED BY <5>2, Zenon DEF CharUTF8
      <4> HIDE DEF Good
      <4> QED BY <2>2, <2>3, <2>7, <3>1, <4>1, <4>2
    <3>4. CASE b \in 192 .. 253
      <4> DEFINE k == LeadBytes(b)
      <4>1. k \in 2 .. 6 /\ q = k - 1
        BY <2>1, <2>7, <3>4, AfterByteIs
      <4>2. ASSUME NEW m \in n + 1 .. l
            PROVE  CharUTF8(str, n + 1, m) <=>
                     m = n + k /\ \A c \in n + 2 .. n + k : IsContinuation(str[c])
        <5>1. ~ (b < 128) /\ n + 1 + 1 = n + 2
          BY <2>1, <3>4
        <5>2. CharUTF8(str, n + 1, m) <=>
                m - (n + 1) + 1 = k /\ \A c \in n + 1 + 1 .. m : IsContinuation(str[c])
          BY <3>4, <5>1 DEF CharUTF8, b
        <5>3. m - (n + 1) + 1 = k <=> m = n + k
          BY <2>1, <4>1
        <5> HIDE DEF k
        <5> QED BY <5>1, <5>2, <5>3
      <4> HIDE DEF k
      <4>3. q # -1 /\ n + 1 + q = n + k /\ n + 1 + q + 1 = n + k + 1 /\ n + 1 + 1 = n + 2
        BY <2>1, <4>1
      <4>4. Good(n + 1, q) <=>
              n + k <= l /\ (\A c \in n + 2 .. n + k : IsContinuation(str[c])) /\ h[n + k + 1]
        BY <4>3
      <4>5. n + k <= l <=> n + k \in n + 1 .. l
        BY <1>3, <2>1, <4>1
      <4>6. h[n + 1] <=> Good(n + 1, q)
        <5> HIDE DEF Good
        <5> QED BY <2>3, <4>2, <4>4, <4>5
      <4> HIDE DEF Good
      <4> QED BY <2>2, <2>7, <3>1, <4>3, <4>6
    <3> QED BY <2>1, <3>2, <3>3, <3>4, SMTT(20) DEF Bytes
  <2> QED BY <2>1, <2>5, <2>6, <2>7
<1>9. Says(l)
  <2>1. h[l + 1]
    BY <1>3, <1>5
  <2> QED BY <1>3, <1>7, <2>1
<1>10. Says(0)
  <2> DEFINE T == {d \in Nat : d <= l /\ ~ Says(l - d)}
  <2>1. ASSUME T # {} PROVE FALSE
    <3>1. PICK d \in T : \A k \in T : d <= k
      BY <2>1, Least, ZenonT(40)
    <3> HIDE DEF Says
    <3>2. d # 0
      <4>1. l - 0 = l
        BY <1>3
      <4> QED BY <1>9, <3>1, <4>1
    <3>3. d - 1 \in Nat /\ d - 1 <= l /\ d - 1 \notin T /\ l - d \in 0 .. l - 1
          /\ l - (d - 1) = l - d + 1
      BY <1>3, <3>1, <3>2, SMTT(20)
    <3>4. Says(l - (d - 1))
      BY <3>3
    <3> QED BY <1>8, <3>1, <3>3, <3>4
  <2> HIDE DEF Says
  <2>2. l \notin T
    BY <2>1
  <2>3. l - l = 0 /\ l <= l
    BY <1>3
  <2> QED BY <1>3, <2>2, <2>3
<1>11. st[l] = 0 <=> h[1]
  <2>1. Good(0, 0) <=> h[1]
    <3>1. 0 + 0 <= l /\ 0 + 0 + 1 = 1 /\ 0 + 1 .. 0 + 0 = {}
      BY <1>3
    <3> QED BY <3>1
  <2> HIDE DEF Good
  <2> QED BY <1>4, <1>10, <2>1
<1> QED BY <1>1, <1>2, <1>11

LEMMA WellFormedGBKIs ==
  ASSUME NEW str \in Seq(Bytes)
  PROVE  LET chars == {c \in (1 .. Len(str)) \X (1 .. Len(str)) : CharGBK(str, c[1], c[2])}
         IN  \E h : Rows(h, chars, Len(str), 1) /\ (WellFormedGBK(str) <=> h[1])
<1> DEFINE l == Len(str)
           chars == {c \in (1 .. l) \X (1 .. l) : CharGBK(str, c[1], c[2])}
           Grammar(h) == h = [n \in 1 .. l + 1 |->
                           n = l + 1 \/ \E m \in n .. l : CharGBK(str, n, m) /\ h[m + 1]]
           h == CHOOSE g : Grammar(g)
<1>1. ASSUME NEW g PROVE Rows(g, chars, l, 1) <=> Grammar(g)
  <2>1. \A n \in 1 .. l + 1 : \A m \in n .. l : <<n, m>> \in chars <=> CharGBK(str, n, m)
    OBVIOUS
  <2> HIDE DEF chars
  <2>2. [n \in 1 .. l + 1 |->
                           n = l + 1 \/ \E m \in n .. l : CharGBK(str, n, m) /\ g[m + 1]]
        = [n \in 1 .. l + 1 |-> n = l + 1 \/ \E m \in n .. l : <<n, m>> \in chars /\ g[m + 1]]
    BY <2>1
  <2> QED BY <2>2 DEF Rows
<1>2. Grammar(h)
  <2>1. \E g : Rows(g, chars, l, 1)
    <3>1. l \in Nat
      OBVIOUS
    <3> HIDE DEF l, chars
    <3> QED BY <3>1, SomeRows
  <2> HIDE DEF Grammar
  <2> QED BY <1>1, <2>1
<1>3. WellFormedGBK(str) <=> h[1]
  BY DEF WellFormedGBK
<1> HIDE DEF h, Grammar
<1>4. Rows(h, chars, l, 1)
  BY <1>1, <1>2
<1> QED BY <1>3, <1>4

\* The loop of _isGBK_ from the kth byte on.
GBKLoop(h, str, k) ==
  h = [from \in k .. Len(str) + 2 |->
         IF from > Len(str) THEN TRUE
         ELSE IF str[from] < 128 THEN h[from + 1]
         ELSE IF from = Len(str) THEN TRUE
         ELSE str[from] \in 129 .. 254 /\ h[from + 2]]

LEMMA SomeGBKLoop ==
  ASSUME NEW str \in Seq(Bytes)
  PROVE  \E h : GBKLoop(h, str, 1)
<1> DEFINE l == Len(str)
           T == {d \in Nat : d <= l /\ ~ \E h : GBKLoop(h, str, l + 1 - d)}
           Ends(h, n) == IF n > l THEN TRUE
                         ELSE IF str[n] < 128 THEN h[n + 1]
                         ELSE IF n = l THEN TRUE
                         ELSE str[n] \in 129 .. 254 /\ h[n + 2]
<1>1. l \in Nat
  OBVIOUS
<1>2. ASSUME NEW h, NEW k PROVE GBKLoop(h, str, k) <=> h = [n \in k .. l + 2 |-> Ends(h, n)]
  BY DEF GBKLoop
<1> HIDE DEF l
<1>3. ASSUME T # {} PROVE FALSE
  <2>1. PICK d \in T : \A k \in T : d <= k
    BY <1>3, Least
  <2> DEFINE p == l + 1 - d
  <2>2. p \in 1 .. l + 1
    BY <1>1, <2>1
  <2>3. CASE d = 0
    <3> DEFINE a == [n \in l + 1 .. l + 2 |-> TRUE]
    <3>1. ASSUME NEW n \in l + 1 .. l + 2 PROVE Ends(a, n) = TRUE
      <4>1. n > l
        BY <1>1
      <4> QED BY <4>1
    <3>2. GBKLoop(a, str, l + 1)
      <4> HIDE DEF Ends
      <4> QED BY <1>2, <3>1
    <3>3. l + 1 - d = l + 1
      BY <1>1, <2>3
    <3> QED BY <2>1, <3>2, <3>3
  <2>4. CASE d # 0
    <3>1. d - 1 \in Nat /\ d - 1 \notin T /\ d - 1 <= l /\ l + 1 - (d - 1) = p + 1
      BY <1>1, <2>1, <2>4
    <3>2. PICK a : GBKLoop(a, str, p + 1)
      <4>1. \E a : GBKLoop(a, str, l + 1 - (d - 1))
        BY <3>1
      <4> QED BY <3>1, <4>1
    <3>3. p <= l
      BY <1>1, <2>1, <2>4
    <3> HIDE DEF p
    <3> DEFINE b == [n \in p .. l + 2 |-> IF n = p THEN Ends(a, p) ELSE a[n]]
    <3>4. ASSUME NEW n \in p + 1 .. l + 2 PROVE b[n] = a[n] /\ a[n] = Ends(a, n)
      <4>1. n \in p .. l + 2 /\ n # p
        BY <1>1, <2>2
      <4>2. b[n] = a[n]
        BY <4>1
      <4> HIDE DEF b, Ends
      <4>3. a = [m \in p + 1 .. l + 2 |-> Ends(a, m)]
        BY <1>2, <3>2
      <4>4. a[n] = Ends(a, n)
        BY <4>3, Zenon
      <4> QED BY <4>2, <4>4
    <3>5. b[p] = Ends(a, p)
      <4> HIDE DEF Ends
      <4>1. p \in p .. l + 2
        BY <1>1, <2>2
      <4> QED BY <4>1
    <3> HIDE DEF b
    <3>6. ASSUME NEW n \in p .. l + 2 PROVE Ends(a, n) = Ends(b, n)
      <4>1. CASE n > l
        BY <4>1
      <4>2. CASE n <= l
        <5>1. n + 1 \in p + 1 .. l + 2 /\ n + 2 \in p + 1 .. l + 2
          BY <1>1, <2>2, <4>2
        <5>2. b[n + 1] = a[n + 1] /\ b[n + 2] = a[n + 2]
          BY <3>4, <5>1
        <5> QED BY <5>2
      <4> HIDE DEF Ends
      <4> QED BY <1>1, <2>2, <4>1, <4>2
    <3>7. ASSUME NEW n \in p .. l + 2 PROVE b[n] = Ends(b, n)
      <4>1. n = p \/ n \in p + 1 .. l + 2
        BY <1>1, <2>2
      <4> HIDE DEF Ends
      <4> QED BY <3>4, <3>5, <3>6, <4>1
    <3>8. b = [n \in p .. l + 2 |-> b[n]]
      BY DEF b
    <3>9. GBKLoop(b, str, p)
      <4> HIDE DEF Ends
      <4> QED BY <1>2, <3>7, <3>8
    <3> QED BY <2>1, <3>9 DEF p
  <2> QED BY <2>3, <2>4
<1>4. l \notin T
  BY <1>3
<1>5. l + 1 - l = 1
  BY <1>1
<1> QED BY <1>1, <1>4, <1>5

\* A row of characters is followed to its end.
LEMMA GBKAccepted ==
  ASSUME NEW str \in Seq(Bytes), WellFormedGBK(str)
  PROVE  IsGBK(str)
<1> DEFINE l == Len(str)
           chars == {c \in (1 .. l) \X (1 .. l) : CharGBK(str, c[1], c[2])}
           ok == CHOOSE g : GBKLoop(g, str, 1)
           Ends(n) == IF n > l THEN TRUE
                      ELSE IF str[n] < 128 THEN ok[n + 1]
                      ELSE IF n = l THEN TRUE
                      ELSE str[n] \in 129 .. 254 /\ ok[n + 2]
<1>1. GBKLoop(ok, str, 1)
  <2>1. \E g : GBKLoop(g, str, 1)
    BY SomeGBKLoop
  <2> QED BY <2>1
<1>2. IsGBK(str) <=> ok[1]
  BY DEF IsGBK, GBKLoop
<1> HIDE DEF ok
<1>3. PICK h : Rows(h, chars, l, 1) /\ (WellFormedGBK(str) <=> h[1])
  BY WellFormedGBKIs
<1>4. l \in Nat /\ \A n \in 1 .. l : str[n] \in Bytes
  OBVIOUS
<1>5. \A n, m \in 1 .. l : <<n, m>> \in chars <=> CharGBK(str, n, m)
  OBVIOUS
<1>6. ASSUME NEW n \in 1 .. l + 2 PROVE ok[n] = Ends(n)
  <2>1. ok = [m \in 1 .. l + 2 |-> Ends(m)]
    BY <1>1 DEF GBKLoop
  <2> HIDE DEF Ends, l
  <2> QED BY <2>1, Zenon
<1> HIDE DEF l, chars
<1>7. ASSUME NEW n \in 1 .. l + 1
      PROVE  h[n] <=> (n = l + 1 \/ \E m \in n .. l : <<n, m>> \in chars /\ h[m + 1])
  <2>1. h[n] = (n = l + 1 \/ \E m \in n .. l : <<n, m>> \in chars /\ h[m + 1])
    BY <1>3, Zenon DEF Rows
  <2> QED BY <2>1
<1> DEFINE T == {d \in Nat : d <= l /\ h[l + 1 - d] /\ ~ ok[l + 1 - d]}
<1>8. ASSUME T # {} PROVE FALSE
  <2>1. PICK d \in T : \A k \in T : d <= k
    BY <1>8, Least
  <2> DEFINE n == l + 1 - d
  <2>2. n \in 1 .. l + 1 /\ h[n] /\ ~ ok[n]
    BY <1>4, <2>1
  <2>3. ASSUME NEW m \in n + 1 .. l + 1, h[m] PROVE ok[m]
    <3>1. l + 1 - m \in Nat /\ l + 1 - m <= l /\ l + 1 - m < d /\ l + 1 - (l + 1 - m) = m
      BY <1>4, <2>1, <2>2
    <3>2. l + 1 - m \notin T
      BY <2>1, <3>1
    <3> QED BY <2>3, <3>1, <3>2
  <2> HIDE DEF n
  <2>4. n # l + 1
    <3>1. ASSUME n = l + 1 PROVE ok[n]
      <4>1. n > l /\ n \in 1 .. l + 2
        BY <1>4, <3>1
      <4> QED BY <1>6, <4>1
    <3> QED BY <2>2, <3>1
  <2>5. PICK m \in n .. l : <<n, m>> \in chars /\ h[m + 1]
    BY <1>7, <2>2, <2>4
  <2>6. n \in 1 .. l /\ m \in 1 .. l /\ m + 1 \in n + 1 .. l + 1 /\ ~ (n > l) /\ n \in 1 .. l + 2
    BY <1>4, <2>2, <2>5
  <2>7. CharGBK(str, n, m)
    BY <1>5, <2>5, <2>6
  <2>8. ok[m + 1]
    BY <2>3, <2>5, <2>6
  <2>9. CASE n = m /\ str[n] < 128
    BY <1>6, <2>2, <2>6, <2>8, <2>9
  <2>10. CASE m = n + 1 /\ str[n] \in 129 .. 254
    <3>1. n # l /\ m + 1 = n + 2
      BY <1>4, <2>6, <2>10
    <3>2. ASSUME NEW b \in Bytes, b \in 129 .. 254 PROVE ~ (b < 128)
      BY <3>2
    <3>3. ~ (str[n] < 128)
      BY <1>4, <2>6, <2>10, <3>2
    <3> QED BY <1>6, <2>2, <2>6, <2>8, <2>10, <3>1, <3>3
  <2> QED BY <2>7, <2>9, <2>10 DEF CharGBK
<1>9. l \notin T
  BY <1>8
<1>10. l + 1 - l = 1 /\ l <= l
  BY <1>4
<1>11. h[1] => ok[1]
  BY <1>4, <1>9, <1>10
<1> QED BY <1>2, <1>3, <1>11

\* The loop over the first l bytes that counts what iconv writes.
CountLoop(h, str, l) ==
  h = [n \in 0 .. l |->
         IF n = 0 THEN [bytes |-> 0, lead |-> FALSE]
         ELSE IF h[n - 1].lead THEN [bytes |-> h[n - 1].bytes + 3, lead |-> FALSE]
         ELSE IF str[n] < 128 THEN [bytes |-> h[n - 1].bytes + 1, lead |-> FALSE]
         ELSE [bytes |-> h[n - 1].bytes, lead |-> TRUE]]

LEMMA SomeCountLoop ==
  ASSUME NEW str, NEW l \in Nat
  PROVE  \E h : CountLoop(h, str, l)
<1> DEFINE T == {m \in Nat : ~ \E h : CountLoop(h, str, m)}
           After(h, n) ==
             IF n = 0 THEN [bytes |-> 0, lead |-> FALSE]
             ELSE IF h[n - 1].lead THEN [bytes |-> h[n - 1].bytes + 3, lead |-> FALSE]
             ELSE IF str[n] < 128 THEN [bytes |-> h[n - 1].bytes + 1, lead |-> FALSE]
             ELSE [bytes |-> h[n - 1].bytes, lead |-> TRUE]
<1> SUFFICES ASSUME T # {} PROVE FALSE
  OBVIOUS
<1>1. PICK m \in T : \A k \in T : m <= k
  BY Least
<1>2. ASSUME NEW h, NEW k PROVE CountLoop(h, str, k) <=> h = [n \in 0 .. k |-> After(h, n)]
  BY DEF CountLoop
<1>3. CASE m = 0
  <2> DEFINE a == [n \in 0 .. 0 |-> [bytes |-> 0, lead |-> FALSE]]
  <2>1. ASSUME NEW n \in 0 .. 0 PROVE After(a, n) = [bytes |-> 0, lead |-> FALSE]
    <3>1. n = 0
      OBVIOUS
    <3> QED BY <3>1
  <2>2. CountLoop(a, str, 0)
    <3>1. a = [n \in 0 .. 0 |-> After(a, n)]
      <4> HIDE DEF After
      <4> QED BY <2>1
    <3> HIDE DEF After, a
    <3> QED BY <1>2, <3>1
  <2> QED BY <1>1, <1>3, <2>2
<1>4. CASE m # 0
  <2>1. m - 1 \in Nat /\ m - 1 \notin T
    BY <1>1, <1>4
  <2>2. PICK a : CountLoop(a, str, m - 1)
    BY <2>1
  <2> DEFINE b == [n \in 0 .. m |-> IF n = m THEN After(a, m) ELSE a[n]]
  <2>3. ASSUME NEW n \in 0 .. m PROVE After(b, n) = After(a, n)
    <3>1. n # 0 => b[n - 1] = a[n - 1]
      <4> HIDE DEF After
      <4> QED BY <1>1
    <3> HIDE DEF b
    <3> QED BY <3>1
  <2>4. ASSUME NEW n \in 0 .. m PROVE b[n] = After(a, n)
    <3> HIDE DEF After
    <3>1. a = [k \in 0 .. m - 1 |-> After(a, k)]
      BY <1>2, <2>2
    <3>2. n # m => n \in 0 .. m - 1
      BY <1>1
    <3>3. n # m => a[n] = After(a, n)
      BY <3>1, <3>2, Zenon
    <3> QED BY <3>3
  <2>5. b = [n \in 0 .. m |-> b[n]]
    OBVIOUS
  <2>6. CountLoop(b, str, m)
    <3> HIDE DEF b, After
    <3> QED BY <1>2, <2>3, <2>4, <2>5
  <2> QED BY <1>1, <2>6
<1> QED BY <1>3, <1>4

\* Three bytes are written for two, one for one, and one more for the end.
LEMMA GBKFits ==
  ASSUME NEW str \in Seq(Bytes)
  PROVE  BytesAsUTF8(str) <= ConvBuffLen(Len(str))
<1> DEFINE l == Len(str)
           done == CHOOSE g : CountLoop(g, str, l)
           After(n) ==
             IF done[n - 1].lead THEN [bytes |-> done[n - 1].bytes + 3, lead |-> FALSE]
             ELSE IF str[n] < 128 THEN [bytes |-> done[n - 1].bytes + 1, lead |-> FALSE]
             ELSE [bytes |-> done[n - 1].bytes, lead |-> TRUE]
<1>1. l \in Nat
  OBVIOUS
<1>2. CountLoop(done, str, l)
  <2>1. \E g : CountLoop(g, str, l)
    BY <1>1, SomeCountLoop
  <2> QED BY <2>1
<1>3. BytesAsUTF8(str) = done[l].bytes + 1
  BY DEF BytesAsUTF8, CountLoop
<1> HIDE DEF done, l
<1>4. done[0] = [bytes |-> 0, lead |-> FALSE]
  BY <1>1, <1>2 DEF CountLoop
<1>5. ASSUME NEW n \in 1 .. l PROVE done[n] = After(n)
  <2>1. n \in 0 .. l /\ n # 0
    OBVIOUS
  <2>2. done = [k \in 0 .. l |-> IF k = 0 THEN [bytes |-> 0, lead |-> FALSE] ELSE After(k)]
    BY <1>2 DEF CountLoop
  <2> HIDE DEF After
  <2> QED BY <2>1, <2>2
<1> DEFINE Counted(n, bytes, lead) ==
             /\ done[n] = [bytes |-> bytes, lead |-> lead]
             /\ lead => n > 0 /\ 2 * bytes <= 3 * (n - 1)
             /\ ~ lead => 2 * bytes <= 3 * n
           Bounded(n) == \E bytes \in Nat, lead \in BOOLEAN : Counted(n, bytes, lead)
           T == {n \in Nat : n <= l /\ ~ Bounded(n)}
<1>6. ASSUME T # {} PROVE FALSE
  <2>1. PICK n \in T : \A k \in T : n <= k
    <3> HIDE DEF Bounded
    <3> QED BY <1>6, Least
  <2>2. n # 0
    <3>1. Counted(0, 0, FALSE)
      BY <1>4
    <3> HIDE DEF Counted
    <3> QED BY <2>1, <3>1
  <2> HIDE DEF Bounded
  <2>3. n \in 1 .. l /\ n - 1 \in Nat /\ n - 1 <= l /\ n - 1 \notin T
    BY <1>1, <2>1, <2>2
  <2>4. PICK bytes \in Nat, lead \in BOOLEAN : Counted(n - 1, bytes, lead)
    <3>1. Bounded(n - 1)
      BY <2>3
    <3> HIDE DEF Counted
    <3> QED BY <3>1 DEF Bounded
  <2>5. done[n] = After(n)
    <3> HIDE DEF After
    <3> QED BY <1>5, <2>3
  <2>6. done[n - 1].bytes = bytes /\ done[n - 1].lead = lead
    BY <2>4
  <2>7. CASE lead
    <3>1. 2 * bytes <= 3 * (n - 1 - 1)
      BY <2>4, <2>7
    <3>2. done[n] = [bytes |-> bytes + 3, lead |-> FALSE]
      BY <2>5, <2>6, <2>7
    <3>3. 2 * (bytes + 3) <= 3 * n /\ bytes + 3 \in Nat
      BY <2>3, <3>1
    <3>4. Counted(n, bytes + 3, FALSE)
      <4> HIDE DEF After
      <4> QED BY <3>2, <3>3
    <3> HIDE DEF Counted
    <3> QED BY <2>1, <3>3, <3>4 DEF Bounded
  <2>8. CASE ~ lead
    <3>1. 2 * bytes <= 3 * (n - 1)
      BY <2>4, <2>8
    <3>2. CASE str[n] < 128
      <4>1. done[n] = [bytes |-> bytes + 1, lead |-> FALSE]
        BY <2>5, <2>6, <2>8, <3>2
      <4>2. 2 * (bytes + 1) <= 3 * n /\ bytes + 1 \in Nat
        BY <2>3, <3>1
      <4>3. Counted(n, bytes + 1, FALSE)
        BY <4>1, <4>2
      <4> HIDE DEF Counted
      <4> QED BY <2>1, <4>2, <4>3 DEF Bounded
    <3>3. CASE ~ (str[n] < 128)
      <4>1. done[n] = [bytes |-> bytes, lead |-> TRUE]
        BY <2>5, <2>6, <2>8, <3>3
      <4>2. Counted(n, bytes, TRUE)
        BY <2>3, <3>1, <4>1
      <4> HIDE DEF Counted
      <4> QED BY <2>1, <4>2 DEF Bounded
    <3> QED BY <3>2, <3>3
  <2> QED BY <2>7, <2>8
<1>7. PICK bytes \in Nat, lead \in BOOLEAN : Counted(l, bytes, lead)
  <2>1. l \notin T
    BY <1>6
  <2> HIDE DEF Counted
  <2> QED BY <1>1, <2>1
<1>8. bytes = done[l].bytes /\ 2 * bytes <= 3 * l
  BY <1>1, <1>7
<1>9. ASSUME NEW size \in Nat, 2 * bytes <= 3 * size PROVE bytes + 1 <= ConvBuffLen(size)
  BY <1>9, EncodingAssumption DEF ConvBuffLen
<1> QED BY <1>1, <1>3, <1>8, <1>9 DEF l

InputOK == input \in Seq(Bytes)

LEMMA InputInit == Init => InputOK
BY DEF Init, InputOK

LEMMA InputStep == InputOK /\ [Next]_vars => InputOK'
<1> SUFFICES ASSUME InputOK, [Next]_vars PROVE InputOK'
  OBVIOUS
<1>1. CASE UNCHANGED input
  BY <1>1 DEF InputOK
<1>2. ASSUME NEW A \in Alphabets, NEW c \in A, Grow(c) PROVE InputOK'
  <2>1. c \in Bytes
    BY InputsAssumption DEF Bytes
  <2> QED BY <1>2, <2>1 DEF Grow, InputOK
<1> QED BY <1>1, <1>2 DEF Next, Write, Truncate, vars

LEMMA Known == InputOK => EncodingsKnown
<1> SUFFICES ASSUME input \in Seq(Bytes) PROVE EncodingsKnown
  BY DEF InputOK
<1>1. ASSUME Range(input) \cap {254, 255} = {} PROVE IsUTF8(input) <=> WellFormedUTF8(input)
  <2>1. \A n \in 1 .. Len(input) : input[n] \notin {254, 255}
    BY <1>1 DEF Range
  <2> QED BY <2>1, UTF8Agrees
<1> QED BY <1>1, GBKAccepted, GBKFits DEF EncodingsKnown

\* _isUTF8_ accepts the well-formed texts and no others, _isGBK_ every
\* well-formed one, and the conversion of a GBK text fits in its buffer,
\* however long the text is and wherever the buffer's length begins
\* (encode_convert.cpp:6-189).
THEOREM KnownEncodings == Spec => []EncodingsKnown
BY InputInit, InputStep, Known, PTL DEF Spec
=============================================================================
