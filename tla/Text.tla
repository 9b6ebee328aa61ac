-------------------------------- MODULE Text --------------------------------
(***************************************************************************)
(* The string functions of src/program/include/utility/utility.h, on       *)
(* strings as sequences of byte values.  A loop over a string is a function *)
(* of the number of characters seen, from the state of its variables       *)
(* before the loop to the one after the last step.                         *)
(***************************************************************************)
EXTENDS Integers, Sequences, SequencesExt, FiniteSetsExt

CONSTANTS
  Width,     \* numbers are computed modulo Width (2^64 in the code)
  IntWidth,  \* values of an int (2^32)
  ByteSize   \* values of one byte, for the byte-order functions (256)

ASSUME TextAssumption ==
  /\ Width \in Nat /\ Width > 9
  /\ IntWidth \in 1 .. Width
  /\ ByteSize \in Nat \ {0}

Newline   == 10
Plus      == 43
Comma     == 44
Minus     == 45
Dot       == 46
Colon     == 58
IsDigit(c) == c \in 48 .. 57
IsSpace(c) == c \in (9 .. 13) \cup {32}
Shift(number, c) == (number * 10 + c - 48) % Width

\* The scanning that strtoull and atoi share: white space, one sign, digits up
\* to the first other character.  Width stands for every number too large.
Unread == [number |-> 0, negative |-> FALSE, begun |-> FALSE, open |-> TRUE]

ScanDigit(number, c) ==
  IF number * 10 + c - 48 < Width THEN number * 10 + c - 48 ELSE Width

ScanAt(a, c) ==
  IF a.open /\ IsDigit(c) THEN [a EXCEPT !.number = ScanDigit(@, c), !.begun = TRUE]
  ELSE IF a.open /\ ~ a.begun /\ IsSpace(c) THEN a
  ELSE IF a.open /\ ~ a.begun /\ c \in {Plus, Minus}
  THEN [a EXCEPT !.negative = (c = Minus), !.begun = TRUE]
  ELSE [a EXCEPT !.open = FALSE]

Scan(s) ==
  LET a[n \in 0 .. Len(s)] == IF n = 0 THEN Unread ELSE ScanAt(a[n - 1], s[n])
  IN  a[Len(s)]

\* strtoull: a negative number wraps, one that is too large becomes the largest.
Strtoull(s) ==
  LET a == Scan(s)
  IN  IF a.number = Width THEN Width - 1
      ELSE IF a.negative THEN (Width - a.number) % Width ELSE a.number

\* atoi: strtol, which stops at the ends of a long, cut to an int.
Atoi(s) ==
  LET a == Scan(s)
      long == IF a.negative THEN Max({-a.number, -(Width \div 2)})
                            ELSE Min({a.number, Width \div 2 - 1})
  IN  ((long + IntWidth \div 2) % IntWidth) - IntWidth \div 2

-----------------------------------------------------------------------------
(* Splitting. *)

\* split_string: the pieces between the separators, empty ones too.
SplitAt(pieces, c, sep) ==
  IF c = sep THEN Append(pieces, <<>>)
  ELSE [pieces EXCEPT ![Len(pieces)] = Append(@, c)]

SplitString(s, sep) ==
  LET pieces[n \in 0 .. Len(s)] ==
        IF n = 0 THEN << <<>> >> ELSE SplitAt(pieces[n - 1], s[n], sep)
  IN  pieces[Len(s)]

\* One round of split_string_ids: the limit is looked at before each character,
\* and characters that are no digits are passed over.
IdsAt(a, c, sep, limit) ==
  IF a.done \/ (limit # 0 /\ Len(a.ids) >= limit)
  THEN [ids |-> a.ids, id |-> a.id, done |-> TRUE]
  ELSE IF IsDigit(c) THEN [ids |-> a.ids, id |-> Shift(a.id, c), done |-> FALSE]
  ELSE IF c = sep THEN [ids |-> Append(a.ids, a.id), id |-> 0, done |-> FALSE]
  ELSE a

\* split_string_ids: the limit is not looked at before the id after the last.
SplitStringIds(s, sep, limit) ==
  LET a[n \in 0 .. Len(s)] ==
        IF n = 0 THEN [ids |-> <<>>, id |-> 0, done |-> FALSE]
        ELSE IdsAt(a[n - 1], s[n], sep, limit)
      end == a[Len(s)]
  IN  IF end.done THEN end.ids ELSE Append(end.ids, end.id)

\* split_string_set_ids: the same loop with insert; id_num counts them all.
SplitStringSetIds(s, sep, limit) == Range(SplitStringIds(s, sep, limit))

\* split_string_vec_pair_ids, a list of pairs id and score.  The score is
\* number / 10^places; places counts the digits of the score from -1, or from
\* 0 after a '.'.
FreshPair == [id |-> 0, number |-> 0, places |-> -1, score |-> FALSE]

PairAt(now, c, second) ==
  IF IsDigit(c) /\ now.score
  THEN [now EXCEPT !.number = now.number * 10 + c - 48, !.places = now.places + 1]
  ELSE IF IsDigit(c) THEN [now EXCEPT !.id = Shift(now.id, c)]
  ELSE IF c = Dot THEN [now EXCEPT !.places = 0]
  ELSE IF c = second THEN [now EXCEPT !.score = TRUE]
  ELSE now

PairOf(now) == [id |-> now.id, number |-> now.number,
                places |-> IF now.places = -1 THEN 0 ELSE now.places]

PairsAt(a, c, sep, second) ==
  IF ~ IsDigit(c) /\ c = sep
  THEN [out |-> Append(a.out, PairOf(a.now)), now |-> FreshPair]
  ELSE [out |-> a.out, now |-> PairAt(a.now, c, second)]

SplitPairs(s, sep, second) ==
  LET a[n \in 0 .. Len(s)] ==
        IF n = 0 THEN [out |-> <<>>, now |-> FreshPair]
        ELSE PairsAt(a[n - 1], s[n], sep, second)
      end == a[Len(s)]
  IN  Append(end.out, PairOf(end.now))

\* map::insert: a key that is there keeps its value.
MapInsert(m, key, v) ==
  [x \in DOMAIN m \cup {key} |-> IF x \in DOMAIN m THEN m[x] ELSE v]

\* split_map_string: first occurrence of a key wins, "1" stands for a missing
\* value; at most limit + 1 pieces are looked at (index > limit).
MapAt(m, piece, second) ==
  LET parts == SplitString(piece, second)
  IN  MapInsert(m, parts[1], IF Len(parts) < 2 THEN <<49>> ELSE parts[2])

SplitMapString(s, first, second, limit) ==
  LET pieces == SplitString(s, first)
      taken == IF limit = -1 \/ Len(pieces) <= limit + 1 THEN Len(pieces) ELSE limit + 1
      m[n \in 0 .. taken] ==
        IF n = 0 THEN <<>> ELSE MapAt(m[n - 1], pieces[n], second)
  IN  m[taken]

\* Variant of MapVecAt: the number is read with strtoull.
MapVecUnsignedAt(m, piece, second) ==
  LET parts == SplitString(piece, second)
      list == IF Len(parts) < 3 THEN <<49>> ELSE parts[3]
  IN  IF Len(parts) < 2 THEN m
      ELSE MapInsert(m, Strtoull(parts[1]) % IntWidth, <<parts[2], list>>)

\* split_map_vec_string, the form of UID_PLAN: number, library, white list.
MapVecAt(m, piece, second) ==
  LET parts == SplitString(piece, second)
      list == IF Len(parts) < 3 THEN <<49>> ELSE parts[3]
  IN  IF Len(parts) < 2 THEN m
      ELSE MapInsert(m, Atoi(parts[1]), <<parts[2], list>>)

SplitMapVecString(s, first, second) ==
  LET pieces == SplitString(s, first)
      m[n \in 0 .. Len(pieces)] ==
        IF n = 0 THEN <<>> ELSE MapVecAt(m[n - 1], pieces[n], second)
  IN  m[Len(pieces)]

GetCharNum(s, c) == Cardinality({n \in DOMAIN s : s[n] = c})

-----------------------------------------------------------------------------
(* strstr_k: does sub stand in s, before its end or before the character     *)
(* last?  After a mismatch the search goes on behind the character that did  *)
(* not match, and it ends at the first full match.                           *)

\* Variant of SearchAt: a mismatch keeps the place in sub.
SearchLooseAt(a, n, s, sub, last) ==
  IF a.at = Len(sub) \/ s[n] # sub[a.at + 1] THEN a
  ELSE [at |-> a.at + 1, found |-> a.at + 1 = Len(sub) /\ (n = Len(s) \/ s[n + 1] = last)]

SearchAt(a, n, s, sub, last) ==
  IF a.at = Len(sub) THEN a
  ELSE IF s[n] # sub[a.at + 1] THEN [at |-> 0, found |-> FALSE]
  ELSE [at |-> a.at + 1, found |-> a.at + 1 = Len(sub) /\ (n = Len(s) \/ s[n + 1] = last)]

StrstrK(s, sub, last) ==
  LET a[n \in 0 .. Len(s)] ==
        IF n = 0 THEN [at |-> 0, found |-> FALSE] ELSE SearchAt(a[n - 1], n, s, sub, last)
  IN  a[Len(s)].found

-----------------------------------------------------------------------------
\* transformatUInt32 and transformatUInt64 reverse the bytes of a number.
ByteAt(v, n) ==
  LET shifted[k \in 0 .. n] == IF k = 0 THEN v ELSE shifted[k - 1] \div ByteSize
  IN  shifted[n] % ByteSize

FourBytes == ByteSize * ByteSize * ByteSize * ByteSize

TransformatUInt32(v) ==
  ((ByteAt(v, 0) * ByteSize + ByteAt(v, 1)) * ByteSize + ByteAt(v, 2)) * ByteSize
    + ByteAt(v, 3)
TransformatUInt64(v) ==
  TransformatUInt32(v % FourBytes) * FourBytes + TransformatUInt32(v \div FourBytes)
=============================================================================
