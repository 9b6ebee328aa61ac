------------------------------- MODULE Inputs -------------------------------
(***************************************************************************)
(* Everything the program reads: an .ini file that is changed through      *)
(* write_profile_string, and a text of any bytes, which is what a data     *)
(* file, a value or a reply may hold.  A behaviour changes the file or     *)
(* lets the text grow.                                                     *)
(***************************************************************************)
EXTENDS ConfigLoad, DataFiles, Encoding

CONSTANTS
  Files,      \* the .ini files a behaviour begins with
  Settable,   \* what may be written: section, key and value
  Alphabets,  \* sets of bytes; a text is over one of them
  MaxInput,   \* bound on the length of the text
  Unset,      \* what an uninitialized buffer holds
  Subs        \* strings that are searched for

ASSUME InputsAssumption ==
  /\ Files \subseteq Seq(Line)
  /\ Settable \subseteq Name \X Name \X Value
  /\ Alphabets \subseteq SUBSET (0 .. 255)
  /\ Subs \subseteq Seq(0 .. 255)

VARIABLES file, wrote, input

vars == <<file, wrote, input>>

None == <<>>

Init == file \in Files /\ wrote = None /\ input = <<>>

\* write_profile_string.
Write(section, key, v) ==
  /\ input = <<>>
  /\ file' = Written(file, section, key, v)
  /\ Len(file') <= MaxLines
  /\ wrote' = <<section, key, v>>
  /\ UNCHANGED input

\* The process dies after fopen(file, "w") and before the text is written.
Truncate ==
  /\ input = <<>> /\ wrote # None
  /\ file' = <<>> /\ wrote' = None
  /\ UNCHANGED input

\* One more byte.
Grow(c) ==
  /\ file = <<>> /\ wrote = None /\ Len(input) < MaxInput
  /\ input' = Append(input, c)
  /\ UNCHANGED <<file, wrote>>

Next ==
  \/ \E setting \in Settable : Write(setting[1], setting[2], setting[3])
  \/ Truncate
  \/ \E A \in Alphabets : Range(input) \subseteq A /\ \E c \in A : Grow(c)

Spec == Init /\ [][Next]_vars

-----------------------------------------------------------------------------
(* Properties of the settings. *)

ReadAll(f, section, key) == ReadProfile(f, section, key, Size, None)

\* A name in the file that is found when either of two names is looked for.
Confused(f, a, b) ==
  \E n \in DOMAIN f : f[n].kind # "other" /\ IsPrefix(f[n].name, a) /\ IsPrefix(f[n].name, b)

HasPercent(f, section, key) ==
  LET n == KeyLine(f, section, key) IN n # Missing /\ f[n].value \in Percent

\* What write_profile_string wrote is read back, and what any other key reads
\* stays as it was, unless the file cannot tell both the key and its section
\* from the ones written, or the value has a '%' and went through sprintf
\* (ini_file.c:68-148, 240-307).
WriteKeepsOthers ==
  [][wrote' \notin {wrote, None} =>
       /\ ReadAll(file', wrote'[1], wrote'[2]) = Cut(wrote'[3], Size)
       /\ \A section, key \in Name :
            \/ ReadAll(file', section, key) = ReadAll(file, section, key)
            \/ Confused(file', section, wrote'[1]) /\ Confused(file', key, wrote'[2])
            \/ HasPercent(file, section, key)]_vars

\* No name of a section or an entry in the file is the beginning of another
\* name that is asked for.
Asked(f) == {DbInfo, DbsName, DbId, DbType} \cup Place \cup Range(DbNames(f))
Unrelated(f) ==
  \A n \in DOMAIN f : f[n].kind # "other" =>
    \A asked \in Asked(f) : IsPrefix(f[n].name, asked) => f[n].name = asked

\* A file whose names are unrelated is loaded as it is written: the databases
\* that have an interface, by their names, are those listed whose own section
\* has an address, a port and a known type, and it has its own section's
\* settings; and if the ids differ as 16 bits and no name is listed twice, each
\* is found by its id too, and all are deleted with the DbCompany
\* (db_company.h:156-178, db_interface.h:85-164).
LoadsAsWritten ==
  LET made == Made(file)
      own(x, key) == ReadExactly(file, x, key, Size, None)
      whole(x) == /\ \A key \in Place : ExactHits(file, x, key) # {}
                  /\ Number(own(x, DbType)) \in KnownTypes
      distinctIds == \A m, n \in DOMAIN made : m # n => made[m].id # made[n].id
  IN  Unrelated(file) =>
        /\ DOMAIN ByName(made) = {x \in Range(DbNames(file)) : whole(x)}
        /\ \A x \in DOMAIN ByName(made) :
             made[ByName(made)[x]] =
               [name |-> x, id |-> Number(own(x, DbId)) % IdWidth,
                type |-> Number(own(x, DbType)), place |-> [key \in Place |-> own(x, key)]]
        /\ distinctIds =>
             /\ \A n \in DOMAIN made : ByDbId(made)[made[n].id] = n
             /\ NeverDeleted(made) = {} /\ NeverDeletedGlobal(made) = {}

-----------------------------------------------------------------------------
(* Properties of the text. *)

\* The digits of a text, and the number they are.
DigitAt(digits, c) == IF IsDigit(c) THEN Append(digits, c) ELSE digits

Digits(s) ==
  LET digits[n \in 0 .. Len(s)] == IF n = 0 THEN <<>> ELSE DigitAt(digits[n - 1], s[n])
  IN  digits[Len(s)]

Wrapped(digits) ==
  LET number[n \in 0 .. Len(digits)] ==
        IF n = 0 THEN 0 ELSE Shift(number[n - 1], digits[n])
  IN  number[Len(digits)]

Decimal(digits) ==
  LET number[n \in 0 .. Len(digits)] ==
        IF n = 0 THEN 0 ELSE number[n - 1] * 10 + digits[n] - 48
  IN  number[Len(digits)]

\* A text that is a number, with a minus or without, and the number it is.
IsNumber(s) == \A n \in DOMAIN s : IsDigit(s[n]) \/ (n = 1 /\ s[n] = Minus)
NumberIn(s) ==
  IF s # <<>> /\ s[1] = Minus THEN -Decimal(Digits(s)) ELSE Decimal(Digits(s))

\* The functions that split agree on where a text is to be split.  The ids of
\* split_string_ids are the digits of the pieces of split_string; a limit cuts
\* the list short (one past the limit when the text ends with the separator).
\* A pair's score has the places that stand behind its point, and without a
\* point all its digits but the first: "12" is read as 1.2.  The maps have the
\* first parts of the pieces for their keys, and in split_map_vec_string each
\* key has the other parts of the first piece with that key; a key that is a
\* number an int can hold is that number, so that -1, -2 and 1, all of them keys
\* of a UID_PLAN, stay apart (utility.h:46-221).
PiecesAgree ==
  LET pieces == SplitString(input, Comma)
      parts(n) == SplitString(pieces[n], Colon)
      ids == SplitStringIds(input, Comma, 0)
      pairs == SplitPairs(input, Comma, Colon)
      behind(q) == Len(Digits(Last(SplitString(q, Dot))))
      plan == SplitMapVecString(input, Comma, Colon)
      planned == {n \in DOMAIN pieces : Len(parts(n)) > 1}
      key(n) == Atoi(parts(n)[1])
  IN  /\ ids = [n \in DOMAIN pieces |-> Wrapped(Digits(pieces[n]))]
      /\ SplitStringSetIds(input, Comma, 0) = Range(ids)
      /\ Len(pieces) = GetCharNum(input, Comma) + 1
      /\ \A limit \in 1 .. MaxInput :
           LET few == SplitStringIds(input, Comma, limit)
           IN  /\ IsPrefix(few, ids)
               /\ \/ Len(few) = Min({limit, Len(ids)})
                  \/ Len(few) = limit + 1 /\ Last(input) = Comma
      /\ Len(pairs) = Len(pieces)
      /\ \A n \in DOMAIN pairs :
           /\ pairs[n].id = Wrapped(Digits(parts(n)[1]))
           /\ Len(parts(n)) = 2 /\ Contains(parts(n)[2], Dot)
                => pairs[n].places = behind(parts(n)[2])
           /\ Len(parts(n)) = 2 => pairs[n].number = Decimal(Digits(parts(n)[2]))
           /\ Len(parts(n)) = 2 /\ ~ Contains(parts(n)[1], Dot) /\ ~ Contains(parts(n)[2], Dot)
                => pairs[n].places = Max({0, Len(Digits(parts(n)[2])) - 1})
      /\ DOMAIN SplitMapString(input, Comma, Colon, -1) = {parts(n)[1] : n \in DOMAIN pieces}
      /\ DOMAIN plan = {key(n) : n \in planned}
      /\ \A n \in planned :
           /\ (\A m \in planned : m < n => key(m) # key(n)) =>
                plan[key(n)] = <<parts(n)[2], IF Len(parts(n)) = 2 THEN <<49>> ELSE parts(n)[3]>>
           /\ IsNumber(parts(n)[1]) /\ Decimal(Digits(parts(n)[1])) < IntWidth \div 2
                => key(n) = NumberIn(parts(n)[1])

\* What strstr_k finds stands in the text, at the end of a piece, if it has no
\* separator of its own; and the byte order functions reverse the bytes of every number (utility.h:236-273).
FoundIsThere ==
  /\ \A sub \in Subs :
       Comma \notin Range(sub) /\ StrstrK(input, sub, Comma) =>
         \E n \in DOMAIN SplitString(input, Comma) :
           IsSuffix(sub, SplitString(input, Comma)[n])
  /\ \A n \in 0 .. 7 :
       ByteAt(TransformatUInt64(Strtoull(input)), n) = ByteAt(Strtoull(input), 7 - n)

\* _isUTF8_ accepts the well-formed texts and no others (0xFE and 0xFF apart,
\* which it takes for lead bytes); _isGBK_ accepts every well-formed GBK text;
\* and the bytes of its conversion to UTF-8 fit in the buffer, although iconv
\* is told of a longer one (encode_convert.cpp:6-189).
EncodingsKnown ==
  /\ Range(input) \cap {254, 255} = {} => (IsUTF8(input) <=> WellFormedUTF8(input))
  /\ WellFormedGBK(input) =>
       /\ IsGBK(input)
       /\ BytesAsUTF8(input) <= ConvBuffLen(Len(input))

Lines(s) ==
  LET pieces == SplitString(s, Newline)
  IN  IF Last(pieces) = <<>> THEN Front(pieces) ELSE pieces

\* When no line is longer than the buffer, the two loops over a data file see
\* the same numbers, those its lines begin with, although one of them looks at
\* the last line twice; a table has the first value of each id.  An empty file
\* is the exception: its buffer was never written
\* (global_set_db_interface.h:37-60, global_kv_db_interface.h:53-80,
\* lab_common_main.cpp:187-202).
FilesReadWhole ==
  LET lines == Lines(input)
      fit == \A n \in DOMAIN lines : Len(lines[n]) < BufLen - 1
      ids(n) == SplitStringIds(lines[n], Comma, 0)
      table == KvLoaded(input, Unset, Comma)
      first(id) == Min({n \in DOMAIN lines : Len(ids(n)) > 1 /\ ids(n)[1] = id})
  IN  input # <<>> /\ fit =>
        /\ KeysRead(input) = [n \in DOMAIN lines |-> Strtoull(lines[n])]
        /\ SetLoaded(input, Unset) = Range(KeysRead(input))
        /\ DOMAIN table = {ids(n)[1] : n \in {m \in DOMAIN lines : Len(ids(m)) > 1}}
        /\ \A id \in DOMAIN table : table[id] = ids(first(id))[2] % ValueWidth
=============================================================================
