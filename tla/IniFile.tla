------------------------------- MODULE IniFile -------------------------------
(***************************************************************************)
(* The reader and writer of .ini files (src/program/src/ini_file.c), which *)
(* every load_config of the program reads its settings with.               *)
(*                                                                         *)
(* A file is a sequence of lines: section headers, entries "key=value" and *)
(* other lines (comments, blanks, text without '=').  A name is a sequence *)
(* of letters, because parse_file compares no more of a name than the file *)
(* has of it: what it finds is a question of prefixes.                     *)
(***************************************************************************)
EXTENDS Integers, Sequences, SequencesExt, FiniteSetsExt

CONSTANTS
  Name,      \* names of sections and keys, sequences of letters
  Value,     \* values of entries, sequences of words (of letters)
  Percent,   \* those of Value that hold a '%'
  Garbled,   \* what sprintf makes of a value with a '%'
  MaxLines   \* bound on the lines of a file

ASSUME IniFileAssumption ==
  /\ Name \subseteq Seq(Nat) /\ <<>> \notin Name
  /\ Value \subseteq Seq(Seq(Nat)) /\ Garbled \in Seq(Seq(Nat)) \ Value
  /\ Percent \subseteq Value
  /\ MaxLines \in Nat

Header(s)   == [kind |-> "section", name |-> s]
Entry(k, v) == [kind |-> "entry", name |-> k, value |-> v]
Other       == [kind |-> "other"]
Missing     == -1

Line ==
  {Header(s) : s \in Name} \cup {Entry(k, v) : k \in Name, v \in Value \cup {Garbled}}
    \cup {Other}

-----------------------------------------------------------------------------
(* parse_file. *)

Headers(f) == {n \in DOMAIN f : f[n].kind = "section"}

\* The header of the section that line n is in; 0 before the first one.
HeaderOf(f, n) == Max({0} \cup {h \in Headers(f) : h <= n})

\* Variant of Matches: compared over the length of the name asked for.
MatchesLonger(inFile, asked) == IsPrefix(asked, inFile)

\* strncmp(p + section_start, section, i - section_start) and the same for
\* keys: only as much is compared as the name in the file is long.
Matches(inFile, asked) == IsPrefix(inFile, asked)

\* The headers that parse_file takes for the section, and the entries of their
\* sections that it takes for the key.
SectionHits(f, section) == {h \in Headers(f) : Matches(f[h].name, section)}
KeyHits(f, section, key) ==
  {n \in DOMAIN f : /\ f[n].kind = "entry" /\ Matches(f[n].name, key)
                    /\ HeaderOf(f, n) \in SectionHits(f, section)}

\* The line key_s .. value_e points into: the first hit in the file.  When
\* there is none, the section goes on being looked for, and sec_s is that of
\* the last section that matched.
KeyLine(f, section, key) ==
  LET hits == KeyHits(f, section, key)
  IN  IF hits = {} THEN Missing ELSE Min(hits)
SectionLine(f, section) ==
  LET hits == SectionHits(f, section)
  IN  IF hits = {} THEN Missing ELSE Max(hits)

-----------------------------------------------------------------------------
(* read_profile_string and read_profile_int. *)

\* A value longer than the caller's buffer of size words is cut.
Cut(v, size) == IF Len(v) > size - 1 THEN SubSeq(v, 1, size - 1) ELSE v

ReadProfile(f, section, key, size, default) ==
  LET n == KeyLine(f, section, key)
  IN  IF n = Missing THEN default ELSE Cut(f[n].value, size)

\* What a reader who compared whole names would find.
ExactHits(f, section, key) ==
  {n \in DOMAIN f : /\ f[n].kind = "entry" /\ f[n].name = key
                    /\ HeaderOf(f, n) # 0
                    /\ f[HeaderOf(f, n)].name = section}
ReadExactly(f, section, key, size, default) ==
  LET hits == ExactHits(f, section, key)
  IN  IF hits = {} THEN default ELSE Cut(f[Min(hits)].value, size)

-----------------------------------------------------------------------------
(* write_profile_string: three cases. *)

\* The rest of the file goes through sprintf as a format.
Formatted(lines) ==
  [n \in DOMAIN lines |->
     IF lines[n].kind = "entry" /\ lines[n].value \in Percent
     THEN Entry(lines[n].name, Garbled) ELSE lines[n]]

\* No section matches: it is added at the end, after an empty line.
Added(f, section, key, v) ==
  IF f = <<>> THEN <<Header(section), Entry(key, v)>>
              ELSE f \o <<Other, Header(section), Entry(key, v)>>

\* Variant of Inserted: at the first section that matches.
InsertedBeforeHeader(f, section, key, v) ==
  LET n == SectionLine(f, section)
  IN  SubSeq(f, 1, n - 1) \o <<Entry(key, v)>> \o Formatted(SubSeq(f, n, Len(f)))

\* No key matches: it is added right after the header of the last section that
\* matches.
Inserted(f, section, key, v) ==
  LET n == SectionLine(f, section)
  IN  SubSeq(f, 1, n) \o <<Entry(key, v)>> \o Formatted(SubSeq(f, n + 1, Len(f)))

Updated(f, section, key, v) ==
  [f EXCEPT ![KeyLine(f, section, key)].value = v]

Written(f, section, key, v) ==
  IF SectionLine(f, section) = Missing THEN Added(f, section, key, v)
  ELSE IF KeyLine(f, section, key) = Missing THEN Inserted(f, section, key, v)
  ELSE Updated(f, section, key, v)
=============================================================================
