------------------------------ MODULE Encoding ------------------------------
(***************************************************************************)
(* src/program/src/encode_convert.cpp: the tests for UTF-8 and GBK, the    *)
(* sizes of the buffers of a conversion, and the grammars of the two       *)
(* encodings to compare the tests with.  Strings are sequences of bytes    *)
(* other than 0.                                                           *)
(***************************************************************************)
EXTENDS Integers, Sequences, SequencesExt, FiniteSetsExt

CONSTANT ConvMin  \* the size convBuff starts with (1024)

ASSUME EncodingAssumption == ConvMin \in Nat /\ ConvMin > 1

\* The bytes that a lead byte announces, itself included; 0: no lead byte.
LeadBytes(chr) ==
  IF chr < 192 THEN 0
  ELSE IF chr \in 252 .. 253 THEN 6
  ELSE IF chr >= 248 THEN 5
  ELSE IF chr >= 240 THEN 4
  ELSE IF chr >= 224 THEN 3
  ELSE 2

IsContinuation(chr) == chr \in 128 .. 191

\* One step of the loop of _isUTF8_: nBytes counts the continuation bytes still
\* to come, -1 is the early return.
AfterByte(nBytes, chr) ==
  IF nBytes = -1 THEN -1
  ELSE IF nBytes = 0 THEN IF chr < 128 THEN 0 ELSE LeadBytes(chr) - 1
  ELSE IF IsContinuation(chr) THEN nBytes - 1 ELSE -1

\* Variant of IsUTF8: a text cut in the middle of a character passes.
IsUTF8Cut(str) ==
  LET nBytes[n \in 0 .. Len(str)] ==
        IF n = 0 THEN 0 ELSE AfterByte(nBytes[n - 1], str[n])
  IN  nBytes[Len(str)] >= 0

\* _isUTF8_.
IsUTF8(str) ==
  LET nBytes[n \in 0 .. Len(str)] ==
        IF n = 0 THEN 0 ELSE AfterByte(nBytes[n - 1], str[n])
  IN  nBytes[Len(str)] = 0

\* _isGBK_: from is i.  Only the first byte of a pair is looked at, although
\* the condition names the range of the second one; half a pair at the end
\* passes.
IsGBK(str) ==
  LET ok[from \in 1 .. Len(str) + 2] ==
        IF from > Len(str) THEN TRUE
        ELSE IF str[from] < 128 THEN ok[from + 1]
        ELSE IF from = Len(str) THEN TRUE
        ELSE str[from] \in 129 .. 254 /\ ok[from + 2]
  IN  ok[1]

-----------------------------------------------------------------------------
(* ConvertCore.  The conversion itself is iconv's; what the code decides is  *)
(* how long the buffer is that iconv writes to.                              *)

\* Variant of ConvBuffLen: as long as the input.
ConvBuffLenInput(size) == IF ConvMin < size THEN size ELSE ConvMin

ConvBuffLen(size) == IF ConvMin < size * 2 THEN size * 2 ELSE ConvMin

\* What iconv is told of the buffer's length: two bytes more than it has when
\* the input is long.
OutLen(size) == (size + 1) * 2

-----------------------------------------------------------------------------
(* The grammars: which characters there are, from the nth to the mth byte.   *)
(* A text is well formed from a position on if a character begins there and  *)
(* the rest is well formed.                                                  *)

\* UTF-8 with characters of up to six bytes, as _isUTF8_ knows it.
CharUTF8(str, n, m) ==
  \/ n = m /\ str[n] < 128
  \/ /\ str[n] \in 192 .. 253 /\ m - n + 1 = LeadBytes(str[n])
     /\ \A c \in n + 1 .. m : IsContinuation(str[c])

WellFormedUTF8(str) ==
  LET from[n \in 1 .. Len(str) + 1] ==
        n = Len(str) + 1 \/ \E m \in n .. Len(str) : CharUTF8(str, n, m) /\ from[m + 1]
  IN  from[1]

CharGBK(str, n, m) ==
  \/ n = m /\ str[n] < 128
  \/ /\ m = n + 1 /\ str[n] \in 129 .. 254
     /\ str[m] \in 64 .. 254 /\ str[m] # 127

WellFormedGBK(str) ==
  LET from[n \in 1 .. Len(str) + 1] ==
        n = Len(str) + 1 \/ \E m \in n .. Len(str) : CharGBK(str, n, m) /\ from[m + 1]
  IN  from[1]

\* The bytes iconv writes for a GBK text: a character of two bytes takes at
\* most three in UTF-8; the end of the string is converted too.
BytesAsUTF8(str) ==
  LET done[n \in 0 .. Len(str)] ==
        IF n = 0 THEN [bytes |-> 0, lead |-> FALSE]
        ELSE IF done[n - 1].lead THEN [bytes |-> done[n - 1].bytes + 3, lead |-> FALSE]
        ELSE IF str[n] < 128 THEN [bytes |-> done[n - 1].bytes + 1, lead |-> FALSE]
        ELSE [bytes |-> done[n - 1].bytes, lead |-> TRUE]
  IN  done[Len(str)].bytes + 1
=============================================================================
