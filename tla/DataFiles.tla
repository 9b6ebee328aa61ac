------------------------------ MODULE DataFiles ------------------------------
(***************************************************************************)
(* How the data files are read: the sets and key-value tables of the       *)
(* global databases (global_set_db_interface.h, global_kv_db_interface.h)  *)
(* and the keys of the batch program (lab_common_main.cpp).  All read with *)
(* fgets into a buffer of fixed size, in two different loops.              *)
(***************************************************************************)
EXTENDS Text

CONSTANTS
  BufLen,   \* the length of buf (64 for sets and keys, 512 for tables)
  MaxIds,   \* the length of ids in a table's load_db_config (4)
  ValueWidth  \* values of a table are taken modulo ValueWidth (2^32)

ASSUME DataFilesAssumption ==
  /\ BufLen \in Nat /\ BufLen > 1
  /\ MaxIds \in Nat /\ MaxIds > 1
  /\ ValueWidth \in Nat \ {0}

\* What successive calls of fgets leave in buf: each ends after a newline, or
\* when the buffer is full.
FgetsAt(chunks, c) ==
  IF \/ chunks = <<>>
     \/ Last(Last(chunks)) = Newline
     \/ Len(Last(chunks)) = BufLen - 1
  THEN Append(chunks, <<c>>)
  ELSE [chunks EXCEPT ![Len(chunks)] = Append(@, c)]

FgetsChunks(file) ==
  LET chunks[n \in 0 .. Len(file)] ==
        IF n = 0 THEN <<>> ELSE FgetsAt(chunks[n - 1], file[n])
  IN  chunks[Len(file)]

\* fgets has met the end of the file after its last chunk: the chunk was ended
\* neither by a newline nor by a full buffer.
MetEnd(chunks) ==
  chunks # <<>> /\ Last(Last(chunks)) # Newline /\ Len(Last(chunks)) < BufLen - 1

\* Variant of FeofLoop: the last line is not seen.
FeofLoopShort(file, unset) ==
  LET chunks == FgetsChunks(file)
  IN  IF MetEnd(chunks) THEN Front(chunks) ELSE chunks

\* while(!feof(fd)) { fgets(buf); ... }: what the body sees in buf.  Unless the
\* end was met, one more fgets fails and leaves buf as it was; unset is what
\* the stack held when nothing was ever read.
FeofLoop(file, unset) ==
  LET chunks == FgetsChunks(file)
  IN  IF MetEnd(chunks) THEN chunks
      ELSE Append(chunks, IF chunks = <<>> THEN unset ELSE Last(chunks))

\* GlobalSetDbInterface::load_db_config.
SetLoaded(file, unset) == {Strtoull(buf) : buf \in Range(FeofLoop(file, unset))}

\* GlobalKVDbInterface::load_db_config: the first value of an id stays.  The
\* ids of a line are put in an array of MaxIds without a look at its end.
KvAt(table, buf, sep) ==
  LET ids == SplitStringIds(buf, sep, 0)
  IN  IF Len(ids) < 2 THEN table ELSE MapInsert(table, ids[1], ids[2] % ValueWidth)

KvLoaded(file, unset, sep) ==
  LET bufs == FeofLoop(file, unset)
      table[n \in 0 .. Len(bufs)] ==
        IF n = 0 THEN <<>> ELSE KvAt(table[n - 1], bufs[n], sep)
  IN  table[Len(bufs)]

KvInside(file, unset, sep) ==
  \A buf \in Range(FeofLoop(file, unset)) : Len(SplitStringIds(buf, sep, 0)) <= MaxIds

\* create_handle_data: while(fgets(buf) != NULL), the keys in their order.
KeysRead(file) ==
  LET chunks == FgetsChunks(file)
  IN  [n \in DOMAIN chunks |-> Strtoull(chunks[n])]
=============================================================================
