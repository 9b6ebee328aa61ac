----------------------------- MODULE ConfigLoad -----------------------------
(***************************************************************************)
(* What DbCompany::load_config and GlobalDbCompany::load_config build from *)
(* an .ini file (db_company.h, db_interface.h, db_interface_factory.h,     *)
(* global_db_company.h, global_db_interface.h), and the file as it is      *)
(* changed through write_profile_string.                                   *)
(***************************************************************************)
EXTENDS IniFile

CONSTANTS
  DbInfo,      \* the section that lists the databases
  DbsName,     \* DBS_NAME, its key: the value is the list of names
  DbId, DbType,     \* keys of a database's section, DB_ID and DB_TYPE
  Place,       \* the keys of where a database is: SVR_IP and SVR_PORT, or
               \* DB_FILE_NAME of a global one
  IdWidth,     \* 2^16: db_id_ is a uint16_t
  KnownTypes,  \* the DB_TYPEs a factory makes an interface for
  Size         \* the length of the buffers values are read into

ASSUME ConfigAssumption ==
  /\ {DbInfo, DbsName, DbId, DbType} \cup Place \subseteq Name
  /\ IdWidth \in Nat \ {0}
  /\ Size \in Nat /\ Size > 1

\* atoi: a number is a word of one letter below 10; the rest reads as 0.
Number(v) == IF v # <<>> /\ Len(v[1]) = 1 /\ v[1][1] < 10 THEN v[1][1] ELSE 0
ReadInt(f, section, key) == Number(ReadProfile(f, section, key, Size, <<>>))

\* get_db_info: the names, in their order; no name when the key is missing.
DbNames(f) == ReadProfile(f, DbInfo, DbsName, Size, <<>>)

\* Db_Info_Struct::load_config passes over a section that lacks a key of Place:
\* read_profile_string returns 0 for a missing key although it has copied the
\* default, so that of SVR_PORT is never used.
Loadable(f, x) == \A key \in Place : KeyLine(f, x, key) # Missing

\* The settings of database x; everything but its place has a default.
Settings(f, x) ==
  [name |-> x, id |-> ReadInt(f, x, DbId) % IdWidth, type |-> ReadInt(f, x, DbType),
   place |-> [key \in Place |-> ReadProfile(f, x, key, Size, <<>>)]]

\* The interfaces load_config makes, in the order of the names: the factory
\* knows no others.
Made(f) ==
  LET names == DbNames(f)
      usable(x) == Loadable(f, x) /\ ReadInt(f, x, DbType) \in KnownTypes
      made[n \in 0 .. Len(names)] ==
        IF n = 0 THEN <<>>
        ELSE IF usable(names[n]) THEN Append(made[n - 1], Settings(f, names[n]))
        ELSE made[n - 1]
  IN  made[Len(names)]

\* The two maps: insert keeps what is there.  An interface is known by its
\* place in Made.
FirstWith(made, field, value) == Min({n \in DOMAIN made : made[n][field] = value})
ByField(made, field) ==
  [value \in {made[n][field] : n \in DOMAIN made} |-> FirstWith(made, field, value)]
ByDbId(made) == ByField(made, "id")      \* map_db_interface_
ByName(made) == ByField(made, "name")    \* map_db_str_interface_

\* release() deletes what map_db_interface_ holds; ~GlobalDbCompany what its
\* map of names holds.
NeverDeleted(made) == DOMAIN made \ Range(ByDbId(made))
NeverDeletedGlobal(made) == DOMAIN made \ Range(ByName(made))
=============================================================================
