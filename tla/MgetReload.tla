----------------------------- MODULE MgetReload -----------------------------
(***************************************************************************)
(* mget on a query thread while the control thread executes update_global. *)
(*                                                                         *)
(* update_global_handle_data calls initialize on the DbCompany of every    *)
(* query thread (lab_common_svr.cpp:76), whose loop calls initialize on    *)
(* every DbInterface (db_company.h:145-150): un_compress_index_ is set to 0*)
(* under the hands of a request that may be in the middle of an mget on    *)
(* the same interface.  There is no lock.                                  *)
(***************************************************************************)
EXTENDS RedisMget

\* DbInterface::initialize, by the control thread, between any two accesses
\* of the query thread to un_compress_index_.  (One that falls between the
\* read and the write of an increment is lost: as if it had not been.)
Reset ==
  /\ un_compress_index_' = 0
  /\ UNCHANGED <<config, un_compress_, pc, request, index, base, worker, p_result, map_result>>

NextReload == Next \/ Reset

SpecReload == Init /\ [][NextReload]_vars

\* No key of a result points to the value of another key of the request: an
\* update must not be noticed by a request ("非中断式的资源实时更新",
\* src/README.md:13).  Weaker than OwnValue, which a value that does not
\* uncompress also breaks.
NoOthersValue ==
  pc = "returned" =>
    \A k \in DOMAIN map_result : un_compress_[map_result[k]] \in {k, Garbage}
=============================================================================
