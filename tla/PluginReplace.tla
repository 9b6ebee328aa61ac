---------------------------- MODULE PluginReplace ----------------------------
(***************************************************************************)
(* Replacing the code of one plugin while the service runs: PluginLoad     *)
(* composed with the operator who follows the documented procedure         *)
(* (src/program/bin/restarwork.sh): take the section out of                *)
(* work_config.ini, update_work, put the new .so files in place, put the   *)
(* section back, update_work.                                              *)
(*                                                                         *)
(* The commands are sent with binserverclient.py, which gives a command up *)
(* after timeout_usecs = 1500000, long before its sleep is over, sends it  *)
(* again, and after retry_times returns without an answer: the operator    *)
(* goes on although the commands may still wait or be under way.           *)
(***************************************************************************)
EXTENDS PluginLoad

CONSTANTS
  Replaced, \* the section whose code is replaced
  All,      \* WORK_NAMES as in work_config.ini.start
  Without,  \* WORK_NAMES as in work_config.ini.stop
  OldFiles, \* what the files may be at the start
  New,      \* the new content of the replaced section's libraries
  RetryTimes \* retry_times: how often the client sends a command

ASSUME PluginReplaceAssumption ==
  /\ Replaced \in Section /\ {All, Without} \subseteq Configs
  /\ OldFiles \subseteq [Lib -> Version \cup {Absent}]
  /\ New \in Version \ Broken
  /\ RetryTimes \in Nat \ {0} /\ MaxGen >= 1 + 2 * RetryTimes

VARIABLES
  op,      \* the step of the procedure
  pending, \* commands that wait for the control thread
  sent,    \* how often the client has sent the last one
  early    \* ghost: the files were replaced before the update had ended

varsReplace == <<vars, op, pending, sent, early>>

LibsOf(s) == {So[s]} \cup {Plan[s][j] : j \in DOMAIN Plan[s]}

\* The libraries that only the replaced section uses.
OnlyHere == LibsOf(Replaced) \ UNION {LibsOf(Without[i]) : i \in DOMAIN Without}

InitReplace ==
  /\ Init
  /\ file \in OldFiles /\ work_names = All
  /\ op = "serving" /\ pending = 0 /\ sent = 0 /\ early = FALSE

\* The start of the process, and the control thread's accepting a command.
Accept ==
  /\ gen = 0 \/ pending > 0
  /\ Update
  /\ pending' = IF gen = 0 THEN 0 ELSE pending - 1
  /\ UNCHANGED <<op, sent, early>>

\* The last copy of the command that the client has sent is over.
Answered == pc = "idle" /\ pending = 0

\* The client returns: with the answer, or when it has tried often enough.
Returned == Answered \/ sent = RetryTimes

\* reqbinserver_cluster: no answer in time, and the command is sent again.
Resend ==
  /\ op \in {"removing", "adding"} /\ ~Answered
  /\ sent < RetryTimes
  /\ pending' = pending + 1 /\ sent' = sent + 1
  /\ UNCHANGED <<vars, op, early>>

RemoveSection ==
  /\ op = "serving" /\ gen > 0 /\ Answered
  /\ work_names' = Without
  /\ pending' = pending + 1 /\ sent' = 1 /\ op' = "removing"
  /\ UNCHANGED <<file, code, loop, maps, closing, early>>

ReplaceFiles ==
  /\ op = "removing" /\ Returned
  /\ early' = (early \/ ~Answered)
  /\ file' = [l \in Lib |-> IF l \in OnlyHere THEN New ELSE file[l]]
  /\ op' = "replaced"
  /\ UNCHANGED <<work_names, code, loop, maps, closing, pending, sent>>

AddSection ==
  /\ op = "replaced"
  /\ work_names' = All
  /\ pending' = pending + 1 /\ sent' = 1 /\ op' = "adding"
  /\ UNCHANGED <<file, code, loop, maps, closing, early>>

Done ==
  /\ op = "adding" /\ Returned
  /\ op' = "done"
  /\ UNCHANGED <<vars, pending, sent, early>>

Procedure == RemoveSection \/ ReplaceFiles \/ AddSection \/ Done
Service  == Accept \/ ((Load \/ Free) /\ UNCHANGED <<op, pending, sent, early>>)

NextReplace == Procedure \/ Resend \/ Service

\* The service is one loop without a wait but the sleep, and the operator goes
\* on with the procedure.
SpecReplace ==
  /\ InitReplace /\ [][NextReplace]_varsReplace
  /\ WF_varsReplace(Service) /\ WF_varsReplace(Procedure)

-----------------------------------------------------------------------------
\* No file is overwritten while a thread still has its code mapped (the process
\* would run on in the new bytes), however often the commands were sent, if the
\* files were not replaced early.  This is why a plugin is removed before it is
\* added.  (restarwork.sh:2-8, lab_common_svr.cpp:173-206)
NoOverwriteWhileMapped ==
  [][\A l \in Lib : file'[l] # file[l] /\ ~early' => image[l] = Absent]_varsReplace

\* When the last command of the procedure is over every thread serves the
\* replaced section, with the new code of its plugin and of the algorithms only
\* it uses, if the files were not replaced early.  (algorithm_func.h:30-60,
\* lab_common_svr.cpp:173-206)
NewCodeServes ==
  op = "done" /\ Answered /\ ~early => \A x \in Thread :
    /\ Api[Replaced] \in DOMAIN factory[x]
    /\ \A l \in OnlyHere : image[l] = New

\* While the plugin is replaced, early or not, the others are served without
\* interruption.
OthersServe ==
  op # "serving" => \A x \in Thread : \A i \in DOMAIN Without :
    file[So[Without[i]]] \in Version \ Broken => Api[Without[i]] \in DOMAIN factory[x]

\* The procedure ends, and with it every copy of its commands, although the
\* client does not wait for them.
ProcedureEnds == <>(op = "done" /\ Answered)
=============================================================================
