# TLA+ models of lab_common_so

lab_common_so is a C/C++ framework for on-line recommendation services on top of
the *woo* communication library. A service process answers JSON requests on many
query threads, gets its data from remote stores (redis, memcached, HTTP, woo) and
from files held in memory, runs algorithms loaded from shared objects, and can
replace its configuration, data and code **while it serves** ("非中断式的资源实时更新",
`src/README.md`). There is no lock in it: updates rely on pointer swaps and on a
sleep before the old objects are deleted.

This directory holds models of the parts where that is hard, the TLC runs that
check them on small instances, and proofs for all instances.

## 1. The system and its parts

Paths below are relative to `src/program/`.

| part | state | operations | interacts with |
|---|---|---|---|
| **online service** `src/lab_common_svr.cpp` | `query_handle_data`: one `thread_data_t` (DbCompany, WorkCompany) per query thread; `p_global_db_company` | `query_req_handle` on `thread_num` threads; `control_req_handle` on one thread: `update_global`, `update_db`, `update_work`, or the name of one global database | all below, through raw pointers in shared slots |
| **GlobalDbCompany** `include/db/global_db_company.h` | map name → GlobalDbInterface | `load_config`, `get_global_db_interface` (query threads), `update_global_db_interface` (control thread) | shared by all threads |
| **global databases** `include/db/global_{set,kv,map}_db_interface.h` | sets and maps read from files | `load_db_config`, `is_exist`, look-ups | owned by GlobalDbCompany |
| **DbCompany** `include/db/db_company.h` | maps id/name → DbInterface, pointer to the GlobalDbCompany | `initialize`, `load_config`, `get_multi_db` (one pthread per database) | per query thread |
| **routing** `include/db/db_interface.h` | addresses, `SELECT_TYPE`; the result buffers `un_compress_` | `get_ip_port`, `gets_ip_port`, `initialize` | base of every backend |
| **redis backend** `include/db/hiredis_db_interface.h` | – | `get`, `set`, `s_get`, `mget` (parallel and serial), `s_mget` | redis servers |
| **woo, memcached, api backends** `include/db/{woo,mc,api}_db_interface.h` | connections, buffers | the same interface | their servers |
| **work plugins** `include/work/*.h` | map api → interface and its `dlopen` handle | `initialize`, `get_interface`, `work_core` | refer to the thread's slot |
| **algorithm dispatch** `include/algorithm/*.h` | per section a map last digit → algorithm | `initialize_algorithm`, `run_algorithm`, `release_algorithm` | owned by a work interface; white list in a global database |
| **batch program** `src/lab_common_main.cpp` | worker threads, input file | reads keys, gives each to the thread of its remainder; one update of the global databases after the joins | the same companies |
| **ini reader, utilities** `src/ini_file.c`, `include/utility/utility.h` | – | sections, keys, splitting | every `load_config` |
| **encoding conversion** `src/encode_convert.cpp` | – | GBK/UTF-8 helpers | compiled, never called here |
| **echo server** `src/binaryserver.cpp` | – | answers each byte with itself and a dash | woo only |
| **examples, scripts** `work_tool/`, `alg_tool/`, `bin/` | – | `bin/saferun` restarts a dead process | – |
| **vendored** `depend/` | – | – | woo provides the TCP servers and threads |

What makes the online service hard:

* a request reads a slot (a raw pointer) and uses the object for as long as it
  runs; the control thread swaps the slot at any moment and deletes the old object
  after a fixed `SLEEP_TIME`;
* a work interface holds a *reference to the slot* (`WorkInterface::p_db_company_`),
  so it reads it again at each use and one request can meet both generations;
* `update_global` writes into the live DbCompany of each thread, among it
  the buffer index of an `mget` in progress;
* the four commands own different objects, some of which own others, and follow
  each other in any order;
* one `mget` is itself parallel: pthreads write into one buffer array.

What makes each part correct: *online service* – nothing reachable or in use is
deleted, nothing leaks, all threads serve the data of the last answered command,
commands end; *redis backend* – each key gets its own value, no write leaves the
array, no key is lost; *routing* – get, set and mget agree on a key's server, and
the server exists; *plugins and algorithms* – code is unloaded after its objects,
each user gets the algorithm of his plan, one per section at most; *loading* – settings and data files are
read as they are written; *backends* – a call gives its own answer and frees what it took;
*batch* – each key is answered once.

`PROJECT.json` lists the hazards met in the code, with their lines and the properties
that cover them, or why none does.

## 2. Modules

| module | models | status |
|---|---|---|
| `HotReload` | query threads, control thread, the four update commands, heap, time | checked, proved |
| `HotReloadInv` | the inductive invariant of HotReload | proved |
| `HotReloadProofs` | theorems about HotReload | proved |
| `SafeReclaim` | abstract: publish, acquire, reclaim what nobody holds | – |
| `HotReloadRefinement` | refinement mapping HotReload → SafeReclaim | checked, proved |
| `RedisMget` | `HiRedisDbInterface::mget`, both forms, and the buffer array | checked, proved |
| `RedisMgetProofs` | theorems about RedisMget | proved |
| `MgetReload` | RedisMget composed with the reset that `update_global` does | checked (violation) |
| `Routing` | `get_ip_port`, `gets_ip_port`, the backend's list of servers | checked, proved |
| `RoutingProofs` | theorems about Routing | proved |
| `PluginLoad` | `WorkInterfaceFactory`, `create_so_handle`, `release_algorithm`: what `dlopen` and `dlclose` do to the code of plugins and algorithms | checked, proved |
| `PluginReplace` | PluginLoad composed with the operator of `bin/restarwork.sh` and the client `bin/binserverclient.py` | checked, proved |
| `PluginReplaceProofs` | theorems about PluginLoad and PluginReplace | proved |
| `DbCall` | the members of a DbInterface and the locals of a call, for all backends | checked |
| `RedisCall`, `McCall`, `ApiCall`, `WooCall` | the calls of each backend, with every error path and what they allocate | checked |
| `Query` | the four backends composed: `get_multi_db` and a query thread's own calls | checked, proved |
| `QueryInv`, `QueryProofs` | the inductive invariant of Query, theorems about it | proved |
| `Text` | the string functions of `utility.h` | checked, proved |
| `IniFile` | `ini_file.c` on lines | checked, proved |
| `ConfigLoad` | what `load_config` builds from an ini file | checked, proved |
| `DataFiles` | the loops that read data files | checked, proved |
| `Encoding` | `encode_convert.cpp`, and the grammars of UTF-8 and GBK | checked, proved |
| `Inputs` | behaviours that change a file, or let a text grow, for the five above | checked, proved |
| `InputsProofs` | theorems about IniFile, ConfigLoad and Encoding in Inputs | proved |
| `TextProofs` | theorems about Text and DataFiles in Inputs | proved |
| `Dispatch` | one request from `work_core` to its response: plugin, global databases, algorithms | checked, proved |
| `Batch` | Dispatch inside the batch program and inside the service | checked, proved |
| `BatchInv`, `BatchProofs` | the inductive invariant of Batch and Dispatch, theorems about it | proved |
| `MCPluginLoad`, `MCPluginReplace`, `MCInputs`, `MCBatch` | instances for TLC | – |

### HotReload

An object's name is the number of the command that built it (0: start of the
process), with its thread or database name; names are not reused, so a pointer
to freed memory stays recognisable. `globals`, `ifaces`, `dbs`, `works` are the
allocated objects; `pGlobal`, `ifaceOf`, `globalOf`, `dbSlot`, `workSlot` are the
pointers in the program's data; `heldWork[t]`, … are the pointers the request of
thread t has read. The control thread's `pc` follows a command:

    idle → install (loop over threads) → sleep → free → idle

* `StartGlobal`, `InstallGlobal`, `SwapGlobal`, `FreeGlobal` are
  `update_global_handle_data`: load, bind every live DbCompany to the new company,
  swap the global pointer, sleep, delete the old company and its interfaces.
* `StartPerThread`, `InstallDb`, `InstallWork`, `SleepPerThread`, `FreePerThread`,
  `AnswerPerThread` are `update_db_handle_data` and `update_work_handle_data` (the
  second is the first without `InstallDb`).
* `SwapSingle`/`FreeSingle`, `InsertSingle`, `FailSingle`, `CrashSingle` are the paths
  of `update_global_single_handle_data`: a known name, a new one, a new one without
  description, and a new one of unknown type, where the code calls a method on NULL
  and the process dies (`pc = "dead"`).
* `BeginRequest`, `ReadDb`, `ReadGlobal`, `ReadIface`, `EndRequest` are what a request
  can do with the pointers, in any order a plugin may do it. Plugin code is the
  user's, so the model allows every use the framework's API allows.
* `Tick` is time. A request in progress and the sleeping control thread age together;
  a request may not outlive `MaxReq`.

One control thread serves the control port (`tcp_server_open(control_server, …, 1, …)`),
hence one command at a time. Not in the model: allocation failure (`new` throws
rather than returning NULL), the factory of a *stored* description failing (its type
was known when it was stored), and the contents of the databases.

### RedisMget and MgetReload

`un_compress_` is modelled by whose value each buffer holds, a result pointer by the
number of the buffer. `Splits` is any grouping of the keys that routing can give (`Grouped` is the loop of
`gets_ip_port`),
`Answers` any reply of the servers: value, nil, or a value that does not uncompress.
`TakeWindow`, `Advance`, `Launch`, `Join` are the caller of the parallel form; `Fetch`,
`FetchFails`, `Skip`, `Copy`, `Corrupt`, `Finish` its pthreads, interleaved at each
element. `Visit` … `VisitReturn` are the serial form; storing, taking the pointer and
incrementing the index are three steps, because `MgetReload` lets the control thread
set `un_compress_index_` to 0 between them (`Reset`).

Of the content of a buffer only its owner is kept: lengths, terminators and the
splitting characters are not modelled. The run of MgetReload checks `NoOthersValue`, that no key points to *another key's* value, which
a value that does not uncompress cannot violate.

### Routing

`IpIndex`, `PortIndex` and `ServerOf` are the two switches over `SELECT_TYPE`: the first two
give the *set* of values that `get_ip_port` can choose from (a `rand()` is any value), the
third the server of a key in `gets_ip_port`, which draws once per call (`dice`). `Mget`,
`Group`, `SplitDone`, `Ask` follow one call of mget, key by key; `Set` and `Get` are single
calls. `vec_redis_server_`, `TotalIndex` (16 bits wide) and `Connect` are how the redis backend finds the server in its
list. A server that does not answer changes nothing here and is RedisMget's subject.

`RoutingAssumption` says what the code takes for granted of a configuration: at least one
address and port, a list shorter than 65536, and six addresses for types 5 and 6, whose
rules compute with 6 whatever the configuration has (`db_interface.h:443, 450`).

### PluginLoad and PluginReplace

A reference that `dlopen` gives is a *handle*: a record of the library, the update, the thread, the
place in WORK_NAMES, and 0 for the plugin or the place in the plan for an algorithm. The
reference count of a library is the number of its handles; its code (`image`) is read
from the `file` by the first and stays until the last is closed. An object (an interface or
an algorithm) is named by the handle of its code, so `objects` and `handles` can differ:
that is what the properties are about. `orphans` are handles no data structure holds any more.

* `Update` begins one building of all factories: at the start of the process, in `update_db` and in
  `update_work`. `OpenFails`, `NoCreate`, `LoadSection` are the turns of the loop over
  WORK_NAMES: `dlopen` or `dlsym` fails, or the interface is created, opens its algorithms and is
  inserted. Two paths lose handles, as the code does: an algorithm without a create function
  (`algorithm_func.h:43-51`), and an API that is in the map already (`work_interface_factory.h:166`).
* `Swap` puts the factory in the thread's slot; the next thread's reads the configuration anew.
* `DeleteInterface`, `CloseHandle`, `Freed` are the destructors after the sleep. That no
  request uses a retired factory by then is HotReload's subject.
* `Deploy` and `EditConfig` are the operator, who may do anything to files and
  configuration at any moment.

One call of the dl functions clears the error of the one before, as glibc does. `create…` never returns NULL in the model
(`new (std::nothrow)`), and a missing key of a section is the same as a shorter WORK_NAMES.

`PluginReplace` keeps the service and restricts the operator to the procedure that the
documentation asks for (remove the plugin, then add it): `RemoveSection`, `ReplaceFiles`,
`AddSection`. The client stops waiting after 1.5 s and repeats the command once (`Resend`), then returns
without an answer (`Returned`), and the operator goes on: 3 s at most (`binserverclient.py:54`), while the
service sleeps 15 s before it closes the library. `Accept` is the control thread taking one command after the
other, however many wait. `restarwork.sh` itself replaces no file between its two halves; the person who does
(`ReplaceFiles`) may be earlier than the end of the update. The ghost `early` remembers that: then a mapped
file may be overwritten or the old code stay mapped, and `NoOverwriteWhileMapped` and
`NewCodeServes` except it by name. That the others are served and every command ends (`OthersServe`,
`ProcedureEnds`) is stated of every operator.

### Query and the backends

A *call* is what a thread does inside one DbInterface: its `pc`, its return value and its result
pointer (`call[d]`), the interface's buffers and index (`iface[d]`), the locals of a call for
many keys (`many`). A buffer's content is named `<<n, k, form>>`, the value for the k-th key of the
query thread's n-th call, so a value of an earlier call or of another key is recognised wherever it
turns up; `form` tells whether reading it gives that value and no more (`text`), the value and then
the end of what the buffer held before (`tailed`), or what ran over from the buffer before it (`rest`). `heap[d]` counts the connections, replies, clients, handles and values a call has
allocated: `malloc`s that are not freed, and frees of what is not there, both show. `odd`
collects the four places where the code is known to lose an object.

* `RedisCall`: the connection, tried once; SELECT and GET, each sent a second time when there is neither
  a reply nor an error; the reply by type; SET with the repetition after a refusal; `s_mget` element by element.
* `McCall`: the handle that is kept between calls, dropped for a server marked dead; `mget` by
  `memcached_fetch`, in the order in which the servers answer. Each value is copied as it comes (`McCopy`,
  `mc_db_interface.h:228`): no terminator, no bound, no `uncompress`, no length for the caller, unlike `get_i` (`:170`).
  What remains of an earlier value behind it and what runs into the next buffers is in the model; what is
  written past the last buffer is undefined and is not.
* `ApiCall`: no address, no curl handle, the header list, the transfer. A request by number to a database with
  tokens passes NULL for the header, and `curl_slist_append` dies of it (`ApiCrash`, `api_db_interface.h:150, 284`):
  the process ends, and `bin/saferun` starts it again (`Renew`).
* `WooCall`: `get` and `mget` with a client per key; `smget`, which sends on all clients and waits
  for them with `select`: any subset of them may be ready, in any order.
* `Query`: `Push`, `GetMultiDb`, `Thread`, `Join`, `ReleaseMap` are `get_multi_db` around the
  backends' calls, which interleave step by step; `CallMany`/`ReturnMany` a call of the plugin's own;
  `Release`/`Renew` the end of a DbCompany and its successor.

The databases of an instance differ by backend and by the settings that choose a path (`Selects`,
`Compressed`, `Plain`, `Tokens`, `NoIp`). Servers are one nondeterministic choice per call of a
library. The contents of URLs and values are left out, and a woo server's answer is taken as a text that ends in its
buffer: the library is told of a longer one than it is given (`woo_db_interface.h:90`).

### Inputs

Five modules of operators, with one small state machine to range over their arguments. `IniFile` sees a
file as a sequence of lines (header, entry or other), a name as a sequence of letters and a value as a
sequence of words: names are found *up to their length in the file* (`Matches`), as
`strncmp` does it, and writing has the three cases of the code, one of which passes the rest of the file
through `sprintf` (no part of the repository calls `write_profile_string`; it is the library's other half).
`ConfigLoad` is `DbCompany::load_config` on that file. A section without an address *or without a port* is passed over: `read_profile_string`
returns 0 for a missing key although it has copied the default (`ini_file.c:184-190`), so that the ports given as default in
`db_interface.h:98` are never used (`Place`). The id is cut to 16 bits (`IdWidth`). In `Inputs`, `Write` and
`Truncate` (the process dies between `fopen` and `fputs`) produce the files; `Grow` produces the texts.

A text is a sequence of bytes. `Text`, `DataFiles` and `Encoding` translate a loop of the code as a
recursive function of the number of rounds, whose step has a name of its own (`IdsAt` is one round of
`SplitStringIds`, and so on). The reference is in each case another form of the same thing: the pieces of
`split_string`, the lines of a file, the grammar of an encoding. `strtoull` and `atoi` are external and modelled by what
they read: white space, one sign, digits; the first wraps a negative number in `Width`, the second is a
`long` cut to an `int` of `IntWidth`. The numbers of a UID_PLAN go through `atoi` (`utility.h:208, 217`), so that -1 and -2 of
`conf/alg/example_alg.ini` stay apart. A pair's score without a point is a tenth for each of its digits after the first
(`utility.h:112-121`), which `PiecesAgree` says as the code has it.

### Dispatch and Batch

`work[t]` is the request of thread t: its user, the ids redis has answered with, those kept so far,
the section of `run_algorithm` it has reached and the algorithms that ran. Every look at a
global database is a step of its own and reads `version[t]`, which the service's
`Install` may have changed since the last. `resp_body[t]` is the thread's response buffer with the
number of the request it was written for; `out[t]` the responses given.

`Batch` has two initial states of the program: the batch program with its keys file (missing,
perhaps) and the threads whose output files can be opened, and the service, which gets requests of any kind.
The batch program installs a new version only after its threads have ended.

## 3. Runs

| run | instance | what it shows |
|---|---|---|
| `hot_reload` | 2 threads, 1 global database, 2 commands, SLEEP_TIME 2, requests ≤ 1 | safety of the reload, its action property, that every accepted command is answered, and that the commands together implement SafeReclaim |
| `hot_reload_slow_request` | 1 thread, 1 command, requests ≤ SLEEP_TIME | **violated**, as expected: a request as long as the sleep |
| `redis_mget` | 2 keys, ≤ 3 per call (with repetition), ≤ 2 servers, 4 buffers, ≤ 3 per thread | mget, both forms, several calls in a row; a call returns |
| `mget_reload_value` | 2 keys, ≤ 2 per call, ≤ 2 servers, 4 buffers, ≤ 3 per thread | **violated**, as expected: a key with another key's value |
| `routing` | 6 × 2 servers, 2 keys, SELECT_TYPE 0–10, mget of ≤ 2 keys, 2 calls of set | both switches, the grouping, the list of servers |
| `routing_hash` | SELECT_TYPE 5 | **violated**, as expected: mget asks another server than get |
| `plugin_load` | 2 threads, 2 libraries, 2 sections of one API, 2 file versions (1 broken), 3 updates | code outlives its objects, nothing stays open |
| `plugin_replace` | 2 threads, 3 libraries, 2 sections, 2 attempts per command | the procedure works, and ends, although its commands are repeated and given up |
| `plugin_replace_broken` | as `plugin_replace`, any old files | **violated**, as expected: a broken algorithm's library is never read again |
| `inputs` | 4 ini files, 7 settings, ≤ 14 lines; texts of ≤ 5 bytes over two alphabets of 7 | settings are loaded as written, writing keeps the others, splitting, searching, data files, encodings |
| `query` | 6 databases (2 redis, memcached, 2 api, woo), 2 buffers, ≤ 3 keys, 2 calls per DbCompany, 2 requests at a time | own answers, nothing lost or freed twice, calls return |
| `batch` | 2 threads, users 3 and 13 (and 14 in files), 3 versions, 5 key files, ≤ 2 requests to the service | own responses, the plan, each key once, the end |

**Bounds.** Two threads are needed for a half-done installation, two commands for
every ordered pair of commands (the second meets the objects of the first; the proof
covers longer sequences); one database name suffices because each single update
concerns one name, and whether it is loaded is a choice at every load. SLEEP_TIME 2 and
MaxReq 1 is the smallest instance with a request strictly shorter than the sleep. Four
buffers and windows of at most three make the limit on the step bite for two servers
and leave a call of three keys that overflows a window. `MgetReload` has the same buffers and a key fewer per call;
its trace needs no corrupt value. `MaxCmd`, `MaxServers`,
`MaxKeys` are bounds of the models, not of the code. The real values: `SLEEP_TIME` 15 s,
24 query threads in the shipped configuration, 1024 buffers, 64 per thread by default.

Six addresses and two ports are the least that types 5 and 6 allow; the keys 13 and 47 differ in
their address, port, digit sum and quotients. In `plugin_load` the two sections share an API and one's
library is the other's algorithm, so that a library can stay open across factories; three updates
let the third meet what the second released. In `plugin_replace` five updates are the start and two
attempts of each command. What is proved (section 5) holds for all larger instances too.

In `inputs` the name A is the beginning of AB and of AC, which is what the prefix search
needs; one list of names is longer than its buffer (`Size` 3) and is cut; one section has no port; the ids 1 and 9 are one id in `IdWidth` 8; the files reach 14 lines after the writes of all settings. Five
bytes hold a number with a separator on both sides, a pair with a score, a line as long
as the buffer (`BufLen` 5) and the next, and UTF-8 characters of two and three bytes, whole, cut, and
with a neighbour.  The first alphabet has the minus sign. The small widths (`Width` 100, `IntWidth` 40, `ByteSize` 2) let numbers wrap; about 46,600 states. In `query` every
setting is on in one database and off in another of its backend, or decides by itself; two calls show a
buffer that keeps an old value, three keys more than there are buffers (`s_mget`), two requests at a time
all pairs of backends (about 528,000 states, two minutes and a half). In `batch` the three versions differ in which database is loaded
at all, and user 3 leaves the white list when 13 enters it; two requests to one thread show
what the first leaves behind for the second. Thread 0 of the service gets no requests: threads share
nothing but the version, which `Install` gives it all the same.

**Fairness.** `HotReload!Fairness` is weak fairness of the control thread's steps
(an accepted command is code without a wait other than `sleep`), of time, and of the end of
each request. The last is needed because of the model of time only: with a request at
its limit, `Tick` waits. No client is assumed to send anything. `RedisMget!FairSpec`
is weak fairness of the pthreads and of the caller: redis commands time out, so each one
returns or fails. No liveness property refers to a server's cooperation.

`PluginReplace!SpecReplace` is weak fairness of the service (one loop of code whose only wait is
the sleep) and of the operator's going on with the procedure, which is the premise of its question. `Resend` has none.

`Query!Fairness` is weak fairness of each interface's steps and of the query thread when its calls have
returned: every library call has a time limit from TIMEOUT, so a step is always possible, and none of the
steps waits for a server. `CallsReturn` excepts by name the requests that end the process (`Doomed`). `Batch!Spec` has weak fairness of main and of its threads.

**Deadlock** is checked in all runs but those of PluginReplace, `inputs` and `batch`. The procedure of PluginReplace
ends (`op = "done"`), as does the batch program, and its service has had all its requests; in
`inputs` a text has reached its length. A dead process of HotReload is an explicit stuttering step (`Dead`).

## 4. What the expected violations say

* `hot_reload_slow_request`. The comment at `lab_common_svr.cpp:50` says the sleep
  *guarantees* that nobody uses the old pointers. It does so only when no request lasts as
  long as the sleep. Nothing in the code bounds a request: a plugin may make any number of
  store accesses, each with its own timeout. With `MaxReq >= SleepTime`, TLC shows a
  request that begins before the swap and still holds the company that is deleted.
* `mget_reload_value`. `update_global` calls `DbCompany::initialize` on live companies; this
  resets the buffer index of every DbInterface (`db_company.h:145-150`). An `mget` in progress
  then stores its next value into a buffer it has already given to another key (or two
  threads get the same window): the request silently gets a wrong value. `update_db` and `update_work` do
  not have this, they build new companies.
* `routing_hash`. `gets_ip_port` (mget) has four of the ten cases of `get_ip_port` (get, set); for
  types 4–9 its default sends every key to server <0,0>. The comment at `db_interface.h:440` calls
  type 5 "a hash rule"; an mget does not follow it, and does not find what `set` stored.
* `plugin_replace_broken`. `create_so_handle` skips an algorithm without a create function and leaves its library
  open (`algorithm_func.h:43-46`; the plugin's own path closes it). The library stays mapped until the process ends,
  and a repaired file is not read by any `update_work`.

## 5. What is proved

`tlapm` checks every proof; nothing is assumed but the constants' assumptions
and what a theorem states as its hypothesis.

**HotReloadProofs**, for any number of threads, databases and commands:
`TypeCorrect` (unconditionally), and under `MaxReq < SleepTime` that `IInv` is inductive
(`Inductive`), from which follow `Safe`, `OldPointersUnused`, `NoLeak`, `Agreement`,
`LivePointers` and `RetiredOnly`, the theorems for the invariants of the run `hot_reload`. A type invariant that is
proved is in no run. The hypothesis is the exact
one the code needs and does not enforce (section 4).
`Answered` (`AnswerMeansInstalled`) needs no hypothesis: its invariant `InstalledOK` says how far the
loops of a command have come, which does not depend on the requests. `ViewsGoOn` (`ViewNeverGoesBack`) adds to that
what a request has read, and that everything it can read next is at least as new. `Implements` maps each
step to SafeReclaim: every `delete` is a `Reclaim` of what is in no slot and held by nobody (`Retired` and
`GraceOK`), every read of a pointer an `Acquire`, the end of a request a `Release`, and every other step an `Update`
or a stutter, since it deletes nothing and publishes only what is allocated.

Why the invariant is as it is. `NoUseAfterFree` alone is not inductive: a delete keeps it
only if no request holds the retired objects. `GraceOK` says so by time: a request that holds
a retired object is at least as old as the sleep (`slept <= elapsed[t]`), because after the
swap the object is in no slot (`HeapOK`, `BindingOK`) and cannot be read any more. When the
sleep is over, `SleepTime <= elapsed[t] <= MaxReq`, against the hypothesis. This needs
to know for each step which objects the heap holds and why (`HeapOK`: what the slots reach,
and the spares), that each DbCompany, retired ones too, points to the published
GlobalDbCompany, or to the new one where the loop has passed (`BindingOK`), that names of
new objects are unused (`NumbersOK`), and which locals are in use where (`ControlOK`).
The proof has a lemma per part of the invariant and, in it, a step per action.

**RedisMgetProofs**, for any number of keys, servers, buffers and threads:
`Inside` and `Apart` – window w starts at (w-1)·step, and the limit on the step makes all
windows fit (`StepFits`, the arithmetic of `hiredis_db_interface.h:358-362`) – and `Faithful`
(`OwnValue`), by an invariant that each entry of a result so far points to a buffer that
holds its key, and that a pthread's entries lie in the part of its window it has filled.
`NoneLost` (`NoKeyLost`) covers both forms. A pthread's key is missing only if its server's reply is longer than the
window; in the serial form `GroupedCounts` is needed as well: the groups together are as long as the
request, by induction over the loop that builds them, so the index never reaches the end of an array that is long enough.
`MgetReload` violates `WindowsApart`, `OwnValue` and the weaker `NoOthersValue` of its run: the step `Reset` is exactly
what their invariants do not survive.

**RoutingProofs**, for any grid of servers and any keys: `ConnectsToChosen` – the place computed from
address and port, cut to 16 bits, is that server's place in the list –, `TypeCorrect`, `Stored`, `MgetAgrees`,
the last by comparing the two switches case by case (`ServerOfServer`), `GetFinds` (the rule of a key has one server) and
`Splitting` (`GroupsSplitKeys`): after n keys the groups are a partition of the first n, each in their order.
That the sum of digits, a recursive function, has a value for every number is proved by induction.

**PluginReplaceProofs**, first about PluginLoad, for any number of threads, libraries, sections, configurations and
updates: `Inductive`, from which `CodeLoaded` and `CodeUnchanged`. `ObjectsHaveCode` alone is not inductive: when an interface is deleted, its
objects go only if it still owns its handles, that is, if it is not one of the lost ones. `MapsOK` says so for
every interface in a map. It is kept by `LoadSection`, because the handle that becomes an interface is
new: `NamesOK` says that all names come from earlier turns of the loop, or from earlier updates (`Passed`).
`Owners` is the stronger invariant of who owns an open handle: an entry of one map (`ApartOK`), the factory that is
retired (`RetiredOK`), the one being built (`LoadingOK`), or nobody, and then it is lost by one of the two named
paths. `OnlyServing`, `Lost` and `Fresh` (a created object runs the file as it is now) follow.

The part about PluginReplace takes these invariants over, for the procedure is PluginLoad with an operator, and adds where
the procedure is (`ProcedureOK`), what waits and has been sent by then if nothing was early (`PacedOK`), and what the last update has opened;
the two theorems with that exception rest on `PatientInv`, the part of the invariant that holds until then. `OthersGoOn` assumes that the
configuration has the replaced section once and the others too (`OneSection`). `NoOverwrite` and `NewCode` assume an
`Orderly` one: no two sections of one API, no algorithm without a create function, the plugin's file used by
its own section only. Without it a handle may be lost, the library stays mapped, and both are
false (`plugin_replace_broken`). The run `plugin_replace` is an orderly instance.

**QueryProofs**, for any number of databases of each backend, buffers, keys, clients and calls: `Inductive` for `QueryInv!IInv`,
then `OwnAnswersHold`, `ManyOwnHolds`, `NothingLeftHolds`. The invariant says where the call of an interface can be
(`CallOK`: an interface is busy only while the query thread waits for it, which is what makes the members of a DbInterface
safe), which objects it holds there (`HeapOK`, with `odd` for the four named leaks; the crash of the api backend resets them all), that no answer is older
than the call (`AnswersOK`), and for each of the four calls for many keys how far the loop is and that the
pointers given are below the buffer index, apart, and to the keys' own values (`ManyOK`), of memcached's mget to buffers that begin with the values that have come (`Begins`).

**BatchProofs**, for any threads, users, sections, plans, files and versions: `Inductive` for `BatchInv!IInv`, then `Own`,
`Planned` and `EveryKey`. A response need not be of *one* version, an update may fall into the request. The
invariant says what is kept of that: each id gathered was in some version since the request began, and an id in all of
them is not missing (`GatherOK`); each algorithm run is one the plan allows for a version since then (`RanOK`). `QueueOK` ties the
position in a thread's queue to the responses it has given.

**InputsProofs**: `WriteKeeps` (`WriteKeepsOthers`) for files of any length with any names and values: each case of writing
leaves every old line in its place or moves it down, so that the first hit of a search is the one from before or the
new line (`HitsEmbed`, `UpdatedKeeps`, `InsertedKeeps`, `AddedKeeps`). `Loaded` (`LoadsAsWritten`): what
`ReadProfile` finds by prefix is what `ReadExactly` finds by name if names are unrelated, and the loop of `load_config` makes
one interface for each usable name (`MadeIs`, by induction over the list of names), usable being that the whole of its place is there and its type is known. `KnownEncodings` (`EncodingsKnown`), for texts of any length: the loop of `_isUTF8_` ends
with 0 from a position exactly if the rest of the character it is in is followed by well-formed characters (`UTF8Agrees`,
by induction from the end), `_isGBK_` follows every well-formed text to its end, and what iconv writes is at
most 3/2 of the text plus one, which the buffer holds from two bytes on.

**TextProofs**, for texts and files of any length, every `Width`, `BufLen` and `ByteSize`. `SplittersAgree` (`PiecesAgree`): what two
loops have made of the characters so far is related, and one more character keeps the relation. `IdsFollow` says so of
`split_string_ids` and `split_string` (the number being read is that of the digits of the last piece), `FewIds` of the loop with
and without a limit, which differ from the round on in which the limit is noticed; `PairFollows` of the pairs, whose
state depends on whether the second separator and a point have been passed; `MapKeys` of the maps; that
`Atoi` reads a written number as it is follows from what `Scan` has made of its sign and digits so far. `FilesAreReadWhole`
(`FilesReadWhole`): while lines are shorter than the buffer (`ShortBefore`), the chunks of `fgets` are the lines with
their newlines (`ChunksFollow`); a newline changes neither `strtoull` nor `split_string_ids` (`NewlineKeeps`);
and the last line seen twice adds nothing to a set and nothing to a table, where the first value stays
(`TwiceIsOnce`). `FoundHolds` (`FoundIsThere`): when `strstr_k` is at place k of the searched string, the k characters before are its
first k (`SearchStep`; the search forgets other ways to be at a shorter place, so it may miss an occurrence, but never
invents one), and the last piece of what has been read ends as the text does (`LastPiece…`). The bytes of a number come off one at a time
(`Peel`, `FourDigits`), and the two halves change their places (`Halves`, `BytesReverse`).

Induction over data, where a proof needs it (a loop written as a recursive function): a value of the
function exists up to each bound, and it is what it should be there, because there is no least bound without (lemma
`Least`, from the library's facts on well-founded relations). TextProofs does this once and for all, for
a loop given by its set of states and its table of steps (`SomeLoop`): the loop's function exists, is the only one, and what it makes of `Append(s, c)` is
one step from what it makes of `s`. With `SeqInduction` the rest goes by the length of the text.

**Only model-checked**: `CommandAnswered`, `CallReturns`, `CallsReturn`, `BatchEnds` and `ProcedureEnds`, which are liveness
under fairness and out of the prover's reach. Every invariant and every action property of a passing run has its theorem.
The expected violations need none.

**What the proofs have changed in the models.** `WriteKeepsOthers` was first stated for keys and sections that are not
beginnings of one another. The attempt to prove it showed that this is false, of the code too: with a section `[A]` in the file, a write to `[AB]` goes
into `[A]`, and from then on a read of `[AC]` finds it there, though neither of AB and AC begins with the other. The instance had no third name; it has one now (AC), and the property
names exactly that case (`Confused`). `FoundIsThere` lacked a condition: a searched string that has the separator in it
may be found across two pieces and is then the end of none; the searched strings of the instance now include one (`,0`), and without the
condition TLC finds the case. `EveryKeyOnce` and `PlanFollowed` were restated
without `CHOOSE`, and `NoKeyLost` covers the serial form. All loops that theorems are about are recursive functions with
named steps rather than folds, whose operator parameter the provers cannot instantiate; tables are extended by `MapInsert` rather than
`@@`, and the byte order functions multiply step by step instead of taking powers.

## 6. Not modelled, and plan

Worth doing next: the lengths of buffers, as operators on the texts of Text. Five hazards have no property,
and some properties except cases by name in which the code goes wrong: each is noted in `PROJECT.json` with its reason.

Not modelled: the lengths of buffers and what is written past their ends, the insertion into a `std::map`
under a reader (undefined behaviour without a required outcome), signals and the stop of the servers, the
start scripts, `GlobalMapDbInterface` (it calls vendored code only), the algorithms of `alg_tool/`
(they print and return), the echo server (no state), the layout of text and logging, and the vendored
libraries under `depend/`, which are external to all modules.

## 7. Running

    tlc -workers 2 -config HotReload.cfg HotReloadRefinement
    tlc -workers 2 -config RedisMget.cfg RedisMget
    tlc -workers 2 -config Routing.cfg Routing
    tlc -workers 2 -config PluginLoad.cfg MCPluginLoad
    tlc -workers 2 -config PluginReplace.cfg MCPluginReplace
    tlc -workers 2 -config Inputs.cfg MCInputs
    tlc -workers 2 -config Query.cfg Query
    tlc -workers 2 -config Batch.cfg MCBatch
    tlapm HotReloadProofs.tla
    tlapm RedisMgetProofs.tla
    tlapm RoutingProofs.tla
    tlapm PluginReplaceProofs.tla
    tlapm QueryProofs.tla
    tlapm BatchProofs.tla
    tlapm InputsProofs.tla
    tlapm TextProofs.tla

Definitions commented "Variant of …" are mistaken forms of an action. They are used by no specification;
`PROJECT.json` ("mutants") says which property fails when one takes the action's place.
