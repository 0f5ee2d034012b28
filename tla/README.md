# A TLA+ verification of krproject

krproject is a rule engine for streams of events: a server keeps the latest
events of each kind in memory, computes data items over them (current values,
statistics over a period, cached history) and evaluates groups of rules. This
directory holds TLA+ models of its parts, the TLC configurations that check
them on small instances, and TLAPS proofs for all instances.

Definitions keep the names of the code. `PROJECT.json` maps every definition to
the lines it models.

## 1. The system and its parts

| Part | Source | State | Operations |
|---|---|---|---|
| event store | `krdb/kr_db_kernel.c`, `krdb/kr_db.c` | per table a ring of `lSizeKeepValue` records with `uiRecordLoc`, `uiRecordNum`; per index a hash table from key to list of records; a mutex per table | insert (deletes the record whose slot it reuses), select by index, create and drop |
| thread pool | `krutils/kr_threadpool.c`, `kr_queue.c` | bounded queue, mutex, condition variable | add a task, broadcast a task, get a task, destroy |
| parameters | `krparam/kr_shm*.c`, `kr_dym*.c` | two sections of definitions, the active one; compiled tables of each worker | load the standby section, switch, check and rebuild a worker's tables |
| data items | `krdata/*.c` | per worker: current record, memo of static, dynamic and historical items | get or compute a value |
| caches | `krutils/kr_cache.c`, `krdata/kr_hdi_cache.c` | hash table and LRU list, shared by all workers | get, set, resize |
| start-up | `krengine/kr_engine.c`, `krdb/kr_db.c`, `dbs/dbs_basopr.c` | connections, modules, tables and indexes held | acquire each, give all back |
| engine | `krengine/*.c` | environment, context of each worker, function table | start, run a request on the pool, handle requests, detect, shut down |
| server | `krserver/*.c` | event loop, connected clients with input buffers | accept, read and frame requests, reply from a worker, disconnect, shut down |
| coordinator | `krcoordi/*.c` | servers (consistent hash), clients (list), `fdtable` | announce, sign off, pass on applies and replies |
| consistent hash, skip list | `krutils/kr_conhash.c`, `kr_skiplist.c` | virtual nodes by hash | add, remove, locate |
| event loop | `krutils/kr_event.c` | file events by descriptor, time events | create, delete, process |
| expressions | `krcalc/kr_calc.c`, `kr_calc_tree.c`, `kr_calc_parser_json.c` | tree of a rule, with the values of the last evaluation | parse JSON, check types, evaluate (the flex and bison parsers are generated) |
| hash table | `krutils/kr_hashtable.c` | buckets with hash, key, value; counts of entries and of used buckets | look up, insert, replace, remove, resize, iterate |
| trees, lists | `krutils/kr_ntree.c`, `kr_list.c` | links between nodes | insert, unlink, copy, traverse |
| tools | `kriface`, `krshell`, `dbs`, bindings, `krweb`, examples | | code generation, command line, SQL access |

How they interact. The server's event loop (one thread) reads a request,
wraps it in a `T_KREngineArg` and hands it to the engine, which adds it to the
thread pool. A worker takes it, calls `kr_context_set` (which compares the
parameters with the worker's tables and rebuilds what is outdated), inserts the
event into the store under the mutex of its table, evaluates rules on the
record, the data items and the cache, and calls the server's callback, which
writes the reply to the client's connection. A request `reload_param` is
handled by a worker as well and loads the standby section. The coordinator is a
process of its own between clients and servers.

What is hard about it:

* worker threads share tables, hash tables, parameters, caches and clients, and
  only the tables and the pool have a mutex;
* the hash tables of the store and of the coordinator do not own their keys,
  they keep pointers into records and connectors that are overwritten or freed;
* slots, descriptors and sections are used again, and somebody may still mean
  the former owner;
* loads and rebuilds fail half way;
* wakeups, refusals and replies depend on who comes first.

`PROJECT.json` lists these hazards, each at its line, with the properties that
cover it or the reason why none does.

## 2. Plan

| Order | Modules | Status |
|---|---|---|
| 1 | `KrDb` (atomic insert) refining `KrWindow`; `KrDbInsert` (insert as the workers interleave it) refining `KrDb` | done, proved, both refinements included |
| 2 | `KrThreadPool` refining `KrTaskPool` | done, safety proved, the steps of the refinement included |
| 3 | `KrParam` | done, proved |
| 4 | `KrCoordi` with the consistent hash | done, proved |
| 5 | `KrServer` on `KrTaskPool`: connections, framing, replies from workers to clients that may be gone | done, safety proved; shutdown from the signal handler to do |
| 6 | `KrEngine`: requests, detection, data items and what is remembered of them; `KrCache` | done, `KrCache` and the replies of `KrEngine` proved |
| 7 | `KrLoad` (definitions from SQL into the engine), `KrStartup` (start and shutdown) | done, proved |
| 8 | algorithms against reference definitions: `KrHashTable`, `KrNtree`, `KrCalc`; `KrEvent`, the event loop with time events | done, all but `KrNtree` proved |

Left: the shutdown of the pool and of the server from a signal handler, which
free memory that threads still use whatever their order, and the levels of the
skip list.

Every safety property of the plan is proved but those of `KrNtree`, which stay with
TLC (end of section 6).

## 3. The modules

### KrWindow and KrDb: the event store

`KrDb` has the ring (`pRecordBuff`, `uiRecordLoc`, `uiRecordNum`) and the
hash tables (`pHashTable`). An entry is the hash it was stored under, the record
its key POINTER lies in, and the list. A lookup compares the hash and then the
key bytes, that is, what the pointer reads now. `Insert` is one `kr_db_insert`:
the record in the reused slot leaves its lists (`IndexDel`, which moves the key
pointer to the last record left, or drops the entry), the slot is overwritten,
the new record joins the lists of its keys (`IndexIns`, whose
`kr_hashtable_replace` moves the key pointer to the new record), the counters
move. Indexes of type `KR_INDEXTYPE_DB` are one hash table for several tables
(`HashOf`). Records are abstracted to their keys. A sorted index puts the record
anywhere: `kr_list_add_sorted` hands the address of `iSortFieldId` to a
comparison that takes it for the field number, so what it compares is arbitrary.

`KrWindow` is the abstract specification: a table is a sequence of events,
an insert appends one and drops the oldest when there are `lSizeKeepValue`.

### KrDbInsert: insert on several threads

The same insert in seven steps, from `kr_lock_table` to `kr_unlock_table`, on
several workers. Lists are heap objects, a worker holds the pointer between the
lookup and the last use, a freed cell is given out again. `committed` is what the
last unlock of each table published; `KrDb` is instantiated over it. The module
assumes that every table has an index (`IndexedAssumption`).

### KrTaskPool and KrThreadPool

Callers spin on the length of the queue without the mutex, take it, push, and
signal; a broadcast pushes one copy for each worker and stops at the first
refusal. Workers take the mutex, wait while the queue is empty, pop, release and
run. Spurious wakeups are steps. `KrTaskPool` is what the engine relies on:
accepted tasks are started once, in order, and finish.

### KrParam

Two sections, each kind of definitions with the load it came from and its time
in seconds; per worker the table of each kind with the section it points into.
`kr_dym_check` compares and rebuilds kind by kind; `kr_shm_load` clears and
fills kind by kind and switches last; both may fail at any kind, and every step
of one worker interleaves with those of the others. The clock is a variable, so
two loads may fall into one second. The state begins when every thread has run
`kr_context_init`. The elements of sets, which are read by SQL when a table is
compiled, are not modelled.

`overrun` and `sameSecond` record whether a load began on a section that a request
had settled on (or during another load), and whether a kind was loaded twice
within a second. The properties hold as long as neither happened.

### KrCoordi

One step is one call of a handler by the event loop. `conn` is the peer behind
each open descriptor, `fdtable`, `servers`, `clients` and `vnode_list` are the
coordinator's own. The kernel gives out the lowest free descriptor, so
descriptors are used again at once. Good-byes act on the descriptor the message
came on, although the connector that is freed may name another one. After that
`fdtable` holds a freed connector; reading it finds anybody or nobody (`Found`).
A peer may connect again before the coordinator has noticed the loss of the old
connection; `overlap` records that it happened.

Ids have a fixed width, so that the order of vids is that of id and number. A
refused announcement (weights or replica not positive, no JSON) changes nothing
and has no step. The counters and the format of messages are left out. krserver's
side of this protocol is commented out in `kr_server_network.c`; peers are
modelled by what the coordinator accepts from them.

### KrServer

The event loop accepts, reads and parses in one thread; `parsing` is the client
whose buffer it works on, and `ParseMessage` is one round of the loop of
`kr_server_process_input_buffer`, since workers run between the rounds. A read
takes any number of bytes that fit. Bytes carry the request they belong to, a
header is one byte; `FramesExact` uses that, the model's actions only look at the
length in the header. The task handed to the engine holds a pointer to the client
(a heap cell that is freed and given out again). The engine is `KrTaskPool`, so
workers start tasks in order and finish in any order; a server with a single
context runs the handler inside the event loop, which is one of these orders.
`Write` is one `write(2)` of the loop in `kr_net_write`, of any size.

`orphan` records that a client was freed with requests outstanding: its workers
then read a descriptor out of freed memory, and the reply may go to anybody.
`pipelined` records that a client had two requests outstanding. The properties on
replies say under which of these conditions they hold. Replies carry neither the
id of the request nor a number, so their order is all that tells them apart.

### KrHashTable

The buckets with their full hashes, 0 for never used and 1 for a tombstone, the
counts that decide on resizing, and the probe: first bucket by a prime modulus,
then steps of 1, 2, 3, ... A probe that meets no empty bucket does not end;
`StopSteps` is then empty and `LookupEnds` fails. `Entries` are the buckets that an
iteration meets; `Placed` is the loop of `kr_hashtable_resize`, bucket by bucket.
`contents` is the mapping that the calls mean, `owned` how many keys and values the
table has to destroy. `HashAssumption` keeps the number of keys below 2^29, since
the code computes with four times the number of entries in an `int`; and NULL is
not a value, since a lookup returns it for a missing key. The indexes of `KrDb` are
such tables; `MCKrDb` checks the two side by side, a behaviour being one of either.

### KrNtree

`t` is the memory: four links and the data of each node. `kids` is what the
operations mean, the sequence of children of each node; `LinksExact` says that the
links spell it, `TraversalExact` that all traversals (four orders, three flags, every
depth), searches, copies and counts agree with definitions over `kids`.

### KrCalc

`ParseJson`, `Check` and `EvalTree` work on the tree as the code does: a tree is
evaluated again in place, so types, values and marks of the last evaluation are
still in the nodes. A text and its tree are sequences of nodes in postorder, in which
`kr_calc_tree_traverse` visits them; a node has the positions of its children, so that
the traversal is a fold (`Visit` node after node, none after a failure) where
the code is recursive. `Meaning` is the reference: what the text means for one
record, with no tree. Numbers are fractions, so that the double arithmetic, the
cuts to int and the remainder can be told apart; rounding of doubles is left out.
Division by 0 is outside of the instance (the remainder traps). `CalcAssumption` says
what a text is: the children of a node are before it, every node but the last is
the child of one, and an operator of arithmetic or logic has two operands. The
parser accepts any number of them and `_kr_calc_tree_eval_arith` reads
two without asking (`kr_calc_check` asks); texts with fewer are left out.

NEQ of two strings stores what `strcmp` returned (`StrCmp`: 0, or `Distance` up or down;
the run takes 2), and a comparison above it promotes that to a number like any other
(`Promoted`). A rule, a group, a filter, AND, OR and NOT only ask whether it is 0, which
is why `EvalExact` wants of a truth no more than that (`StandsFor`). Four things the
code does are excepted from `EvalExact`, all of them defects (section 5): a comparison of
a truth that is such a `Raw` result, a comparison with a set, which counts as the number
0, NBL on numbers, which always fails (`Misread` is any of these three), and an identifier
whose type is that of an earlier record (`KeepsTypes`).

### KrCache

The LRU list, the hash table, the tables of historical items below the nodes, and
workers between asking for a value and using it. `recent` is the order of use.

The key of a lookup is not the item's: `kr_hdi_get_value_from_cache` looks up
`pKeyValue`, which points to the index field of the data item computed last. So the
model has the context of each worker: the current record (a key for each index, none for
an index its table lacks), the field that `pKeyValue` points to, and the items that have
their value for the record. `NewRequest` is `kr_context_clean`, which leaves NULL;
`ComputeOther` is a static or dynamic item, which sets it; `ComputeValue` sets it after
the lookup, and computes for the field of the item's own index. A lookup with NULL traps
in `kr_string_hash` (`CacheNull`, a state without successors). Of each value the model
notes the key it was computed for and whether its item was looked up by the field of its
own index (`own`). `CachedForKey` is about those: whatever the others have put where,
and whatever was evicted, they are found under the key they were computed for. For the
others that is false in the code (section 5). In the instance the records hold each
other's keys, so that a value filed under a foreign key lies in the table that an item
with its own key asks next, and one record has no second index.

The instance has one worker: with two, one evicts the table that the other is
about to fill, as the comment in `kr_context.h` warns.

### KrEvent

One turn of `kr_event_process`: the timeout from the nearest timer, the poll (of
epoll or of select), the handler of each reported event, then the walk through
the timers. Handlers are the callers' code: they register and delete events and
timers, take time, return a delay or none, and stop the loop.

### KrLoad

Each loader is an action under its own name (`kr_shm_sdi_load`, ..., `kr_set_load`), a
step of it one call to its cursor. `frames` is the stack of the loops in progress (a kind, and the rules of a group or
the elements of a set inside), each with its cursor. Every call to the database may
fail. `handles` counts the statement handles that are allocated, `lost` those of
cursors whose opening failed half way, which nobody can close. `inForce` is the
database as the last successful load saw it. `KrParam` has the interleaving of loads
and requests; here one thread does everything, but row by row.

### KrEngine

One context handles requests one after the other. `Compute` walks the records with
the key of the current one as `kr_sdi_func.c`, `kr_ddi_func.c` and `kr_hdi_func.c` do;
`Get` is the memo under the record's address. A formula compares one operand
with a number (whole expressions are in `KrCalc`). After an event that
no group matches the code follows a NULL pointer (`DumpNoGroup`, a state without
successors). The instance is without the cache of historical items.

The filter of an item is a formula as well: over a field of the record looked at, a
field of the current record, or an item. An item is computed in the middle of the walk,
for the first record that gets as far as the filter (`SdiTried`, `DdiTried`), and
remembered for the others (`GetValue`, `Nests`). Its own walk leaves `ptRecord` where it
stopped (`Sub`): at the record found, or at the oldest one of the list. From there the
outer walk reads the value and notes the related record, though the filter was evaluated
for another one (`Seen`). An item of a filter that has no value makes the evaluation
fail, and the walk ends without a value. `moved` notes that a value was read from another
record than the walk stood at.

`Meant` is the reference: the value of an item by its definition, over the history of
all events, with the true minimum and maximum. `ReplyExact` compares with it every value
that the code is in a position to get right (`Sound`): the method or period is one that is
not marked as to be done (`Finished`); a minimum is not above the 0 that the walk
starts from, a maximum not below it; the same holds of the item the filter asks for; and
that item did not move the record. A group or rule whose formula asks for an item that
is not `Sound` may go either way. What happens in the other cases is in section 5.

`order` holds the addresses of the stored records by age. The list of records with a
key, which the code walks from its tail, is the set of their positions in `order`;
`Newer` is the counter `iAbsLoc` or `iRelLoc` of the static items, and
`Aggregates(method, seen)[k]` the value of a dynamic item after the k newest records.
`EngineConstants` says what the constants are: rings of one record at least, events of
known tables with integers as values, items with a location of `ABSOLUTE` or `RELATIVE`,
or a period of `DAY`, `MONTH` or `FLAG`, formulas that name items, integer weights. The
item of a filter has a filter over a field itself, so items nest two deep; all items
name one index.

### KrStartup

The resources of `kr_engine_startup` in the order it takes them, one row of the
database after the other, any step failing; `held` is what is allocated, `twice`
what was given back again. A resource is a pair of its kind and of the table or
index it belongs to; a shutdown gives back those of the steps that were taken.
`skipped` records the two failures the code passes over (an unknown type of index,
a failing cursor of fields). Ids of tables are not 0 (`StartConstants`), because of
what `kr_drop_table` does to such a table (section 5).

### KrParts and MCKrComponents

`KrNtree`, `KrCalc`, `KrCache`, `KrEvent`, `KrLoad`, `KrEngine` and `KrStartup` share no
state. One run checks them all: `Init` picks the component, the variables of the
others stay as they are. `KrParts` is the part of this that theorems are about: it puts
together the event loop, the cache, the loaders and the start-up, declares their
constants with what is assumed of them, and states their properties.
`MCKrComponents` extends it, `KrEngine` and `KrCalc`, which rest while another component
runs, and adds `KrNtree`.

## 4. The runs

| Run | Instance | Distinct states | What it shows |
|---|---|---|---|
| `krdb` | two tables with rings of 2 and 3 slots, two keys, an index of one table, one shared by both, one sorted; or a hash table, with eight keys of which some have equal hashes and some collide, in 8 and 16 buckets | 86849 | the rings are sliding windows (`WindowSpec`), no key pointer dangles (`KeyAnchored`), the indexes hold exactly the stored records (`IndexSound`, `IndexComplete`, `OneEntryPerKey`), oldest first (`ListsFollowAge`); in a hash table every search ends (`LookupEnds`), and a lookup returns exactly what was put in, after any sequence of inserts, removals and resizes, while the table owns each key and value once (`LookupExact`) |
| `krdb_insert` | two workers, two tables, own indexes only | 83591 | inserts are atomic (`AtomicInsert`: the unlocks are steps of `KrDb`), no trap, no leaked list, tables not locked are as published, every lock comes back |
| `krdb_shared` | the same with a shared index | violation | finding 1 |
| `threadpool` | three workers, one caller, queue of 3, three calls | 76154 | implements the steps of `KrTaskPool` (`PoolSafe`) with its fairness (`PoolFair`), no lost wakeup (`EnoughAlert`), the sole caller is never refused |
| `param` | two workers, two kinds, three loads, three seconds | 275908 | requests see one whole load, the one in force when they began, and nothing changes under them, while loads are spaced |
| `param_reload` | the same, without the condition | violation | finding 2 |
| `coordi` | three servers with up to two virtual nodes, one client, three descriptors, four objects | 267960 | the ring is exact, `fdtable` agrees with the lists and messages reach their peers unless a peer came back too early, consistent hashing |
| `server` | two connections on two descriptors, two requests each of up to 3 bytes, a buffer of 2, replies of 2, two workers | 1820495 | requests are framed exactly however they are cut, the list of clients, the event loop and the descriptors agree, replies reach their askers in order under the conditions above |
| `server_live` | two connections, one after the other, on one descriptor | 315101 | every request is answered or its connection ends |
| `server_pipelined` | one connection | violation | finding 3 |
| `components` | see below | 1675504 | the properties of the seven modules, each on its own instance |
| `engine_memo` | the same | violation | finding 4 |

The instances of `components`:

| Component | Instance | Properties |
|---|---|---|
| `KrNtree` | four nodes | `LinksExact`, `TraversalExact` |
| `KrCalc` | eighteen formulas with every operator, a field whose type differs between two tables, a `!=` of strings below other operators, every value missing or not | an evaluation gives the meaning for this record and nothing left from the one before (`EvalExact`, where no node misreads another); what the type check accepts does not fail (`CheckSound`) |
| `KrCache` | three keys, limits of 1 and 3, two items with an index each, three records that share keys, one worker | what stays was used last, and a value whose item was looked up by the field of its own index was computed for the key it is found under (`CacheExact`) |
| `KrEvent` | two descriptors, three timers, a second of two milliseconds, both layers | loop and layer wait for the same events (`InterestExact`); no due timer is passed over or served twice, and the wait is less than a second too long (`TimersServed`) |
| `KrLoad` | five databases, two loads, a section of two definitions per kind | what is in force is what the database held, whole (`LoadedWhole`); every cursor is closed (`CursorsClosed`) |
| `KrEngine` | three tables with rings of 2, 1 and 1, five events of which four arrive, twelve items of which three have an item in their filter, three groups | a reply of success reports the right group, rules, weights, values and related records, as far as the items are `Sound` (`ReplyExact`) |
| `KrStartup` | three databases with shared indexes, any step failing | the store is the one described, nothing is given back twice or kept (`StoreLifecycle`) |

Why the bounds are enough for the cases to happen. Rings of 2 and 3 slots go round
at different paces, so a record of one table leaves a shared list from the front,
the middle and the end, lists become empty and are made anew, and the key pointer
moves across tables. Two workers are enough for a conflict over an index; three
heap cells for one key let a freed list be taken again while another is in use.
Three workers and a queue of three let the queue be full, workers asleep, popping
and running at once; `threadpool` has no more tasks to come at the end, so deadlock is not
checked there. Two kinds give a first and a last one, three loads let both
sections be overwritten. Three descriptors for four peers are exhausted and used
again; the virtual nodes of the servers alternate on the ring, one hash collides,
and the objects lie before, between and after them. A request of 3 bytes does not
fit into a buffer of 2, two of one byte fit together; with one descriptor
connections are refused, and the descriptor and the heap cell are used again
while a worker still has the former client's request. A server may have nothing to
do, so deadlock is not checked there.

Eight keys overfill eight buckets, so the hash table grows, shrinks and fills with
tombstones. Four nodes give a node with two neighbours below a parent. Timers
created by handlers, deleted by handlers and overdue by more than a second occur
with three timers and four milliseconds. A failure at the second rule of the second
group is a failure in a nested loop that is not the first. Rings of one and two slots
reuse addresses within four events. Several of these components come to an end
(bounded loads, a stopped engine), so deadlock is not checked in `components`.

Fairness. `KrDbInsert` assumes that an insert that has been called goes on when it
is not blocked on the mutex (weak fairness of the steps of each worker; a mutex that
is contended is eventually had, since the other worker needs new calls to take it
again, and nothing makes it call). `KrThreadPool` assumes the same of callers in a
call and of workers. Nobody has to make a call, and wakeups without a signal need not
happen. The threads are ordinary pthreads and no code path blocks outside the
modelled waits. `KrServer` assumes weak fairness of the
parsing loop and of the workers, and strong fairness of reading each descriptor,
since the loop handles all that poll reports before it polls again but does not
read while it parses. It also assumes that peers read what is written to them:
`kr_net_write` spins on EAGAIN without a limit. Peers need not send or hang up. The
other modules state safety only and assume no fairness.

## 5. Findings

1. `krdb_shared`: tables with a common `KR_INDEXTYPE_DB` index share a hash table,
   but an insert locks its own table only. Two inserts into two such tables with
   the same new key make two lists; the second replaces the first, and a stored
   record is missing from its index.
2. `param_reload`: a reload clears definitions that a request in progress points
   to, when the request began before the previous reload, or when two loads fell
   into the same second.
3. `server_pipelined`: two workers that answer two requests of one connection
   write to it without a lock; when the socket takes a reply in pieces, the bytes
   of the two replies mix and the message format is lost.
4. `engine_memo`: a data item remembers the address of the record it was computed
   for. `kr_context_clean` resets the value between requests but not the address.
   When the ring puts a later event at the same address the item is taken as
   cached, has no value, and the event is answered with an error.

Further defects met while modelling. The models do what the code does there; most
happen in every order of steps, so that no property could say more than the line:

| Line | What happens |
|---|---|
| `krdata/kr_context.c:215` | an event that no group matches: the dump follows a NULL group (`DumpNoGroup`) |
| `krdata/kr_context.c:184` | a rule of another datasrc was not evaluated and is listed with an earlier result |
| `krengine/kr_engine.c:220`, `:230` | a failed `kr_context_set` and an unknown method answer like a success (`Unhandled`) |
| `krengine/kr_engine.c:172` | a start-up that fails before the pool exists calls `kr_threadpool_destroy(NULL)` (`GiveUp`) |
| `krengine/kr_engine.c:146` | handlers are registered after the workers run |
| `krserver/kr_server.c:69` | the signal handler frees the server while the loop and the workers use it |
| `krcoordi/kr_coordi.c:93` | the time event frees the event loop that is calling it |
| `krutils/kr_threadpool.c:150` | a broadcast that meets a full queue returns without waking anybody (`BroadcastTask`; nothing calls it) |
| `krutils/kr_net.c:225` | a peer that does not read keeps a worker in a busy loop |
| `krdb/kr_db_kernel.c:166` | the address of `iSortFieldId` is taken for the field number (`Places`) |
| `krdb/kr_db_kernel.c:344` | the list of tables is searched for the table with a comparison of ids, whose argument is then the first bytes of the mutex: no table is unlinked and dropping the database reads freed tables on its way (with an id of 0 the wrong one could be unlinked) |
| `krdb/kr_db.c:126` | an index of an unknown type ends the building of the indexes, reported as success (`UnknownIndex`) |
| `krcalc/kr_calc_tree.c:555` | `!=` of two strings stores what `strcmp` returned as a truth; a comparison of it with another truth or number goes wrong, and the dump reports it as it is (`StrCmp`, `Raw`) |
| `krcalc/kr_calc_tree.c:430` | a set that is compared counts as the number 0 instead of failing (`Promoted`) |
| `krcalc/kr_calc_tree.c:603` | NBL on numbers always fails (`EvalLogic`) |
| `krcalc/kr_calc_tree.c:653` | the type of a field is that of the first record, also for records of other tables (`EvalExtern`, `KeepsTypes`) |
| `krcalc/kr_calc_tree.c:759` | freeing an expression destroys the hash set of its SET node, which others use |
| `krcalc/kr_calc_dumper_json.c:19`, `kr_calc_dumper_flex.c:48` | loop variables without initial value |
| `krparam/kr_dym_ddi.c:14`, `kr_dym_sdi.c:14`, `kr_dym_rule.c:15` | an expression that does not parse gives a NULL calculator, which is installed |
| `krparam/kr_dym_set.c:100` | the elements of a set are read when a worker compiles, and may be newer than the definitions |
| `krdata/kr_context.c:29` | workers read the sets through the connection they share |
| `dbs/dbs_basopr.c:45` | autocommit is off and nothing commits |
| `krdata/kr_hdi.c:56` | a historical item is looked up and cached under the key that the item before left in `pKeyValue`: it may get the value of another key, and as the first item of a request it hashes NULL (`CacheHit`, `CacheNull`) |
| `krdata/kr_hdi_cache.c:66` | keys of the cache are hashed and copied as strings, whatever the type of the index field |
| `krdata/kr_context.h:19` | the cache is shared by the workers without a lock: a value may be freed between lookup and use (`KrCache` with two askers) |
| `krdata/kr_ddi_func.c:119`, `:137` | MIN and MAX, "min" and "max" at lines 10 and 11, start from 0: the minimum of positive values is 0, and so is the maximum of negative ones, or that of none (`Finished`) |
| `krdata/kr_ddi_func.c:57`, `kr_sdi_func.c:37` | an item that a filter asks for walks with the same `ptRecord`: the value and the related record are then taken from the record it stopped at (`Seen`, `moved`) |
| `krdata/kr_ddi_func.c:169` | the methods CON_INC, CON_DEC and CNT_DIS are to be done and give 0 (`Aggregate`) |
| `krdata/kr_hdi_func.c:89`, `:155` | the sums of the statistics of days and months are not used, the value is 0 (`HdiAggrDay`, `HdiAggrMon`) |
| `krutils/kr_event.c:289` | the sleep before an overdue timer is cut to 0 in its seconds only: a delay of less than a second, against "without to delay any event" at line 174 (`SleepsBounded` states what is kept) |
| `krutils/kr_cache.c:125` | a smaller limit evicts entries although there was room (`SetMaxSize`) |
| `krutils/kr_ntree.c:975` | `kr_ntree_child_position` returns -1 whenever its arguments are not NULL |

## 6. The proofs

All theorems hold for every value of the constants that the named assumptions
allow: any schema, any `lSizeKeepValue`, any number of workers, callers, tables,
kinds, servers, clients, descriptors, items and rules, any hash function. Assumptions of
modules that a run extends are evaluated by TLC, those of `KrEvent`, `KrCache`, `KrLoad`
and `KrStartup` in `KrParts`, which `MCKrComponents` extends.

**KrListProofs** holds what the other proofs share: insertions into and removals from
sequences, position by position; that a set of numbers has a least and a bounded one
a greatest element (from the well-foundedness of the naturals), which the searches
of `RemoveFirst`, `Min` and `Max` return; and that what holds of 0 and goes from each
step to the next holds of all steps (`StepsReach`), which takes the place of inductions.

**KrDbProofs** (`SchemaAssumption`). The invariant is `IInv`: the ring's types,
`RingFilled`, and `IndexInv`, which says of each hash table that it is right for
exactly the records stored in the tables sharing it (`IndexOK`). It is stated
for a hash table, the memory and a set of records, because in the middle of an
insert it holds for the records without the one being replaced: `IndexDelOK`
takes a record out of the set, `IndexFrame` lets the slot be overwritten since no
key pointer lies in it any more, `IndexInsOK` puts the new record in. None of
`KeyAnchored`, `IndexSound`, `IndexComplete`, `OneEntryPerKey` is inductive without the
others. Proved: the five, the types, that a delete always finds its list
(`DeleteFindsList`), and `RingIsWindow`, the refinement of `KrWindow`, by the
arithmetic of the ring position. `SelectFollowsAge` needs more: `AgeInv` says of
every list that of two records of one table the older stands first, older being
measured from the ring position. The position moves with each insert, so the age of
every record changes; its order does not, except that the record which leaves
was the oldest and the one which comes is the youngest. The other tables of a
shared list do not come into it. That a select leaves nothing out is
`IndexComplete`.

**KrDbInsertProofs** (`InsertAssumption`, `IndexedAssumption`, and `Unshared`, the
hypothesis that no two tables share a hash table: `krdb_shared` shows what becomes of
the indexes otherwise). The invariant says of each table nobody has locked
that memory, ring and indexes are as published, and of the table of an insert at
which stage each of its indexes is: as published, cut (the record is unlinked from a
list that the worker holds, and the entry still points into the slot), without the
record, opened (the worker holds the list the record belongs to), or with it. Each
of the seven steps moves one index by one stage; at the unlock all have arrived, and
the published state takes the step of `KrDb` that one call would have taken.
`Val` reads an index on pointers as the one on lists that `KrDb` has, so that
`IndexDelOK` and `IndexInsOK` of `KrDbProofs` are used again. `HeapInv` (an entry points to
a list of its own index and key) keeps a step of one worker away from the lists of
the others; with `NoLeakedList` it is part of the invariant. Proved: no trap,
exclusive indexes, committed tables, no leak, `InsertsAreAtomic` (the safety of the
refinement of `KrDb`), `StoredRecordsAreIndexed`, what `krdb_shared` refutes for shared
indexes, and `InsertsSlideTheWindow`: composed with `RingIsWindow`, the refinement
reaches from the interleaved steps to the window of `KrWindow`.

**KrThreadPoolProofs** (`PoolAssumption`). `MutexHeld` is inductive with the types.
`SoleCaller` needs `RoomKept`: a sole caller past its spin finds room, because
the others only pop. `NoLostWakeup` counts: a push adds one task and wakes one
sleeper, a worker that pops takes one task and itself away. `TaskOnce` needs
`FreshCalls`: the ids of calls that have not pushed are not in use. With the
types, every step of the pool is one of `KrTaskPool` (`PoolImplements`): a push
is an Accept (a broadcast one of each copy), a pop a Start by a worker that has no
task, the end of a task a Finish, and taking, releasing and waiting for the mutex
change nothing there.

**KrParamProofs** (`ParamAssumption`). `IInv` adds to the types `AtFirst` (loops begin
at the first kind), `LoadInv` (one load at a time, on the standby section, and
what it has filled so far is its own), `TimeInv` (what a spaced load has filled is
newer than the active section, and a table is no newer than the clock) and
`RequestInv` (`Settled`: the section a request has settled on still holds one
whole load, and the tables checked so far are of it). Times decide whether a table
is rebuilt, so the equality of times must imply the equality of loads: that is
`TableTime`.

The second half of the module is about the expressions (`CalcAssumption`):
`EvaluationIsExact` and `ChecksAreSound`, for any texts and any records. The
invariant `CalcInv` says that the tree stays one of its text (`IsTree`): kinds,
operators and children never change, an operator has its type for good, a constant
its type, value and mark, and of an identifier nothing more is known, since what
earlier evaluations, or one that failed half way, left in it may be anything. And the
last outcome is that of a walk that started from such a tree. So it suffices to
follow one walk. `Course` says of it that it stops at the first failure and does not come
back to a node, so that what it left there is there at the end. `NodeMeans`
is one visit: if the children of a node match what they mean, the visit fails exactly
when the node, by what its children mean, is an error, and matches it otherwise, with one
lemma for each kind of node. `TreeMeans` carries this along the walk; that an error
below is one of the whole expression (`ErrorRises`) is where every node must be the child
of a later one. `TreePasses` carries along the same walk that a node has its value when
the check accepts it. A node matches a truth if both are 0 or neither is, as a `!=` of
strings may leave any number; everything above asks no more, except a comparison. The
exceptions of `EvalExact` are hypotheses about the tree at the end and are used at one
place each: `IdMeans` needs that the type a node keeps is the record's, `LogicMeans` that
the node is not `Misread`: that the left side of an NBL is a string, that no side of a
comparison is a raw truth, so that equal truths are equal numbers, and none is a set. For BL and NBL
`OperatorPasses` ends in a contradiction: the check compares the type of the left side
with POINTER, so once the types are known it accepts them only with a set on the left.

**KrCoordiProofs** (`CoordiAssumption`). `IInv` is the types, `RingExact`, and, unless
a peer came back too early, `OneConnection` (each peer has one open connection)
with both directions of the agreement of `fdtable`. Without `OneConnection` the
good-bye of a peer might close a descriptor other than its connector's.
`LocateSticks` is the heart of consistent hashing: the first virtual node of a set
is the first of every part it is in, so virtual nodes of one server that come or go
move only what is located at that server. That a least virtual node exists follows
from the well-foundedness of the naturals.

At the end of the same module: the hash table (`HashAssumption`), which the
coordinator's `fdtable` is, as are the indexes of the store. The inductive invariant `HashInv` says that the table
is in order (`TableOK`), that it holds what `contents` says (`Stored`), that both counts
are right and that a bucket has never been used. `TableOK` is about every size the
table can have: keys are distinct, and a search for the hash of an entry gets to it
(`Reached`): no bucket on the way is empty. That is why a removed entry must become a
tombstone, which `Erase` uses, why a key must be looked for behind the tombstones
before one is taken (`InsertionPoint`), and why a resize may drop the tombstones but
must place every entry again. `SearchStops` needs a bit of number theory, `Triangle`,
`ProbesDiffer` and `ProbesAll`: among 2^n steps of 1, 2, 3, ... no two get to the same
bucket, because 2^(n+1) would divide the product of two numbers below it of which
one is odd (`OddFactor`); so all buckets are visited, one of which is empty. The
loop of a resize (`Placed`) is a recursive function; that its first n steps have moved
the entries of the first n buckets (`Moved`) is shown by a least n for which it fails,
and that the function exists by a least bucket up to which it does not.

**KrServerProofs** (`ServerAssumption`, `NullAssumption`: no client cell is NULL).
`FrameInv` says of each connection that what lies in the client's buffer followed by
what the kernel still has is the sequence of whole requests between the last one
handed over and the last one sent; a read moves the border between the two, parsing
takes a request off the front, and the length in a header is right because the byte
stands in a whole request. Replies need `HeldInv` (unless a client left with
requests outstanding, the client of every task is there, with the connection the
request came on), `TaskInv` (no request is with the engine twice) and `ReplyInv` (what
a peer has got of a reply is what its worker has written). `RepliesAreInOrder` adds, for one
outstanding request per client, where the output of every connection stands
(`OrderInv`).

The second half of the module is about the engine behind the server
(`EngineAssumption`): `ReplyIsExact`, from the invariant `EngineInv`, which has five parts.

* `StoreInv`. The stored records can be numbered: place p of `order` has the number of an
  event of the history, in rising order; the record is that event; and how many events
  its table has had since is the distance of its slot behind `loc` in the ring. Every
  event with fewer successors than its table keeps has a place. So the record that an
  insertion overwrites is the one whose event the reference (`Held`) drops, and what an
  item sees of the store is what the history says of the events held (`Located`).
* `MemoInv`. While a request is served, the current record is the last of `order` and an
  item that is set `Fits`: unless its record was moved, it has the value and the records
  that its definition gives it, if the code finishes such items; between requests
  nothing is remembered. It is here that the reset at the end of a
  request is needed: with a memo that outlives its request, the part that speaks of
  the current event fails at the next insertion.
* `GroupInv` and `RuleInv`. No group before the one looked at holds; the rules that have
  fired are those due before the one looked at, and their weights are a partial sum. This is
  said of the formulas that ask for no item, or for one that is sound, and it is said
  with the item's memo (`Told`), since an item that is set stays as it is until the
  request ends.
* `ShapeInv`, the domains of records and functions.

`Keeps` is what the walks need of a filter: it lets a record pass exactly when the
reference keeps its event. For a field that is the definition (`FieldKeeps`); for an item
it holds because the item asked for is the same for every record and is itself exact
(`ItemKeeps`, `GetFits` for the item of the filter first and then for the item around it).
Static items need that the place with n newer ones is unique (`Newer` falls along the
list). Dynamic items compare a walk over records from the newest to the oldest with a
reference over events, `Total`, a sum in the other direction, or a minimum, maximum or
number of elements, of which the minimum needs a value of at most 0 and the maximum one of
at least 0: `SumWalk`, `MinWalk`, `MaxWalk` and `CountWalk` relate the two after
each step, and `StepsReach` (a least step that fails has one before it that does not)
carries that to the last one. That the recursive functions `Aggregates` and `Sums`
satisfy their equations is derived in the same way.

**KrComponentProofs** (`EventAssumption`, `CacheAssumption`, `LoadAssumption`,
`StartAssumption`) proves the six properties of `KrParts` for `PartsSpec`, of which a
behaviour of `components` that runs one of the four components is an instance. `PartsInv`
says that the invariant of the component that runs holds; there are four of them.

* `EventInv`. `Exact` is `InterestExact` as a predicate of the loop's record, so that it can
  be carried through every creation and deletion that a handler makes; the new
  `maxfd` after a deletion is the highest one left because descriptors are bounded.
  `PassInv` is about the middle of a pass over the timers: those the walk has passed lie
  after its beginning, but for the ones it does not serve because they were created
  during it. A pass begins again at the head after each handler, so a handler may
  change the list in any way.
* `CacheInv`. `Chained` (list and hash table hold the same nodes, each key and each node
  once) and `Latest` (the keys of the list are a beginning of the keys by last use) are
  preserved by a hit, which moves a node and its key to the front of both, by a miss
  with eviction, which cuts the end, and by a new size. A node that is reused is in
  neither, so its table is its own. `Computed` is what becomes of the values: an own one
  was computed for the key of its node. It needs `AskInv`, that a worker whose lookup
  went by the field of its item's index holds the key of that field, which is the one
  the value is then computed for, although `pKeyValue` moves in between. `CacheConstants`
  has one worker: with two, a value may be evicted while the other one asks for it.
* `LoadInv`. `Reading` relates a cursor to the rows it reads: unless a call failed, what
  is stored is the beginning of what will be, but for the rules of the group stored
  last, and what is left is the rest. `Loading` has one such loader, or one and that of
  the rules of its last group, above kinds that are complete; `Checking` has the sets
  compiled so far. The section in force is never the one written, and tables carry
  the time of a load before this one, so none passes for compiled from a section that
  is only half there. `LoadConstants` assumes what the SQL schema declares: ids are
  primary keys.
* `StartInv`. At step n of the start what is held is what the steps before it gained
  (`Taken`), what `kr_db_startup` has open at that point, and what the tables and
  indexes built so far own (`Stored`), plus at most the descriptions of indexes of an
  unknown type, which nobody frees (`Stray`).
  `TablesInv` says that the tables are those of the rows read, `SharedInv` that each
  shared index is there once, owned by the first table that has it. A shutdown, or
  a failure, at step n gives back what the steps before n gained, and as no two of
  them gain the same resource, each once. `StartConstants` assumes the unique keys
  of the SQL schema.

The types, `RingFilled`, `MutexHeld`, `TaskInOnePlace` and `IndexExclusive` are proved
and no longer checked by runs: the properties that need them are.

Only model-checked: liveness (`LockGivenBack`, `AnsweredOrClosed`, and `PoolFair`, the
fairness that `KrThreadPool` owes to `KrTaskPool`), because the prover handles neither
fairness nor `ENABLED`; and `LinksExact` and `TraversalExact`, which compare recursive
definitions over the trees of `KrNtree`, where a proof would be an induction over data.

## 7. Not modelled

`PROJECT.json` lists every part with its status. Left out for good: the generated
parsers of krcalc and the dumpers of expressions, kriface and rapodbc as programs
that print C source (the cursors and selects rapodbc generates are modelled), krshell, the
bindings, the browser client and the examples (I/O and formatting without state
that other parts depend on), vendored JSON code, statistics and logging.
Inside modelled parts: `kr_threadpool_destroy` and the shutdown of the server from
its signal handler (they free what running threads use, in every order),
`kr_conhash_adjust_weights` (never called), the levels of the skip list,
`kr_ntree_child_position` (always returns -1), the JSON of replies and descriptions.
