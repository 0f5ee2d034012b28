------------------------------ MODULE KrParts ------------------------------
(***************************************************************************)
(* The event loop (KrEvent), the cache (KrCache), the loaders of           *)
(* definitions (KrLoad) and the start of the engine (KrStartup), none of   *)
(* which interacts with another: a behaviour is that of the one component  *)
(* that PartsInit picks, the others have no state.  What is proved of      *)
(* them, and checked, is stated here.                                      *)
(***************************************************************************)
EXTENDS Integers, FiniteSets, Sequences

CONSTANTS Fd, SEC, Delay, Proc, Api, MaxTimer, MaxTime,     \* KrEvent
          CacheKey, HdiId, IndexId, IndexOf, CurrRec,        \* KrCache
          SizeSet, Asker, MaxNode,
          Database, N_MAX, MaxLoad, MaxLost,                \* KrLoad
          RowId, SubRow,        \* ids of definitions; rules and elements
          Schema                                            \* KrStartup

VARIABLES
  part,                                                             \* which component
  el, api, clock, pc, fired, cursor, maxId, slept, passAt,          \* KrEvent
  list, hash, table, max_size, context, asking, crashed, recent,    \* KrCache
  db, shm, nSecId, loadTime, job, at, frames, dym, sets, handles, lost, inForce, \* KrLoad
  Datasrc, config, upAt, held, twice, tables, dbIndex, skipped            \* KrStartup

E == INSTANCE KrEvent WITH now <- clock
X == INSTANCE KrCache WITH Item <- HdiId
L == INSTANCE KrLoad WITH now <- loadTime
U == INSTANCE KrStartup WITH at <- upAt

-----------------------------------------------------------------------------

\* Descriptors are those of a setsize, and a handler is not NULL; a second
\* has milliseconds, and delays are not negative.
EventConstants ==
  /\ IsFiniteSet(Fd) /\ Fd = 0 .. Cardinality(Fd) - 1
  /\ 0 \notin Proc
  /\ SEC \in Nat \ {0}
  /\ Delay \subseteq Nat

\* The cache is given a size, every node it can hold exists, and one worker
\* uses it, which is how kr_context.h wants it used without a lock.  An item
\* has an index, which has an id; a record has a key for each index its table
\* has.
CacheConstants ==
  /\ MaxNode \in Nat
  /\ SizeSet \subseteq 1 .. MaxNode
  /\ 0 \notin IndexId
  /\ IndexOf \in [HdiId -> IndexId]
  /\ CurrRec \subseteq [IndexId -> CacheKey \cup {0}]
  /\ \E w \in Asker : Asker = {w}

KindSet == {"set", "sdi", "ddi", "hdi", "group"}

Row == [id : RowId, calc : BOOLEAN, func : BOOLEAN, sub : Seq(SubRow)]

\* The database has a table for every kind, in which ids are primary keys, as
\* are the rules of a group (doc/krproject_sqlite3.sql).
LoadConstants ==
  /\ Database \subseteq [KindSet -> Seq(Row)]
  /\ \A d \in Database : \A k \in KindSet : \A i, j \in 1 .. Len(d[k]) : d[k][i].id = d[k][j].id => i = j
  /\ \A d \in Database : \A i \in 1 .. Len(d["group"]) : \A m, n \in 1 .. Len(d["group"][i].sub) :
       d["group"][i].sub[m].id = d["group"][i].sub[n].id => m = n
  /\ N_MAX \in [KindSet \cup {"rule"} -> Nat]

IndexDef == [id : Int, type : STRING]

SchemaRow == [id : Int \ {0}, fields : Nat, index : Seq(IndexDef)]

\* A table has an id of its own, other than 0, and each of its indexes has one
\* (the unique index IDX_DATASRC_INDEX): with the id 0, kr_drop_table, which
\* hands its mutex to a comparison of ids, would unlink that table.
StartConstants ==
  /\ Schema \subseteq Seq(SchemaRow)
  /\ \A d \in Schema : \A q, r \in 1 .. Len(d) : d[q].id = d[r].id => q = r
  /\ \A d \in Schema : \A r \in 1 .. Len(d) : \A i, j \in 1 .. Len(d[r].index) :
       d[r].index[i].id = d[r].index[j].id => i = j

ASSUME EventAssumption == EventConstants
ASSUME CacheAssumption == CacheConstants
ASSUME LoadAssumption == LoadConstants
ASSUME StartAssumption == StartConstants

-----------------------------------------------------------------------------

EventVars == <<el, api, clock, pc, fired, cursor, maxId, slept, passAt>>
CacheVars == <<list, hash, table, max_size, context, asking, crashed, recent>>
LoadVars == <<db, shm, nSecId, loadTime, job, at, frames, dym, sets, handles, lost, inForce>>
StartVars == <<Datasrc, config, upAt, held, twice, tables, dbIndex, skipped>>

NoEvent ==
  /\ el = 0 /\ api = 0 /\ clock = 0 /\ pc = 0 /\ fired = 0 /\ cursor = 0
  /\ maxId = 0 /\ slept = 0 /\ passAt = 0
NoCache ==
  /\ list = 0 /\ hash = 0 /\ table = 0 /\ max_size = 0 /\ context = 0
  /\ asking = 0 /\ crashed = 0 /\ recent = 0
NoLoad ==
  /\ db = 0 /\ shm = 0 /\ nSecId = 0 /\ loadTime = 0 /\ job = 0 /\ at = 0
  /\ frames = 0 /\ dym = 0 /\ sets = 0 /\ handles = 0 /\ lost = 0
  /\ inForce = 0

NoStart ==
  /\ Datasrc = 0 /\ config = 0 /\ upAt = 0 /\ held = 0 /\ twice = 0
  /\ tables = 0 /\ dbIndex = 0 /\ skipped = 0

PartsInit ==
  \/ part = "event" /\ E!EventInit /\ NoCache /\ NoLoad /\ NoStart
  \/ part = "cache" /\ X!CacheInit /\ NoEvent /\ NoLoad /\ NoStart
  \/ part = "load" /\ L!LoadInit /\ NoEvent /\ NoCache /\ NoStart
  \/ part = "startup" /\ U!StartInit /\ NoEvent /\ NoCache /\ NoLoad

PartsNext ==
  \/ part = "event" /\ E!EventNext /\ UNCHANGED <<part, CacheVars, LoadVars, StartVars>>
  \/ part = "cache" /\ X!CacheNext /\ UNCHANGED <<part, EventVars, LoadVars, StartVars>>
  \/ part = "load" /\ L!LoadNext /\ UNCHANGED <<part, EventVars, CacheVars, StartVars>>
  \/ part = "startup" /\ U!StartNext /\ UNCHANGED <<part, EventVars, CacheVars, LoadVars>>

PartsVars == <<part, EventVars, CacheVars, LoadVars, StartVars>>

PartsSpec == PartsInit /\ [][PartsNext]_PartsVars

-----------------------------------------------------------------------------
(* Properties: those of the modules, of the component that runs.           *)

\* The event loop and the layer below it wait for the same (kr_event.c).
InterestExact == part = "event" => E!InterestExact

\* No due timer is passed over, and none is delayed by a second or more
\* because the loop waits (kr_event.c).
TimersServed == part = "event" => E!TimersServed /\ E!SleepsBounded

\* The cache keeps what was used last, and a value that was looked up by the
\* field of its own index was computed for the key it is found under
\* (kr_cache.c, kr_hdi_cache.c, kr_hdi.c).
CacheExact == part = "cache" => X!CacheExact

\* What is in force is what the database held, whole (kr_shm_*.c, kr_dym_*.c).
LoadedWhole == part = "load" => L!LoadedWhole

\* Every cursor that a loader opened is closed (kr_shm_*.c, kr_dym_set.c).
CursorsClosed == part = "load" => L!CursorsClosed

\* The store is built as the database describes it and given back once
\* (kr_db.c, kr_db_kernel.c, kr_engine.c).
StoreLifecycle == part = "startup" => U!StoreWhole /\ U!ReleasedOnce
=============================================================================
