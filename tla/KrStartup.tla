------------------------------ MODULE KrStartup ------------------------------
(***************************************************************************)
(* Start and shutdown of the engine (kr_engine_startup, kr_engine_shutdown *)
(* in krengine/kr_engine.c) with what they call: dbsConnect and            *)
(* dbsDisconnect (dbs/dbs_basopr.c), kr_module_open and kr_module_close    *)
(* (krutils/kr_module.c), kr_context_init and kr_context_fini              *)
(* (krdata/kr_context.c), and the building and dropping of krdb's tables   *)
(* and indexes from the rows of the database (krdb/kr_db.c,                *)
(* krdb/kr_db_kernel.c).                                                   *)
(*                                                                         *)
(* Every step acquires one resource or fails.  A resource is named by what *)
(* it is, the table and the index; the hash table of an index of type 'M'  *)
(* ("DB") belongs to all tables that declare its id.                       *)
(***************************************************************************)
EXTENDS Integers, FiniteSets, Sequences, Functions

CONSTANTS
  Schema       \* what the database may hold: sequences of rows, a row being
               \* [id, fields, index], index a sequence of [id, type]

VARIABLES
  Datasrc,     \* the rows of this database
  config,      \* is there a data module, a cache of historical items, a pool?
  at,          \* the step that is next
  held,        \* the resources that are held
  twice,       \* resources given back that were not held
  tables,      \* pTableList: [id, fields, index]
  dbIndex,     \* pIndexList of the db: [id, table], the table that created it
  skipped      \* failures that the start does not report

startVars == <<Datasrc, config, at, held, twice, tables, dbIndex, skipped>>
store == <<tables, dbIndex, skipped>>

Config == [data : BOOLEAN, cache : BOOLEAN, pool : BOOLEAN]

StartInit ==
    /\ Datasrc \in Schema /\ config \in Config
    /\ at = "engine" /\ held = {} /\ twice = {}
    /\ tables = <<>> /\ dbIndex = <<>> /\ skipped = {}

\* A resource of the engine; those of a table have its id, and an index id.
One(name) == <<name, 0, 0>>
All(names) == {One(n) : n \in names}

-----------------------------------------------------------------------------
(* The steps of kr_engine_startup in their order *)

dbsConnect == {"henv", "hdbc", "conn"}

Order == <<"engine", "env", "krdbModule", "dataModule", "henv", "hdbc", "conn",
           "shm", "krdb", "cache", "functable", "context", "running">>
Following(step) == Order[1 + CHOOSE i \in DOMAIN Order : Order[i] = step]

\* Is the step left out by the configuration?
Omitted(step) == (step = "dataModule" /\ ~config.data) \/ (step = "cache" /\ ~config.cache)

\* What a step acquires; the context has a connection and a dynamic memory
\* of its own, the threads of a pool make theirs later.
Gains(step) ==
    IF step # "context" THEN All({step})
    ELSE IF config.pool THEN All({"pool"}) ELSE All({"context", "own conn", "dym"})

Acquire ==
    /\ at \in Range(Order) \ {"krdb", "running"}
    /\ held' = IF Omitted(at) THEN held ELSE held \cup Gains(at)
    /\ at' = Following(at)
    /\ UNCHANGED <<Datasrc, config, twice, store>>

\* What is left when a step fails: dbsConnect has dbsDisconnect free the
\* handles it has so far, the other steps free nothing.
Undone(step) == IF step \in dbsConnect THEN held \ All(dbsConnect) ELSE held

\* FAILED: kr_engine_shutdown(engine).  Without an engine it returns; with
\* neither a context nor a pool it locks the mutex of a pool that is NULL.
GiveUp(left) ==
    /\ held' = left
    /\ at' = IF One("engine") \in held THEN "trap" ELSE "failed"
    /\ UNCHANGED <<Datasrc, config, twice, store>>

StepFails ==
    /\ at \in Range(Order) \ {"krdb", "running"} /\ ~Omitted(at)
    /\ GiveUp(Undone(at))

-----------------------------------------------------------------------------
(* kr_db_startup *)

\* kr_create_db, and the cursor over the tables is open.
CreateDb ==
    /\ at = "krdb"
    /\ held' = held \cup All({"krdb", "cursor"}) /\ at' = "table"
    /\ UNCHANGED <<Datasrc, config, twice, store>>

Row == Datasrc[Len(tables) + 1]
Current == tables[Len(tables)]

\* The select of the number of fields (dbsDatasrcFieldCntSel) has its handle,
\* which it frees whether it succeeds or not.
OpenSelect ==
    /\ at = "table" /\ Len(tables) < Len(Datasrc)
    /\ held' = held \cup All({"select"}) /\ at' = "select"
    /\ UNCHANGED <<Datasrc, config, twice, store>>

EndSelect ==
    /\ at = "select"
    /\ \/ /\ held' = held \ All({"select"}) /\ at' = "counted"
          /\ UNCHANGED <<Datasrc, config, twice, store>>
       \/ GiveUp(held \ All({"select"}))

\* _kr_db_load_field_def read n fields.  It cannot say that it failed, and
\* leaves the others as calloc made them.
LoadFields(n) ==
    /\ tables' = Append(tables, [id |-> Row.id, fields |-> n, index |-> <<>>])
    /\ skipped' = IF n < Row.fields THEN skipped \cup {<<"fields", Row.id>>} ELSE skipped

\* kr_create_table, and the cursor over its indexes is open.
CreateTable(n) ==
    /\ at = "counted" /\ n <= Row.fields
    /\ LoadFields(n)
    /\ held' = held \cup {<<"table", Row.id, 0>>, One("index cursor")}
    /\ at' = "index"
    /\ UNCHANGED <<Datasrc, config, twice, dbIndex>>

\* The next row of _kr_db_build_index.
IndexRow == Datasrc[Len(tables)].index[Len(Current.index) + 1]

\* kr_get_db_index: the position of the first one with this id, if any.
DbIndexOf(x) == {j \in DOMAIN dbIndex : dbIndex[j].id = x /\ \A k \in 1 .. j - 1 : dbIndex[k].id # x}

\* kr_create_index: the table whose creation of the index made the hash
\* table behind it.
HashOwner(t, ix) ==
    IF ix.type = "DB" /\ DbIndexOf(ix.id) # {}
    THEN dbIndex[CHOOSE j \in DbIndexOf(ix.id) : TRUE].table ELSE t

CreateIndex ==
    LET ix == IndexRow
        t  == Current.id
        made == [id |-> ix.id, type |-> ix.type, hash |-> HashOwner(t, ix)]
    IN  /\ at = "index" /\ Len(Current.index) < Len(Datasrc[Len(tables)].index)
        /\ ix.type \in {"TABLE", "DB"}
        /\ tables' = [tables EXCEPT ![Len(tables)].index = Append(@, made)]
        /\ dbIndex' = IF ix.type = "DB" /\ DbIndexOf(ix.id) = {}
                      THEN Append(dbIndex, [id |-> ix.id, table |-> t]) ELSE dbIndex
        /\ held' = held \cup {<<"index", t, ix.id>>, <<"hash", made.hash, ix.id>>}
        /\ UNCHANGED <<Datasrc, config, at, twice, skipped>>

\* An index of another type ends the loop, and iFlag is still 0.
UnknownIndex ==
    /\ at = "index" /\ Len(Current.index) < Len(Datasrc[Len(tables)].index)
    /\ IndexRow.type \notin {"TABLE", "DB"}
    /\ skipped' = skipped \cup {<<"index", Current.id>>}
    /\ held' = (held \cup {<<"index", Current.id, IndexRow.id>>}) \ All({"index cursor"})
    /\ at' = "table"
    /\ UNCHANGED <<Datasrc, config, twice, tables, dbIndex>>

IndexesDone ==
    /\ at = "index" /\ Len(Current.index) = Len(Datasrc[Len(tables)].index)
    /\ held' = held \ All({"index cursor"}) /\ at' = "table"
    /\ UNCHANGED <<Datasrc, config, twice, store>>

TablesDone ==
    /\ at = "table" /\ Len(tables) = Len(Datasrc)
    /\ held' = held \ All({"cursor"}) /\ at' = Following("krdb")
    /\ UNCHANGED <<Datasrc, config, twice, store>>

\* A cursor, the handle of a select or the lookup of a mapping function
\* fails: NULL is returned, nothing is dropped and the outer cursor stays open.
BuildFails ==
    /\ at \in {"krdb", "table", "counted", "index"}
    /\ GiveUp(IF at = "krdb" THEN held \cup All({"krdb"}) ELSE held \ All({"index cursor"}))

-----------------------------------------------------------------------------
(* kr_engine_shutdown, as the set of what it gives back: pairs of a place    *)
(* (a name, and positions in the lists of krdb) and a resource.  A resource  *)
(* that two places give back is given back twice.                            *)

At(place, resources) == {<<place, x>> : x \in resources}

\* Mutant of TableIndexDrops: the hash table of a shared index is destroyed
\* with each table.
TableIndexDropsShared(t, ix) == {<<"hash", ix.hash, ix.id>>, <<"index", t, ix.id>>}

\* kr_drop_table_index: what it gives back of index ix of table t.
TableIndexDrops(t, ix) ==
    IF ix.type = "TABLE" THEN {<<"hash", ix.hash, ix.id>>, <<"index", t, ix.id>>} ELSE {}

\* kr_drop_table.
TableDrops(r) ==
    At(<<"table", r, 0>>, {<<"table", tables[r].id, 0>>})
      \cup UNION {At(<<"index", r, i>>, TableIndexDrops(tables[r].id, tables[r].index[i]))
                  : i \in DOMAIN tables[r].index}

\* kr_drop_db_index.
DbIndexDrops(i) == {<<"hash", i.table, i.id>>, <<"index", i.table, i.id>>}

\* kr_drop_db: the tables, then the indexes of the db.
TablesDrop == UNION {TableDrops(r) : r \in DOMAIN tables}
DbIndexesDrop == UNION {At(<<"db index", j, 0>>, DbIndexDrops(dbIndex[j])) : j \in DOMAIN dbIndex}
DbDrops == TablesDrop \cup DbIndexesDrop \cup At(One("krdb"), All({"krdb"}))

\* Of a context that is there, else of a pool, and of the environment.
Parts == (IF config.pool THEN {"pool"} ELSE {"dym", "own conn", "context"})
           \cup {"krdbModule", "dataModule", "conn", "hdbc", "henv", "shm", "cache", "functable", "env", "engine"}

PartsDrop == UNION {At(One(p), All({p})) : p \in {q \in Parts : ~Omitted(q)}}

Released == PartsDrop \cup DbDrops

Shutdown ==
    LET freed == {d[2] : d \in Released}
        again == {d \in Released : \E e \in Released : e[1] # d[1] /\ e[2] = d[2]}
    IN  /\ at = "running"
        /\ held' = held \ freed
        /\ twice' = (freed \ held) \cup {d[2] : d \in again}
        /\ tables' = <<>> /\ dbIndex' = <<>> /\ at' = "stopped"
        /\ UNCHANGED <<Datasrc, config, skipped>>

StartNext ==
    \/ Acquire \/ StepFails
    \/ CreateDb \/ OpenSelect \/ EndSelect \/ CreateIndex \/ UnknownIndex \/ IndexesDone \/ TablesDone \/ BuildFails
    \/ \E r \in DOMAIN Datasrc : \E n \in 0 .. Datasrc[r].fields : r = Len(tables) + 1 /\ CreateTable(n)
    \/ Shutdown

StartSpec == StartInit /\ [][StartNext]_startVars

-----------------------------------------------------------------------------
(* Properties *)

\* The declared index x of row r, and the row that declares a shared one
\* first.
Declared(r, x) == \E i \in DOMAIN Datasrc[r].index : Datasrc[r].index[i] = x
FirstDeclaring(x) == CHOOSE r \in DOMAIN Datasrc : Declared(r, x) /\ \A q \in 1 .. r - 1 : ~Declared(q, x)

\* An engine that runs has the tables and indexes of the database, each
\* table in its order, a shared index with ONE hash table for all that
\* declare it and any other with its own, unless one of the two failures was
\* skipped that the start does not report (kr_db_startup, kr_create_index).
StoreWhole ==
    (at = "running" /\ skipped = {}) =>
      /\ Len(tables) = Len(Datasrc)
      /\ \A r \in DOMAIN tables :
           /\ tables[r].id = Datasrc[r].id /\ tables[r].fields = Datasrc[r].fields
           /\ Len(tables[r].index) = Len(Datasrc[r].index)
           /\ \A i \in DOMAIN tables[r].index :
                LET x == Datasrc[r].index[i]
                IN  tables[r].index[i] =
                      [id |-> x.id, type |-> x.type,
                       hash |-> Datasrc[IF x.type = "DB" THEN FirstDeclaring(x) ELSE r].id]

\* What a shutdown leaves behind: the descriptions of an index that other
\* tables than its creator made of it, and those of an unknown type.
Leaked ==
    UNION {{<<"index", Datasrc[r].id, x.id>> :
              x \in {y \in Range(Datasrc[r].index) : y.type # "TABLE" /\ (y.type = "DB" => FirstDeclaring(y) # r)}}
           : r \in DOMAIN Datasrc}

\* Nothing is given back twice, neither the shared hash tables that several
\* tables point to nor a handle, and after a shutdown no connection, module,
\* table or hash table is left (kr_drop_table_index, kr_drop_db_index,
\* kr_engine_shutdown, dbsDisconnect).
ReleasedOnce ==
    /\ twice = {}
    /\ at = "stopped" => held \subseteq Leaked
=============================================================================
