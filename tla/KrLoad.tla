------------------------------- MODULE KrLoad -------------------------------
(***************************************************************************)
(* How definitions get from the SQL database into the engine: the loaders  *)
(* of krparam/kr_shm_*.c read every kind of definition through a cursor    *)
(* into the standby section (kr_shm.c), and the constructors of            *)
(* krparam/kr_dym_*.c compile a thread's tables from the active section.   *)
(* Groups read their rules through a cursor inside the loop of their own,  *)
(* sets read their elements when they are compiled.  The cursors are the   *)
(* code that dbs/rapodbc.c generates: each one is a statement handle.      *)
(*                                                                         *)
(* KrParam has the threads and the clock of a reload; here one thread does *)
(* everything, one call to the database at a time, and every call may      *)
(* fail.  A definition is [id, calc, func, sub]: whether its formula can   *)
(* be parsed, whether its function (of a set: its element type) is known,  *)
(* and its rules or elements.                                              *)
(***************************************************************************)
EXTENDS Integers, Sequences, Functions

CONSTANTS Database,  \* the contents the database may have: kind -> sequence
          N_MAX,     \* N_MAX_..._NUM: kind -> how many a section holds
          MaxLoad,   \* bound: loads that are begun
          MaxLost    \* bound: cursors whose opening fails half way

VARIABLES db,        \* the database
          shm,       \* section -> kind -> [rows, time]
          nSecId,    \* the active section
          now,       \* loads begun; a load takes place at this time
          job,       \* "idle", "load", "check"
          at,        \* the kind the job is at
          frames,    \* the loaders that are running, the innermost last
          dym,       \* kind -> the table of the thread, <<>> if there is none
          sets,      \* the sets compiled so far for a table of sets
          handles,   \* statement handles that are allocated
          lost,      \* history: handles of cursors whose opening failed
          inForce    \* history: what the database held at the last good load

loadVars == <<db, shm, nSecId, now, job, at, frames, dym, sets, handles, lost, inForce>>

\* The order of kr_shm_load, kr_dym_construct and kr_dym_check.
Kinds == <<"set", "sdi", "ddi", "hdi", "group">>

Kind == Kinds[at]

Back == (nSecId + 1) % 2

Blank == [rows |-> <<>>, time |-> 0]

Idle == job' = "idle" /\ at' = 1 /\ frames' = <<>> /\ sets' = <<>>

---------------------------------------------------------------------------
(* Cursors: KR_DBCUROPEN, KR_DBCURFETCH, KR_DBCURCLOSE *)

\* A frame: what is left to fetch, what was stored, whether the loop goes
\* on, whether the definition stored last waits for its rules.
Frame(cur, result) == [cur |-> cur, left |-> result, rows |-> <<>>, ret |-> 0,
                       loop |-> TRUE, due |-> FALSE]

Running == frames # <<>>

Top == frames[Len(frames)]

SetTop(f) == frames' = [frames EXCEPT ![Len(frames)] = f]

Opened(cur, result) ==
    /\ frames' = Append(frames, Frame(cur, result))
    /\ handles' = handles + 1
    /\ UNCHANGED lost

\* Allocating the handle fails, or one of the calls after it, which leave
\* it allocated: the loader returns and never closes.
OpenFails ==
    \/ UNCHANGED <<handles, lost>>
    \/ lost < MaxLost /\ handles' = handles + 1 /\ lost' = lost + 1

\* The row a loader stores: the rules of a group come later, the elements
\* of a set are not part of its definition.
Stored(cur, row) == IF cur \in {"group", "set"} THEN [row EXCEPT !.sub = <<>>] ELSE row

---------------------------------------------------------------------------
(* kr_shm_load *)

LoadInit ==
    /\ db \in Database
    /\ shm = [s \in {0, 1} |-> [k \in Range(Kinds) |-> Blank]]
    /\ nSecId = 0 /\ now = 0 /\ job = "idle" /\ at = 1 /\ frames = <<>>
    /\ dym = [k \in Range(Kinds) |-> <<>>]
    /\ sets = <<>> /\ handles = 0 /\ lost = 0
    /\ inForce = <<>>

\* Someone else writes to the database between two jobs.
Edit ==
    /\ job = "idle"
    /\ db' \in Database \ {db}
    /\ UNCHANGED <<shm, nSecId, now, job, at, frames, dym, sets, handles, lost, inForce>>

\* kr_shm_create, kr_engine_reload_param
StartLoad ==
    /\ job = "idle" /\ now < MaxLoad
    /\ job' = "load" /\ now' = now + 1
    /\ UNCHANGED <<db, shm, nSecId, at, frames, dym, sets, handles, lost, inForce>>

\* The memset of the kind in kr_shm_load, and the opening of its cursor.
OpenDefs(kind) ==
    /\ job = "load" /\ ~Running /\ Kind = kind
    /\ shm' = [shm EXCEPT ![Back][Kind] = Blank]
    /\ \/ Opened(Kind, db[Kind]) /\ UNCHANGED <<job, at, sets>>
       \/ OpenFails /\ Idle
    /\ UNCHANGED <<db, nSecId, now, dym, inForce>>

\* kr_shm_rule_load for the group fetched last: only rules of that group.
OpenRules ==
    /\ Running /\ Top.due
    /\ LET g == Top.rows[Len(Top.rows)]
           src == CHOOSE row \in Range(db["group"]) : row.id = g.id
       IN  \/ Opened("rule", src.sub)
           \/ OpenFails /\ SetTop([Top EXCEPT !.rows = SubSeq(@, 1, Len(@) - 1), !.due = FALSE,
                                              !.loop = FALSE, !.ret = -1])
    /\ UNCHANGED <<db, shm, nSecId, now, job, at, dym, sets, inForce>>

Fetching == Running /\ Top.loop /\ ~Top.due

InLoop == UNCHANGED <<db, shm, nSecId, now, job, at, dym, sets, handles, lost, inForce>>

\* The section is an array.
Room == Len(Top.rows) < N_MAX[Top.cur]

\* A row, and room for it.
FetchRow ==
    /\ Fetching /\ Top.left # <<>>
    /\ Room
    /\ SetTop([Top EXCEPT !.left = Tail(@), !.due = (Top.cur = "group"),
                          !.rows = Append(@, Stored(Top.cur, Head(Top.left)))])
    /\ InLoop

\* An element goes to a hash set, which has no limit; a set whose element
\* type is not known refuses the first.
AddElement ==
    /\ Fetching /\ Top.left # <<>>
    /\ IF Head(Top.left).func
       THEN SetTop([Top EXCEPT !.left = Tail(@), !.rows = Append(@, Head(Top.left))])
       ELSE SetTop([Top EXCEPT !.loop = FALSE, !.ret = -1])
    /\ InLoop

\* A row, and no room for it.
TooMany ==
    /\ Fetching /\ Top.left # <<>>
    /\ ~Room
    /\ SetTop([Top EXCEPT !.loop = FALSE, !.ret = -1])
    /\ InLoop

\* KR_DBNOTFOUND
FetchEnd ==
    /\ Fetching /\ Top.left = <<>>
    /\ SetTop([Top EXCEPT !.loop = FALSE])
    /\ InLoop

\* Mutant of FetchFails: the error ends the loop like the last row does.
FetchFailsUnnoticed ==
    /\ Fetching
    /\ SetTop([Top EXCEPT !.loop = FALSE])
    /\ InLoop

FetchFails ==
    /\ Fetching
    /\ SetTop([Top EXCEPT !.loop = FALSE, !.ret = -1])
    /\ InLoop

---------------------------------------------------------------------------
(* The end of a loader *)

\* A loader of definitions returns to kr_shm_load, which goes on with the
\* next kind, switches the sections after the last, or gives up.
DefsDone(ret) ==
    /\ shm' = [shm EXCEPT ![Back][Kind] = [rows |-> Top.rows, time |-> now]]
    /\ frames' = <<>>
    /\ \/ /\ ret = 0 /\ at < Len(Kinds)
          /\ at' = at + 1
          /\ UNCHANGED <<nSecId, job, sets, inForce>>
       \/ /\ ret = 0 /\ at = Len(Kinds)
          /\ nSecId' = Back /\ inForce' = <<db>>
          /\ job' = "idle" /\ at' = 1 /\ UNCHANGED sets
       \/ /\ ret # 0
          /\ job' = "idle" /\ at' = 1 /\ UNCHANGED <<nSecId, sets, inForce>>
    /\ UNCHANGED dym

\* The rules of a group: it counts from now on, or its loader fails too.
RulesDone(ret) ==
    LET below == frames[Len(frames) - 1]
        n == Len(below.rows)
        next == IF ret = 0
                THEN [below EXCEPT !.due = FALSE, !.rows[n].sub = Top.rows]
                ELSE [below EXCEPT !.due = FALSE, !.rows = SubSeq(@, 1, Len(@) - 1), !.loop = FALSE, !.ret = -1]
    IN  /\ frames' = Append(SubSeq(frames, 1, Len(frames) - 2), next)
        /\ UNCHANGED <<shm, nSecId, job, at, dym, sets, inForce>>

\* Tables of a thread that a failed check leaves: kr_dym_construct leaves
\* none, kr_dym_check those that were there and those already replaced.
AfterFailure == IF \E k \in Range(Kinds) : dym[k] = <<>> THEN [k \in Range(Kinds) |-> <<>>] ELSE dym

\* The elements of a set (kr_set_load): the set joins the table, or the
\* whole table is given up.
ElementsDone(ret) ==
    LET row == shm[nSecId]["set"].rows[Len(sets) + 1]
    IN  /\ IF ret = 0
           THEN /\ sets' = Append(sets, [id |-> row.id, calc |-> TRUE, sub |-> Top.rows])
                /\ frames' = <<>> /\ UNCHANGED <<job, at, dym>>
           ELSE Idle /\ dym' = AfterFailure
        /\ UNCHANGED <<shm, nSecId, inForce>>

Done(ret) == CASE Top.cur = "rule"    -> RulesDone(ret)
               [] Top.cur = "element" -> ElementsDone(ret)
               [] OTHER               -> DefsDone(ret)

\* Mutant of Close: no call to free the handle when the loader failed.
CloseLeaks ==
    /\ Running /\ ~Top.loop
    /\ handles' = IF Top.ret = 0 THEN handles - 1 ELSE handles
    /\ \E ret \in {Top.ret, -1} : Done(ret)
    /\ UNCHANGED <<db, now, lost>>

\* After the loop, however it ended: the handle is freed; when freeing it
\* is reported to have failed the loader fails.
Close ==
    /\ Running /\ ~Top.loop
    /\ handles' = handles - 1
    /\ \E ret \in {Top.ret, -1} : Done(ret)
    /\ UNCHANGED <<db, now, lost>>

---------------------------------------------------------------------------
(* kr_dym_construct, kr_dym_check, kr_dym_destruct *)

\* kr_rule_construct: a formula that cannot be parsed is not noticed.
RuleItem(row) == [id |-> row.id, calc |-> row.calc, sub |-> <<>>]

\* kr_sdi_construct and kr_ddi_construct: NULL without the function; the
\* formula is not looked at either.
SdiItem(row) == IF row.func THEN <<RuleItem(row)>> ELSE <<>>
DdiItem(row) == SdiItem(row)

\* kr_hdi_construct; it has no formula.
HdiItem(row) == IF row.func THEN <<[id |-> row.id, calc |-> TRUE, sub |-> <<>>]>> ELSE <<>>

\* kr_rule_list_construct: NULL for a list without rules.
RuleList(row) == [i \in DOMAIN row.sub |-> RuleItem(row.sub[i])]

\* kr_group_construct.
GroupItem(row) == IF row.calc /\ row.sub # <<>>
                  THEN <<[id |-> row.id, calc |-> TRUE, sub |-> RuleList(row)]>> ELSE <<>>

\* NULL, or the item.
ItemOf(kind, row) ==
    CASE kind = "sdi"   -> SdiItem(row)
      [] kind = "ddi"   -> DdiItem(row)
      [] kind = "hdi"   -> HdiItem(row)
      [] kind = "group" -> GroupItem(row)

\* One item that cannot be made, and there is no table.
TableOf(kind, src) ==
    IF \E i \in DOMAIN src.rows : ItemOf(kind, src.rows[i]) = <<>>
    THEN <<>>
    ELSE <<[items |-> [i \in DOMAIN src.rows |-> ItemOf(kind, src.rows[i])[1]], time |-> src.time]>>

kr_sdi_table_construct(src) == TableOf("sdi", src)
kr_ddi_table_construct(src) == TableOf("ddi", src)
kr_hdi_table_construct(src) == TableOf("hdi", src)

\* NULL for a list without groups.
kr_group_list_construct(src) == IF src.rows = <<>> THEN <<>> ELSE TableOf("group", src)

\* The table for definitions other than sets, which need no database.
NewTable(kind, src) ==
    CASE kind = "sdi"   -> kr_sdi_table_construct(src)
      [] kind = "ddi"   -> kr_ddi_table_construct(src)
      [] kind = "hdi"   -> kr_hdi_table_construct(src)
      [] kind = "group" -> kr_group_list_construct(src)

\* kr_set_lookup, kr_sdi_lookup, kr_ddi_lookup, kr_hdi_lookup and the walks
\* of kr_group_lookup and kr_rule_lookup: where they find an id.
LookupItem(items, id) == {p \in DOMAIN items : items[p].id = id}

Source == shm[nSecId][Kind]

Outdated == IF dym[Kind] = <<>> THEN TRUE ELSE dym[Kind][1].time # Source.time

\* A thread starts (kr_context_init), or a request does (kr_context_set).
StartCheck ==
    /\ job = "idle" /\ inForce # <<>>
    /\ job' = "check" /\ sets' = <<>>
    /\ UNCHANGED <<db, shm, nSecId, now, at, frames, dym, handles, lost, inForce>>

NextKind == IF at < Len(Kinds) THEN at' = at + 1 /\ UNCHANGED job ELSE at' = 1 /\ job' = "idle"

KeepTable ==
    /\ job = "check" /\ ~Outdated
    /\ NextKind
    /\ UNCHANGED <<db, shm, nSecId, now, frames, dym, sets, handles, lost, inForce>>

BuildTable ==
    /\ job = "check" /\ Outdated /\ Kind # "set"
    /\ LET new == NewTable(Kind, Source)
       IN  IF new = <<>> THEN Idle /\ dym' = AfterFailure
           ELSE dym' = [dym EXCEPT ![Kind] = new] /\ NextKind /\ UNCHANGED <<frames, sets>>
    /\ UNCHANGED <<db, shm, nSecId, now, handles, lost, inForce>>

SetsLeft == job = "check" /\ Outdated /\ Kind = "set" /\ ~Running

\* kr_set_construct for the next set.  Its elements are those the database
\* holds now, none if the set is no longer there.
OpenElements ==
    /\ SetsLeft /\ Len(sets) < Len(Source.rows)
    /\ LET row == Source.rows[Len(sets) + 1]
           src == LookupItem(db["set"], row.id)
           elements == IF src = {} THEN <<>> ELSE db["set"][CHOOSE p \in src : TRUE].sub
       IN  \/ /\ Opened("element", [i \in DOMAIN elements |-> [id |-> elements[i], func |-> row.func]])
              /\ UNCHANGED <<job, at, sets, dym>>
           \/ OpenFails /\ Idle /\ dym' = AfterFailure
    /\ UNCHANGED <<db, shm, nSecId, now, inForce>>

SetsBuilt ==
    /\ SetsLeft /\ Len(sets) = Len(Source.rows)
    /\ dym' = [dym EXCEPT !["set"] = <<[items |-> sets, time |-> Source.time]>>]
    /\ at' = at + 1
    /\ UNCHANGED <<db, shm, nSecId, now, job, frames, sets, handles, lost, inForce>>

\* The thread ends.
Destruct ==
    /\ job = "idle" /\ \A k \in Range(Kinds) : dym[k] # <<>>
    /\ dym' = [k \in Range(Kinds) |-> <<>>]
    /\ UNCHANGED <<db, shm, nSecId, now, job, at, frames, sets, handles, lost, inForce>>

---------------------------------------------------------------------------
(* The loaders: a step of each is a call to its cursor *)

\* Fetch and close of cursor cur.
CursorLoop(cur) ==
    /\ Running /\ Top.cur = cur
    /\ FetchRow \/ TooMany \/ FetchEnd \/ FetchFails \/ Close

kr_shm_set_load == OpenDefs("set") \/ CursorLoop("set")
kr_shm_sdi_load == OpenDefs("sdi") \/ CursorLoop("sdi")
kr_shm_ddi_load == OpenDefs("ddi") \/ CursorLoop("ddi")
kr_shm_hdi_load == OpenDefs("hdi") \/ CursorLoop("hdi")
kr_shm_group_load == OpenDefs("group") \/ CursorLoop("group")
kr_shm_rule_load == OpenRules \/ CursorLoop("rule")

kr_set_load ==
    \/ OpenElements
    \/ Running /\ Top.cur = "element" /\ (AddElement \/ FetchEnd \/ FetchFails \/ Close)

LoadNext ==
    \/ Edit \/ StartLoad \/ StartCheck \/ KeepTable \/ BuildTable \/ SetsBuilt \/ Destruct
    \/ kr_shm_set_load \/ kr_shm_sdi_load \/ kr_shm_ddi_load \/ kr_shm_hdi_load
    \/ kr_shm_group_load \/ kr_shm_rule_load \/ kr_set_load

LoadSpec == LoadInit /\ [][LoadNext]_loadVars

---------------------------------------------------------------------------
(* Properties *)

\* The row as a loader would have stored it, rules included.
Whole(k, row) == IF k = "set" THEN [row EXCEPT !.sub = <<>>] ELSE row

\* The active section holds exactly what the database held when the last
\* load that reported success took place, every kind, every row, every rule
\* of every group; and the tables compiled from it have an item for each
\* definition, found under its id.  A load or a construction in which any
\* call failed, at whatever nesting, changes nothing of this.
LoadedWhole ==
    /\ inForce # <<>> => \A k \in Range(Kinds) :
         /\ Len(shm[nSecId][k].rows) <= N_MAX[k]
         /\ shm[nSecId][k].rows = [i \in DOMAIN inForce[1][k] |-> Whole(k, inForce[1][k][i])]
    /\ \A k \in Range(Kinds) : (dym[k] # <<>> /\ dym[k][1].time = shm[nSecId][k].time) =>
         LET rows == shm[nSecId][k].rows
             items == dym[k][1].items
         IN  /\ Len(items) = Len(rows)
             /\ \A i \in DOMAIN rows : \E p \in DOMAIN items :
                  /\ LookupItem(items, rows[i].id) = {p}
                  /\ k = "group" => \A j \in DOMAIN rows[i].sub : \E q \in DOMAIN items[p].sub :
                       LookupItem(items[p].sub, rows[i].sub[j].id) = {q}

\* Every statement handle that was opened is freed on every way out of the
\* loaders, nested ones included; the handles that stay allocated are those
\* of cursors whose opening failed half way.
CursorsClosed == handles = Len(frames) + lost
=============================================================================
