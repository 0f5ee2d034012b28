------------------------------ MODULE KrEngine ------------------------------
(***************************************************************************)
(* The engine's side of a request (krengine/kr_engine.c,                   *)
(* kr_engine_handle.c, kr_engine_detect.c), the context that it works in   *)
(* (krdata/kr_context.c) and the data items that formulas ask for          *)
(* (krdata/kr_sdi*.c, kr_ddi*.c, kr_hdi*.c).                               *)
(*                                                                         *)
(* One context serves one request after the other, as the engine does      *)
(* without a thread pool and as each worker does with one.  An event is    *)
(* put into its table and then run through the groups: the first group     *)
(* whose formula holds is taken, and its rules are evaluated.  A formula   *)
(* compares one operand with a number; an operand may be a data item,      *)
(* computed from the stored records with the key of the current one and    *)
(* remembered under the ADDRESS of that record, which the ring of the      *)
(* table uses again.  The filter of an item is a formula too, evaluated    *)
(* for one record after the other; the item that it asks for, if any, is   *)
(* computed within the walk and moves the record looked at (ptRecord) away *)
(* from under it.  One step is one evaluation of a group or a rule, with   *)
(* all the items that it computes.                                         *)
(***************************************************************************)
EXTENDS Integers, FiniteSets, FiniteSetsExt, SequencesExt

CONSTANTS
  Table,       \* the tables (datasrc)
  Keep,        \* lSizeKeepValue of each table
  HasIndex,    \* the tables with the index that the data items name
  Event,       \* the events that arrive: [tbl, key, val, time]
  Item,        \* the data items
  Def,         \* the definition of each item (T_KRShmSDIDef, ...)
  Flag,        \* the flag the database holds for each item and key
  Group,       \* the groups in order: [calc, rules]
  SetId,       \* the sets of the parameters
  Ask,         \* requests other than events: [method, datasrc, arg]
  Readable,    \* the directories that the log can be put into
  MaxEvent     \* bound on the events

NULL == <<0, 0>>            \* no record
Addr == UNION {{t} \X (1 .. Keep[t]) : t \in Table}

VARIABLES
  buff,        \* the record in each slot
  order,       \* the addresses of the stored records, oldest first
  loc,         \* uiRecordLoc of each table
  memo,        \* T_KRSDI, T_KRDDI, T_KRHDI of the context
  ctx,         \* ptCurrRec, ptGroup, and how far the request is
  result,      \* the value that each rule's formula holds
  reply,       \* msgtype and whether there is a msgbuf
  log,         \* path, name and level of the log
  history      \* all the events, for the properties

engineVars == <<buff, order, loc, memo, ctx, result, reply, log, history>>
store == <<buff, order, loc, history>>

\* moved is no part of the code, for the properties: the value was read from
\* another record than the walk stood at.
NewItem == [curr |-> NULL, set |-> FALSE, value |-> 0, related |-> {}, moved |-> FALSE]

\* Mutant of Forget: the value stays.
ForgetNot(m) == [m EXCEPT !.related = {}]

\* kr_sdi_init, kr_ddi_init, kr_hdi_init: everything but ptCurrRec.
Forget(m) == [NewItem EXCEPT !.curr = m.curr]

\* What the constants must be: tables that keep a record at least, events for
\* them, and definitions as the parameters have them.  A filter compares a
\* field of the record looked at (F_), a field of the current record (C_) or
\* an item, whose own filter compares a field.
IsSeq(s) == s \in Seq({s[j] : j \in DOMAIN s})
IsFormula(f) == f.kind = "CID" \/ (f.kind \in {"SID", "DID", "HID"} /\ f.id \in Item)
OfField(f) == f.kind \in {"FID", "CID"}
Flat(i) == Def[i].kind = "HID" \/ OfField(Def[i].filter)
IsFilter(f) == OfField(f) \/ (IsFormula(f) /\ Flat(f.id))
IsDef(d) ==
    \/ d.kind = "SID" /\ d.location \in {"ABSOLUTE", "RELATIVE"} /\ IsFilter(d.filter)
    \/ d.kind = "DID" /\ IsFilter(d.filter)
    \/ d.kind = "HID" /\ d.stat \in {"DAY", "MONTH", "FLAG"}
IsRule(r) == r.weight \in Int /\ IsFormula(r.calc)
EngineConstants ==
    /\ Keep \in [Table -> Nat \ {0}]
    /\ \A e \in Event : e.tbl \in Table /\ e.val \in Int
    /\ \A i \in Item : IsDef(Def[i])
    /\ IsSeq(Group)
    /\ \A g \in DOMAIN Group :
         /\ IsFormula(Group[g].calc) /\ IsSeq(Group[g].rules)
         /\ \A r \in DOMAIN Group[g].rules : IsRule(Group[g].rules[r])

ASSUME EngineAssumption == EngineConstants

NoRequest == [at |-> "idle", curr |-> NULL, group |-> 0, rule |-> 0, fired |-> {}, weights |-> 0]
NoReply == [type |-> "SUCCESS", body |-> FALSE]

Rules(g) == DOMAIN Group[g].rules

EngineInit ==
    /\ buff = [a \in Addr |-> <<>>] /\ order = <<>> /\ loc = [t \in Table |-> 1]
    /\ memo = [i \in Item |-> NewItem]
    /\ ctx = NoRequest
    /\ result = [g \in DOMAIN Group |-> [r \in Rules(g) |-> FALSE]]
    /\ reply = NoReply
    /\ log = [path |-> CHOOSE p \in Readable : TRUE, name |-> 1, level |-> 1]
    /\ history = <<>>

-----------------------------------------------------------------------------
(* Data items *)

Rec(a) == buff[a][1]

\* kr_get_record_list: the records with the key of a, as positions in the
\* order of age.  The index spans the tables that have it.
RecList(a) == {p \in DOMAIN order : order[p][1] \in HasIndex /\ Rec(order[p]).key = Rec(a).key}

\* What the evaluation of a filter has found for the item it asks for: has
\* it a value, which one, and the record that its walk has left in ptRecord
\* (NULL: the item was remembered or walks no list).
NoSub == [set |-> TRUE, value |-> 0, at |-> NULL]

\* The filter of an item, for the record at a.
Passes(f, a, curr, sub) ==
    f.least <= CASE f.kind = "FID" -> Rec(a).val
                 [] f.kind = "CID" -> Rec(curr).val
                 [] OTHER          -> sub.value

\* How many of the records a walk from the newest one meets before p.
Newer(list, p) == Cardinality({q \in list : q > p})

\* The records that the walks of kr_sdi_aggr_func and kr_ddi_aggr_func
\* evaluate the filter for.
SdiTried(d, curr) ==
    {p \in RecList(curr) :
       /\ d.location = "ABSOLUTE" => Newer(RecList(curr), p) = d.place
       /\ order[p][1] = d.datasrc}
DdiTried(d, curr) ==
    {p \in RecList(curr) :
       /\ ~(d.current = "EXCLUDE" /\ order[p] = curr)
       /\ order[p][1] = d.datasrc
       /\ Rec(curr).time - Rec(order[p]).time <= d.window}

\* The record that ptRecord points at when the value is read, for each
\* position in used: the item of the filter is computed for the first record
\* tried, and its walk uses ptRecord too.
Seen(tried, used, sub) ==
    [p \in used |-> IF sub.at # NULL /\ p = Max(tried) THEN sub.at ELSE order[p]]

ReadFrom(m, seen, value) ==
    [curr |-> m.curr, set |-> TRUE, value |-> value,
     related |-> {seen[p] : p \in DOMAIN seen},
     moved |-> \E p \in DOMAIN seen : seen[p] # order[p]]

\* kr_sdi_aggr_func: the record at the wanted place, counted over all records
\* or over those that pass.  A filter without a value ends the walk.
SdiAggr(d, m, curr, sub) ==
    LET tried == SdiTried(d, curr)
        good  == {p \in tried : Passes(d.filter, order[p], curr, sub)}
        hit   == {p \in good : d.location = "RELATIVE" => Newer(good, p) = d.place}
        seen  == Seen(tried, hit, sub)
    IN  IF ~sub.set \/ hit = {} THEN m ELSE ReadFrom(m, seen, Rec(seen[Max(hit)]).val)

Aggregate(method, v, x) ==
    CASE method = "SUM"   -> v + x
      [] method = "MIN"   -> IF x < v THEN x ELSE v
      [] method = "MAX"   -> IF x > v THEN x ELSE v
      [] method = "COUNT" -> v + 1
      [] OTHER -> v                       \* CON_INC, CON_DEC, CNT_DIS: TODO

\* The walk of kr_ddi_aggr_func: from 0, the value after the k newest records.
Aggregates(method, seen) ==
    LET value[k \in 0 .. Len(order)] ==
          IF k = 0 THEN 0
          ELSE LET p == Len(order) + 1 - k
               IN  IF p \in DOMAIN seen THEN Aggregate(method, value[k - 1], Rec(seen[p]).val)
                   ELSE value[k - 1]
    IN  value

\* kr_ddi_aggr_func: over all records of the time window.
DdiAggr(d, m, curr, sub) ==
    LET tried == DdiTried(d, curr)
        seen  == Seen(tried, {p \in tried : Passes(d.filter, order[p], curr, sub)}, sub)
    IN  IF ~sub.set THEN m ELSE ReadFrom(m, seen, Aggregates(d.method, seen)[Len(order)])

\* kr_hdi_aggr_day: a select whose sum is not used (TODO in the code); ok:
\* does it succeed?
HdiAggrDay(m, ok) == IF ok THEN [m EXCEPT !.set = TRUE, !.value = 0] ELSE m

\* kr_hdi_aggr_mon: another select, the rest is the same.
HdiAggrMon(m, ok) == HdiAggrDay(m, ok)

\* kr_hdi_aggr_flag.
HdiAggrFlag(i, m, ok) ==
    IF ok THEN [m EXCEPT !.set = TRUE, !.value = Flag[i][Rec(ctx.curr).key]] ELSE m

\* kr_hdi_aggr_func: a failed select leaves the value unset and is reported
\* as success.
HdiAggr(i, m, ok) ==
    CASE Def[i].stat = "DAY"   -> HdiAggrDay(m, ok)
      [] Def[i].stat = "MONTH" -> HdiAggrMon(m, ok)
      [] Def[i].stat = "FLAG"  -> HdiAggrFlag(i, m, ok)

\* kr_sdi_compute, kr_ddi_compute, kr_hdi_compute: a table without the
\* item's index leaves the item reset.
Indexed == ctx.curr[1] \in HasIndex
SdiCompute(i, sub) == LET m == Forget(memo[i]) IN IF Indexed THEN SdiAggr(Def[i], m, ctx.curr, sub) ELSE m
DdiCompute(i, sub) == LET m == Forget(memo[i]) IN IF Indexed THEN DdiAggr(Def[i], m, ctx.curr, sub) ELSE m
HdiCompute(i, ok) == LET m == Forget(memo[i]) IN IF Indexed THEN HdiAggr(i, m, ok) ELSE m

Compute(i, sub, ok) ==
    CASE Def[i].kind = "SID" -> SdiCompute(i, sub)
      [] Def[i].kind = "DID" -> DdiCompute(i, sub)
      [] Def[i].kind = "HID" -> HdiCompute(i, ok)

\* Is the value of item i taken from what is remembered?
Remembered(i) == memo[i].curr = ctx.curr

\* A historical item notes the record even if it has no value for it.
Noted(i, m) == IF m.set \/ Def[i].kind = "HID" THEN [m EXCEPT !.curr = ctx.curr] ELSE m

\* kr_sdi_get_value, kr_ddi_get_value, kr_hdi_get_value: the item after the
\* call; the value is NULL unless it is set.
Get(i, sub, ok) == IF Remembered(i) THEN memo[i] ELSE Noted(i, Compute(i, sub, ok))

\* Does the computation of item i evaluate a filter that asks for an item?
Tried(i) == IF Def[i].kind = "SID" THEN SdiTried(Def[i], ctx.curr) ELSE DdiTried(Def[i], ctx.curr)
Nests(i) == ~Remembered(i) /\ Indexed /\ ~Flat(i) /\ Tried(i) # {}

\* kr_data_get_value for item j of a filter, m being j after it: the walk of a
\* static item stops at the record found, that of a dynamic one at the oldest.
Sub(j, m) ==
    [set |-> m.set, value |-> m.value,
     at |-> CASE ~m.set \/ Remembered(j) \/ Def[j].kind = "HID" -> NULL
              [] Def[j].kind = "SID" -> CHOOSE a \in m.related : TRUE
              [] OTHER -> order[Min(RecList(ctx.curr))]]

\* What remains of the items after the value of i was asked for: once the
\* first record has given the item of the filter its value, that one is
\* remembered for the others.
GetValue(i, ok) ==
    IF Nests(i)
    THEN LET j == Def[i].filter.id
             m == Get(j, NoSub, ok)
         IN  [memo EXCEPT ![j] = m, ![i] = Get(i, Sub(j, m), ok)]
    ELSE [memo EXCEPT ![i] = Get(i, NoSub, ok)]

-----------------------------------------------------------------------------
(* Formulas *)

Truth(f, v) == IF v >= f.least THEN 1 ELSE 0

\* The items are m after the item of f was asked for.
Asked(f, m) == [ret |-> IF m[f.id].set THEN Truth(f, m[f.id].value) ELSE -1, memo |-> m]

\* kr_calc_eval of "operand >= least" through kr_data_get_value: +1 TRUE, 0
\* FALSE, -1 failed for want of a value, and what it changes.  ok: does the
\* select of a historical item succeed?
EvalCalc(f, ok) ==
    CASE f.kind = "CID" -> [ret |-> Truth(f, Rec(ctx.curr).val), memo |-> memo]
      [] f.kind \in {"SID", "DID", "HID"} -> Asked(f, GetValue(f.id, ok))

-----------------------------------------------------------------------------
(* Requests *)

\* kr_context_clean.
Clean == memo' = [i \in Item |-> Forget(memo[i])] /\ ctx' = NoRequest

Answer(type, body) == reply' = [type |-> type, body |-> body]

\* kr_db_insert of event e, at the address it gets.
At(e) == <<e.tbl, loc[e.tbl]>>
Insert(e) ==
    /\ Len(history) < MaxEvent
    /\ buff' = [buff EXCEPT ![At(e)] = <<e>>]
    /\ order' = Append(RemoveFirst(order, At(e)), At(e))
    /\ loc' = [loc EXCEPT ![e.tbl] = (@ % Keep[e.tbl]) + 1]
    /\ history' = Append(history, e)

\* kr_engine_insert_event.
InsertEvent(e) ==
    /\ ctx.at = "idle" /\ Insert(e)
    /\ Answer("SUCCESS", FALSE) /\ Clean
    /\ UNCHANGED <<result, log>>

\* An event for a table that is not there; either request.
InsertFails ==
    /\ ctx.at = "idle"
    /\ Answer("ERROR", FALSE) /\ Clean
    /\ UNCHANGED <<store, result, log>>

\* kr_engine_detect_event up to the first group; kr_context_set has
\* succeeded.
DetectEvent(e) ==
    /\ ctx.at = "idle" /\ Insert(e)
    /\ ctx' = [NoRequest EXCEPT !.at = "groups", !.curr = At(e), !.group = 1]
    /\ reply' = NoReply
    /\ UNCHANGED <<memo, result, log>>

\* The detection is over without a result.
Fail(f) ==
    /\ Answer("ERROR", FALSE) /\ ctx' = NoRequest
    /\ memo' = [i \in Item |-> Forget(f.memo[i])]
    /\ UNCHANGED <<store, log>>

\* The formula of the group looked at has come out as f.
GroupEvaluated(f) ==
    IF f.ret < 0 THEN Fail(f)
    ELSE /\ memo' = f.memo
         /\ ctx' = IF f.ret = 1 THEN [ctx EXCEPT !.at = "rules", !.rule = 1, !.fired = {}, !.weights = 0]
                   ELSE [ctx EXCEPT !.group = @ + 1]
         /\ UNCHANGED <<store, reply, log>>

\* kr_group_match and the loop of kr_engine_detect: no check of the
\* datasrc, the first match ends the search.
MatchGroup(ok) ==
    /\ ctx.at = "groups" /\ ctx.group \in DOMAIN Group
    /\ GroupEvaluated(EvalCalc(Group[ctx.group].calc, ok))
    /\ UNCHANGED result

Rule == Group[ctx.group].rules[ctx.rule]

\* The formula of the rule looked at has come out as f.
RuleEvaluated(f) ==
    IF f.ret < 0 THEN Fail(f) /\ UNCHANGED result
    ELSE /\ memo' = f.memo
         /\ result' = [result EXCEPT ![ctx.group][ctx.rule] = (f.ret = 1)]
         /\ ctx' = [ctx EXCEPT !.rule = @ + 1,
                      !.fired = IF f.ret = 1 THEN @ \cup {ctx.rule} ELSE @,
                      !.weights = IF f.ret = 1 THEN @ + Rule.weight ELSE @]
         /\ UNCHANGED <<store, reply, log>>

\* kr_rule_detect and the loop of kr_rule_list_detect.
DetectRule(ok) ==
    /\ ctx.at = "rules" /\ ctx.rule \in Rules(ctx.group)
    /\ IF Rule.datasrc # ctx.curr[1]
       THEN /\ ctx' = [ctx EXCEPT !.rule = @ + 1]
            /\ UNCHANGED <<store, memo, result, reply, log>>
       ELSE RuleEvaluated(EvalCalc(Rule.calc, ok))

\* kr_context_dump_json: the group, the record, the rules of the group and
\* all data items.  Without a group the pointer is NULL.
Dump ==
    /\ ctx.at = "rules" /\ ctx.rule \notin Rules(ctx.group)
    /\ Answer("SUCCESS", TRUE)
    /\ ctx' = [ctx EXCEPT !.at = "done"]
    /\ UNCHANGED <<store, memo, result, log>>

DumpNoGroup ==
    /\ ctx.at = "groups" /\ ctx.group \notin DOMAIN Group
    /\ ctx' = [ctx EXCEPT !.at = "trap"]
    /\ UNCHANGED <<store, memo, result, reply, log>>

\* The callback has taken the reply; the end of kr_engine_handle.
Reply ==
    /\ ctx.at = "done"
    /\ Clean
    /\ UNCHANGED <<store, result, reply, log>>

\* kr_context_set fails, or kr_functable_search finds no handler: the reply
\* stays as it was allocated.
Unhandled ==
    /\ ctx.at = "idle"
    /\ reply' = NoReply /\ Clean
    /\ UNCHANGED <<store, result, log>>

-----------------------------------------------------------------------------
(* Questions about the engine.  arg is <<>> if the message is no JSON,     *)
(* <<NoField>> if it has not the field asked for.                          *)

NoField == 0
ItemKind == [info_sdi |-> "SID", info_ddi |-> "DID", info_hdi |-> "HID"]

\* What each handler looks up before it answers: kr_engine_info_table,
\* _info_index, _info_group, _info_rule, _info_sdi and the like, set_logpath,
\* set_logname, set_loglevel.
TableFound(q) == q.datasrc \in Table
IndexFound(q) == q.arg # <<>> /\ q.datasrc \in HasIndex /\ q.arg[1] = 1
GroupFound(q) == q.arg # <<>> /\ q.arg[1] \in DOMAIN Group
RuleFound(q) == GroupFound(q) /\ q.arg[2] \in Rules(q.arg[1])
ItemFound(q) == q.arg # <<>> /\ q.arg[1] \in {i \in Item : Def[i].kind = ItemKind[q.method]}
SetFound(q) == q.arg # <<>> /\ q.arg[1] \in SetId
PathFound(q) == q.arg # <<>> /\ q.arg[1] \in Readable
NameFound(q) == q.arg # <<>> /\ q.arg[1] # NoField
LevelFound(q) == q.arg # <<>> /\ q.arg[1] \in 0 .. 5

\* The handler that kr_functable_search finds for the method; the others
\* have nothing to look up.
Found(q) ==
    CASE q.method = "info_table"      -> TableFound(q)
      [] q.method = "info_index"      -> IndexFound(q)
      [] q.method = "info_group"      -> GroupFound(q)
      [] q.method = "info_rule"       -> RuleFound(q)
      [] q.method \in DOMAIN ItemKind -> ItemFound(q)
      [] q.method = "info_set"        -> SetFound(q)
      [] q.method = "set_logpath"     -> PathFound(q)
      [] q.method = "set_logname"     -> NameFound(q)
      [] q.method = "set_loglevel"    -> LevelFound(q)
      [] q.method \in {"info_engine", "info_log", "info_krdb", "list_index_key", "info_param"} -> TRUE

Info(q) ==
    /\ ctx.at = "idle"
    /\ IF Found(q) THEN Answer("SUCCESS", TRUE) ELSE Answer("ERROR", FALSE)
    /\ log' = CASE q.method = "set_logpath" /\ Found(q) -> [log EXCEPT !.path = q.arg[1]]
                [] q.method = "set_logname" /\ Found(q) -> [log EXCEPT !.name = q.arg[1]]
                [] q.method = "set_loglevel" /\ Found(q) -> [log EXCEPT !.level = q.arg[1]]
                [] OTHER -> log
    /\ Clean
    /\ UNCHANGED <<store, result>>

EngineNext ==
    \/ \E e \in Event : InsertEvent(e) \/ DetectEvent(e)
    \/ \E ok \in BOOLEAN : MatchGroup(ok) \/ DetectRule(ok)
    \/ Dump \/ DumpNoGroup \/ Reply \/ InsertFails \/ Unhandled
    \/ \E q \in Ask : Info(q)

EngineSpec == EngineInit /\ [][EngineNext]_engineVars

-----------------------------------------------------------------------------
(* Properties *)

\* What the history says of the current event, the last one: the events
\* that the tables still hold, with their numbers.
Now == history[Len(history)]
Later(n) == {m \in DOMAIN history : m > n /\ history[m].tbl = history[n].tbl}
Held == {n \in DOMAIN history : Cardinality(Later(n)) < Keep[history[n].tbl]}
Peers == {n \in Held : history[n].tbl \in HasIndex /\ history[n].key = Now.key}

\* The event that a static item names, given those that its filter keeps:
\* the one with exactly "place" newer ones, among all peers or among those.
Named(d, kept) ==
    {n \in Peers \cap kept :
       Cardinality({m \in Peers : m > n /\ (d.location = "RELATIVE" => m \in kept)}) = d.place}

Counted(d, kept) ==
    {n \in Peers \cap kept : (d.current = "EXCLUDE" => n # Len(history))
                            /\ Now.time - history[n].time <= d.window}

\* The sums of the numbers f[1] .. f[n] with n in S.
Sums(f, S) ==
    LET sum[n \in 0 .. Len(f)] == IF n = 0 THEN 0 ELSE sum[n - 1] + (IF n \in S THEN f[n] ELSE 0)
    IN  sum
Total(f, S) == Sums(f, S)[Len(f)]

\* The value that item i is defined to have for the current event.
Defined(i, kept) ==
    LET d == Def[i]
        vals == {history[n].val : n \in Counted(d, kept)}
    IN  CASE d.kind = "SID" -> {history[n].val : n \in Named(d, kept)}
          [] d.kind = "DID" ->
               {CASE d.method = "SUM"   -> Total([n \in DOMAIN history |-> history[n].val], Counted(d, kept))
                  [] d.method = "COUNT" -> Cardinality(Counted(d, kept))
                  [] d.method = "MIN"   -> Min(vals)
                  [] d.method = "MAX"   -> Max(vals)}
          [] d.kind = "HID" -> {Flag[i][Now.key]}

\* The events that the filter of item i keeps.
KeptByField(i) ==
    LET d == Def[i]
    IN  {n \in Held : history[n].tbl = d.datasrc
                     /\ (IF d.filter.kind = "FID" THEN history[n] ELSE Now).val >= d.filter.least}
KeptByItem(i) ==
    LET f == Def[i].filter
    IN  {n \in Held : history[n].tbl = Def[i].datasrc
                     /\ \E v \in Defined(f.id, KeptByField(f.id)) : v >= f.least}
Kept(i) == IF OfField(Def[i].filter) THEN KeptByField(i) ELSE KeptByItem(i)
Meant(i) == Defined(i, Kept(i))

\* Has the code a value for item i that its definition gives a meaning to?
\* Not for the methods and statistics that are to be done; and the walk
\* starts from 0, which is no minimum of greater values, no maximum of lesser
\* ones and neither of none.
Finished(i, kept) ==
    LET d == Def[i]
    IN  CASE d.kind = "SID" -> TRUE
          [] d.kind = "DID" ->
               \/ d.method \in {"SUM", "COUNT"}
               \/ d.method = "MIN" /\ \E n \in Counted(d, kept) : history[n].val <= 0
               \/ d.method = "MAX" /\ \E n \in Counted(d, kept) : history[n].val >= 0
          [] d.kind = "HID" -> d.stat = "FLAG"

\* The same of the item that the filter asks for; and the value is not the
\* one meant if that item has moved the record.
HasMeaning(i) ==
    /\ Finished(i, Kept(i))
    /\ Flat(i) \/ Finished(Def[i].filter.id, KeptByField(Def[i].filter.id))
Sound(i) == ~memo[i].moved /\ HasMeaning(i)
SoundFormula(f) == f.kind = "CID" \/ Sound(f.id)

\* The events an item's value comes from, which the reply lists.
Used(i) ==
    CASE Def[i].kind = "SID" -> Named(Def[i], Kept(i))
      [] Def[i].kind = "DID" -> Counted(Def[i], Kept(i))
      [] OTHER -> {}

\* Does a formula hold of the current event?
Holds(f) ==
    IF f.kind = "CID" THEN Now.val >= f.least
    ELSE \E v \in Meant(f.id) : v >= f.least

\* Is rule r of group g to fire?
Due(g, r) == Group[g].rules[r].datasrc = Now.tbl /\ Holds(Group[g].rules[r].calc)
Weights(g) == [r \in Rules(g) |-> Group[g].rules[r].weight]

\* A reply that reports success is right: the group is the first one whose
\* formula holds of the event, the rules of this table that fired are those
\* that hold, their weights add up, and every data item that has a value
\* has the value and the related records that the events still held define,
\* whatever requests, failed selects and reuse of addresses came before
\* (kr_engine_detect, kr_sdi_get_value, kr_ddi_get_value, kr_hdi_get_value,
\* kr_context_clean).  Said of the items that have a value as defined, and of
\* the formulas that ask for those.
ReplyExact ==
    ctx.at = "done" =>
      /\ \A g \in 1 .. ctx.group :
           SoundFormula(Group[g].calc) => (Holds(Group[g].calc) <=> g = ctx.group)
      /\ \A r \in Rules(ctx.group) :
           LET rule == Group[ctx.group].rules[r]
           IN  (rule.datasrc = Now.tbl => SoundFormula(rule.calc))
               => /\ r \in ctx.fired <=> Due(ctx.group, r)
                  /\ rule.datasrc = Now.tbl => (result[ctx.group][r] <=> Due(ctx.group, r))
      /\ ctx.weights = Total(Weights(ctx.group), ctx.fired)
      /\ \A i \in {j \in Item : memo[j].set /\ Sound(j)} :
           /\ Meant(i) = {memo[i].value}
           /\ {Rec(a) : a \in memo[i].related} = {history[n] : n \in Used(i)}

\* An item that is said to be cached for the current record has a value:
\* the branch of kr_sdi_get_value and kr_ddi_get_value that logs "value
\* record cached" is taken only for a record that the item was computed for.
RecordCached ==
    \A i \in Item : ctx.curr # NULL /\ Def[i].kind \in {"SID", "DID"} /\ Remembered(i) => memo[i].set
=============================================================================
