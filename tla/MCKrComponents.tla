--------------------------- MODULE MCKrComponents ---------------------------
(***************************************************************************)
(* The components that do not interact with each other, checked in one     *)
(* run: a behaviour is that of the one component that Init picks, one of   *)
(* those of KrParts or of the three added here; the engine and the         *)
(* expressions rest while another runs, and all others have no state.  The *)
(* data each of them works on is given here and in the cfg.                *)
(***************************************************************************)
EXTENDS KrParts, KrEngine, KrCalc

VARIABLES t, kids                                      \* KrNtree

-----------------------------------------------------------------------------
(* Four nodes. *)
T == INSTANCE KrNtree WITH Node <- 1 .. 4, Data <- {1, 2}, CopyFunc <- <<2, 1>>

-----------------------------------------------------------------------------
(* Expressions with every operator, over a field of the current record     *)
(* that has another type in table 2, a field of the record looked at, a    *)
(* data item and two sets; each value may be missing.                      *)

Operator(op, c) == <<[kind |-> "NONE", op |-> op, value |-> 0, child |-> c]>>
Leaf(k, v) == <<[kind |-> k, op |-> "NONE", value |-> v, child |-> <<>>]>>
\* The text f after n other elements.
Behind(n, f) == [k \in DOMAIN f |-> [f[k] EXCEPT !.child = [i \in DOMAIN @ |-> @[i] + n]]]
Apply(op, l, r) == l \o Behind(Len(l), r) \o Operator(op, <<Len(l), Len(l) + Len(r)>>)
Prefix(op, f) == f \o Operator(op, <<Len(f)>>)
C1 == Leaf("CID", 1)
F1 == Leaf("FID", 1)
DataItem == Leaf("DID", 1)
A1 == Leaf("SET", 1)
A2 == Leaf("SET", 2)
Strings(S) == [type |-> "STRING", elements |-> S]
Formulas == {
  Apply("AND", Apply("BL", F1, Leaf("MSTRING", Strings({<<1, 1>>}))),
               Apply("OR", Apply("NEQ", F1, Leaf("STRING", <<2, 1>>)),
                           Apply("GE", DataItem, Apply("SUB", C1, Leaf("INT", <<9, 2>>))))),
  Prefix("NOT", Apply("LT", Apply("MUT", C1, Leaf("FLOAT", <<1, 2>>)), Leaf("FLOAT", <<7, 2>>))),
  Apply("EQ", Apply("MOD", C1, Leaf("FLOAT", <<-5, 2>>)), Apply("PLUS", DataItem, Leaf("INT", <<-2, 1>>))),
  Apply("OR", C1, Apply("LE", DataItem, C1)),
  Apply("AND", Apply("GT", C1, Apply("DIV", C1, Leaf("INT", <<-2, 1>>))), DataItem),
  C1, Apply("EQ", C1, DataItem),
  Apply("BL", C1, A1), Apply("NBL", C1, A1), Apply("NBL", F1, A2), Apply("BL", F1, A1),
  Apply("MATCH", F1, Leaf("REGEX", Strings({<<2, 1>>}))),
  Apply("NEQ", F1, Leaf("STRING", <<1, 1>>)), Prefix("NOT", Apply("NEQ", Leaf("STRING", <<0, 1>>), F1)),
  Apply("EQ", Apply("NEQ", F1, Leaf("STRING", <<3, 1>>)), Apply("NEQ", C1, DataItem)), Apply("EQ", A1, C1),
  Apply("XOR", C1, C1),
  Apply("OR", Apply("LT", C1, DataItem), Leaf("CHAR", <<0, 1>>)) }

Ids == [kind : {"CID", "FID", "DID", "SET"}, id : {1, 2}]
Input(tab, c, f, d) ==
  [table |-> tab,
   type  |-> [x \in Ids |-> CASE x.kind = "CID" -> (IF tab = 1 THEN "INT" ELSE "STRING")
                              [] x.kind = "FID" -> "STRING"
                              [] x.kind = "DID" -> "INT"
                              [] OTHER -> IF x.id = 1 THEN "INT" ELSE "STRING"],
   value |-> [x \in Ids |-> CASE x.kind = "CID" -> c [] x.kind = "FID" -> f [] x.kind = "DID" -> d
                              [] OTHER -> IF x.id = 1 THEN <<[type |-> "INT", elements |-> {<<7, 1>>}]>>
                                          ELSE <<Strings({<<1, 1>>})>>]]
Optional(S) == {<<>>} \cup {<<<<n, 1>>>> : n \in S}
Records == {Input(tab, c, f, d) : tab \in {1, 2}, c \in Optional({0, 7}), f \in Optional({1, 2}), d \in Optional({3})}

-----------------------------------------------------------------------------
(* Records whose two index fields hold each other's keys, and one of a      *)
(* table without the second index.                                         *)

OwnIndex == <<1, 2>>
CurrentRecords == {<<1, 2>>, <<2, 1>>, <<3, 0>>}

-----------------------------------------------------------------------------
(* Databases with expressions that do not parse, symbols that the data     *)
(* module lacks, and more groups than a section holds.                     *)

DefRow(i, c, f, s) == [id |-> i, calc |-> c, func |-> f, sub |-> s]
Good(i) == DefRow(i, TRUE, TRUE, <<>>)
Plain == [set |-> <<DefRow(1, TRUE, TRUE, <<Good(7), Good(8)>>)>>, sdi |-> <<Good(1)>>,
          ddi |-> <<DefRow(1, FALSE, TRUE, <<>>), Good(2)>>, hdi |-> <<>>,
          group |-> <<DefRow(1, TRUE, TRUE, <<Good(1), Good(2)>>), DefRow(2, TRUE, TRUE, <<DefRow(3, FALSE, TRUE, <<>>)>>)>>]
Databases ==
  {Plain,
   [Plain EXCEPT !.set = <<DefRow(1, TRUE, FALSE, <<Good(7)>>), DefRow(2, TRUE, TRUE, <<Good(9)>>)>>, !.hdi = <<DefRow(1, TRUE, FALSE, <<>>)>>],
   [Plain EXCEPT !.set = <<Good(2)>>, !.group = <<DefRow(3, TRUE, TRUE, <<Good(1)>>)>>],
   [Plain EXCEPT !.sdi = <<Good(1), DefRow(2, TRUE, FALSE, <<>>)>>],
   [Plain EXCEPT !.group = @ \o <<DefRow(3, TRUE, TRUE, <<Good(1)>>)>>]}
TwoOfEach == [set |-> 2, sdi |-> 2, ddi |-> 2, hdi |-> 2, group |-> 2, rule |-> 2]

SubRows == {Good(1), Good(2), DefRow(3, FALSE, TRUE, <<>>), Good(7), Good(8), Good(9)}

-----------------------------------------------------------------------------
(* Two tables that share the index and one without it; groups and rules    *)
(* over every kind of data item, and filters over each of them.            *)

Ev(tb, k, v, tm) == [tbl |-> tb, key |-> k, val |-> v, time |-> tm]
Events == {Ev(1, 1, 0, 0), Ev(1, 1, 3, 5), Ev(1, 2, 2, 1), Ev(2, 1, 2, 6), Ev(3, 1, 3, 3)}
FilterOf(k, n) == [kind |-> k, least |-> n]
Asks(k, i, n) == [kind |-> k, id |-> i, least |-> n]
Sdi(p, l, f) == [kind |-> "SID", datasrc |-> 1, location |-> l, place |-> p, filter |-> f]
Ddi(m, c, w, f) == [kind |-> "DID", datasrc |-> 1, method |-> m, current |-> c, window |-> w, filter |-> f]
Hdi(s) == [kind |-> "HID", stat |-> s]
Defs == <<Sdi(1, "RELATIVE", FilterOf("FID", 0)), Sdi(1, "ABSOLUTE", FilterOf("FID", 2)),
          Ddi("SUM", "INCLUDE", 5, FilterOf("FID", 1)), Ddi("COUNT", "EXCLUDE", 9, FilterOf("FID", 2)),
          Ddi("MAX", "INCLUDE", 3, FilterOf("CID", 2)), Hdi("FLAG"), Hdi("DAY"),
          Ddi("MIN", "INCLUDE", 9, FilterOf("FID", 0)), Hdi("MONTH"),
          Ddi("SUM", "INCLUDE", 9, Asks("SID", 1, 0)), Sdi(0, "RELATIVE", Asks("DID", 4, 1)),
          Ddi("COUNT", "INCLUDE", 9, Asks("HID", 6, 1))>>
RuleRow(d, w, f) == [datasrc |-> d, weight |-> w, calc |-> f]
Groups ==
  <<[calc |-> Asks("CID", 0, 3), rules |-> <<RuleRow(1, 2, Asks("DID", 4, 0)), RuleRow(1, 3, Asks("DID", 5, 2)), RuleRow(1, 4, Asks("DID", 12, 2)),
                                             RuleRow(1, 7, Asks("SID", 11, 3)), RuleRow(1, 6, Asks("DID", 10, 4)),
                                             RuleRow(2, 5, Asks("CID", 0, 1)), RuleRow(3, 1, Asks("DID", 3, 1))>>],
    [calc |-> Asks("HID", 6, 2), rules |-> <<RuleRow(1, 1, Asks("HID", 7, 0)), RuleRow(1, 4, Asks("DID", 8, 0)),
                                             RuleRow(1, 2, Asks("HID", 9, 1))>>],
    [calc |-> Asks("DID", 12, 0), rules |-> <<RuleRow(1, 2, Asks("DID", 8, 0)), RuleRow(1, 1, Asks("SID", 1, 2)), RuleRow(2, 2, Asks("SID", 2, 2)),
                                             RuleRow(1, 3, Asks("DID", 10, 1)), RuleRow(1, 5, Asks("SID", 11, 0)),
                                             RuleRow(2, 4, Asks("DID", 3, 3))>>]>>
Question(m, d, a) == [method |-> m, datasrc |-> d, arg |-> a]
Questions ==
  {Question("info_engine", 1, <<>>), Question("info_table", 3, <<>>), Question("info_table", 4, <<>>),
   Question("info_index", 1, <<1>>), Question("info_group", 1, <<4>>), Question("info_rule", 1, <<1, 3>>),
   Question("info_ddi", 1, <<3>>), Question("info_set", 1, <<2>>), Question("info_krdb", 1, <<>>), Question("info_sdi", 1, <<>>), Question("set_logname", 1, <<0>>),
   Question("set_logpath", 1, <<2>>), Question("set_logpath", 1, <<3>>), Question("set_loglevel", 1, <<9>>)}

Rings == <<2, 1, 1>>
Flags == [i \in 1 .. 12 |-> <<1, 3>>]

-----------------------------------------------------------------------------
(* Databases with shared indexes, and one with an unknown type of index.   *)

Ix(i, ty) == [id |-> i, type |-> ty]
Sources == <<[id |-> 1, fields |-> 2, index |-> <<Ix(1, "TABLE"), Ix(2, "DB")>>],
             [id |-> 2, fields |-> 1, index |-> <<Ix(2, "DB"), Ix(1, "TABLE"), Ix(3, "DB")>>],
             [id |-> 3, fields |-> 2, index |-> <<Ix(3, "DB"), Ix(4, "OTHER"), Ix(2, "DB")>>]>>

Schemas == {Sources, SubSeq(Sources, 1, 2), <<>>}

-----------------------------------------------------------------------------
TreeVars == <<t, kids>>

NoTree == /\ t = 0 /\ kids = 0
NoParts == NoEvent /\ NoCache /\ NoLoad /\ NoStart

Init ==
  \/ PartsInit /\ NoTree /\ CalcInit /\ EngineInit
  \/ part = "ntree" /\ T!TreeInit /\ NoParts /\ CalcInit /\ EngineInit
  \/ part = "calc" /\ CalcInit /\ NoParts /\ NoTree /\ EngineInit
  \/ part = "engine" /\ EngineInit /\ NoParts /\ NoTree /\ CalcInit

Next ==
  \/ PartsNext /\ UNCHANGED <<TreeVars, calcVars, engineVars>>
  \/ part = "ntree" /\ T!TreeNext /\ UNCHANGED <<PartsVars, calcVars, engineVars>>
  \/ part = "calc" /\ CalcNext /\ UNCHANGED <<PartsVars, TreeVars, engineVars>>
  \/ part = "engine" /\ EngineNext /\ UNCHANGED <<PartsVars, TreeVars, calcVars>>

vars == <<PartsVars, TreeVars, calcVars, engineVars>>

Spec == Init /\ [][Next]_vars

-----------------------------------------------------------------------------
(* Properties: those of KrParts, KrEngine and KrCalc, and of the tree.     *)

\* The links between the nodes of a tree agree with each other and with the
\* operations that made them (kr_ntree.c).
LinksExact == part = "ntree" => T!LinksExact

\* Traversals meet the nodes asked for, once and in order (kr_ntree.c).
TraversalExact == part = "ntree" => T!TraversalExact
=============================================================================
