------------------------------- MODULE KrCalc -------------------------------
(***************************************************************************)
(* krcalc: the expressions of rules, groups and data items.  An expression *)
(* is parsed once, into a tree whose nodes carry their type, their value   *)
(* and whether the value is set, and that same tree is evaluated again for *)
(* every record: what an evaluation leaves in a node is there when the     *)
(* next one starts.                                                        *)
(*                                                                         *)
(* Numbers are fractions <<n, d>>, d > 0, so that division and the casts   *)
(* to int can be told apart; a string is its rank in strcmp order; a       *)
(* kr_bool is an int, TRUE is 1.  A set, or a regular expression, is the   *)
(* record [type, elements] of what it accepts.                             *)
(*                                                                         *)
(* A tree is the sequence of its nodes in postorder, which is the order in *)
(* which kr_calc_tree_traverse visits them; a node has the positions of    *)
(* its children, and the last one is the root.                             *)
(***************************************************************************)
EXTENDS Integers, Sequences, FiniteSetsExt

CONSTANTS Formula,   \* the texts (parsed by cJSON) that parameters may hold:
                     \* trees of [kind, op, value, child], op "NONE" in a leaf
          Record,    \* what an evaluation is about: [table, type, value], the
                     \* last two functions from identifiers [kind, id]; the
                     \* value is a sequence, empty for NULL
          Distance   \* what strcmp returns for strings that differ, but for
                     \* the sign: C says no more of it than that it is not 0

VARIABLES calc,      \* <<>>, or the one expression that exists
          outcome    \* history: the last evaluation [record, ret]

calcVars == <<calc, outcome>>

ARITH == {"PLUS", "SUB", "MUT", "DIV", "MOD"}
COMPARE == {"LT", "LE", "GT", "GE", "EQ", "NEQ"}
LOGIC == COMPARE \cup {"BL", "NBL", "MATCH"}
REL == {"AND", "OR", "NOT"}
EXTERN == {"SET", "CID", "FID", "SID", "DID", "HID"}
MULTI == {"MINT", "MFLOAT", "MSTRING", "SET"}
NUMERIC == {"INT", "LONG", "DOUBLE"}

\* A text is a tree, and each of the operators but those of REL stands
\* between two operands; a regular expression is one for strings.
IsText(f) ==
    /\ Len(f) \in Nat \ {0} /\ DOMAIN f = 1 .. Len(f)
    /\ \A k \in DOMAIN f :
         /\ Len(f[k].child) \in Nat /\ f[k].child \in [1 .. Len(f[k].child) -> 1 .. k - 1]
         /\ f[k].op = "NONE" => f[k].child = <<>>
         /\ f[k].op \in ARITH \cup LOGIC => Len(f[k].child) = 2
         /\ f[k].op = "NONE" /\ f[k].kind = "REGEX" => f[k].value.type = "STRING"
    /\ \A k \in 1 .. Len(f) - 1 : \E p \in DOMAIN f : \E i \in DOMAIN f[p].child : f[p].child[i] = k

ASSUME CalcAssumption == Distance \in Nat \ {0} /\ \A f \in Formula : IsText(f)

---------------------------------------------------------------------------
(* Numbers *)

Num(n) == <<n, 1>>

Less(p, q) == p[1] * q[2] < q[1] * p[2]

Same(p, q) == p[1] * q[2] = q[1] * p[2]

\* The cast to int: towards zero.
Trunc(p) == IF p[1] >= 0 THEN p[1] \div p[2] ELSE -((-p[1]) \div p[2])

Remainder(a, b) == LET abs(x) == IF x < 0 THEN -x ELSE x
                   IN  IF a >= 0 THEN a % abs(b) ELSE -((-a) % abs(b))

Divide(p, q) == IF q[1] > 0 THEN <<p[1] * q[2], p[2] * q[1]>>
                ELSE <<-(p[1] * q[2]), p[2] * (-q[1])>>

ArithOp(op, p, q) ==
    CASE op = "PLUS" -> <<p[1] * q[2] + q[1] * p[2], p[2] * q[2]>>
      [] op = "SUB"  -> <<p[1] * q[2] - q[1] * p[2], p[2] * q[2]>>
      [] op = "MUT"  -> <<p[1] * q[1], p[2] * q[2]>>
      [] op = "DIV"  -> Divide(p, q)
      [] op = "MOD"  -> Num(Remainder(Trunc(p), Trunc(q)))

CompareOp(op, p, q) ==
    CASE op = "LT"  -> Less(p, q)
      [] op = "LE"  -> ~Less(q, p)
      [] op = "GT"  -> Less(q, p)
      [] op = "GE"  -> ~Less(p, q)
      [] op = "EQ"  -> Same(p, q)
      [] op = "NEQ" -> ~Same(p, q)

\* kr_hashset_search, and kr_regex_execute.
Accepts(set, v) == \E x \in set.elements : Same(x, v)

Bool(b) == IF b THEN Num(1) ELSE Num(0)

StrCmp(p, q) ==
    IF Same(p, q) THEN Num(0) ELSE IF Less(p, q) THEN Num(-Distance) ELSE Num(Distance)

---------------------------------------------------------------------------
(* Parsing *)

\* kr_calc_tree_new
NewNode(kind) == [kind |-> kind, op |-> "NONE", id |-> 0, type |-> "UNKNOWN",
                  set |-> FALSE, value |-> Num(0), child |-> <<>>]

\* kr_calc_parse_ele: a constant has its type and value for good, an
\* identifier neither.  <<>> is the NULL of a kind that is not known.
ConstNode(e, type, v) == <<[NewNode(e.kind) EXCEPT !.type = type, !.value = v, !.set = TRUE]>>

ParseEle(e) ==
    CASE e.kind = "INT"    -> ConstNode(e, "INT", Num(Trunc(e.value)))
      [] e.kind = "FLOAT"  -> ConstNode(e, "DOUBLE", e.value)
      [] e.kind = "STRING" -> ConstNode(e, "STRING", e.value)
      [] e.kind \in {"MINT", "MFLOAT", "MSTRING", "REGEX"} -> ConstNode(e, "POINTER", e.value)
      [] e.kind \in EXTERN -> <<[NewNode(e.kind) EXCEPT !.id = e.value]>>
      [] OTHER -> <<>>

\* kr_calc_parse_exp: the type of an expression is that of its operator.
ParseExp(e) ==
    LET kind == CASE e.op \in ARITH -> "ARITH" [] e.op \in LOGIC -> "LOGIC" [] OTHER -> "REL"
    IN  IF e.op \in ARITH \cup LOGIC \cup REL
        THEN <<[NewNode(kind) EXCEPT !.op = e.op, !.child = e.child,
                                     !.type = IF kind = "ARITH" THEN "DOUBLE" ELSE "BOOL"]>>
        ELSE <<>>

ParseNode(e) == IF e.op = "NONE" THEN ParseEle(e) ELSE ParseExp(e)

\* _kr_calc_parse_json: NULL when a part of the text cannot be parsed.
ParseJson(f) ==
    IF \E k \in DOMAIN f : ParseNode(f[k]) = <<>> THEN <<>>
    ELSE [k \in DOMAIN f |-> ParseNode(f[k])[1]]

\* Child i of node k.
Kid(t, k, i) == t[t[k].child[i]]

---------------------------------------------------------------------------
(* The type check *)

\* Mutant of Mismatch: a string is compared with a number.
MismatchAny(t, l, r) ==
    CASE t.kind = "ARITH" -> l.type \notin NUMERIC \/ r.type \notin NUMERIC
      [] t.op \in COMPARE -> FALSE
      [] t.op \in {"BL", "NBL"} -> r.kind \notin MULTI \/ l.type # r.type
      [] t.op = "MATCH" -> l.type # "STRING" \/ r.kind # "REGEX"

Mismatch(t, l, r) ==
    CASE t.kind = "ARITH" -> l.type \notin NUMERIC \/ r.type \notin NUMERIC
      [] t.op \in COMPARE -> (l.type = "STRING") # (r.type = "STRING")
      [] t.op \in {"BL", "NBL"} -> r.kind \notin MULTI \/ l.type # r.type
      [] t.op = "MATCH" -> l.type # "STRING" \/ r.kind # "REGEX"

\* _kr_calc_tree_check: a type that is not known yet passes; the children
\* of a relation are looked at up to the first unknown one.
CheckNode(t, k) ==
    LET type(i) == Kid(t, k, i).type
    IN  CASE t[k].kind \in {"ARITH", "LOGIC"} ->
               /\ Len(t[k].child) = 2
               /\ \/ \E i \in {1, 2} : type(i) = "UNKNOWN"
                  \/ ~Mismatch(t[k], Kid(t, k, 1), Kid(t, k, 2))
          [] t[k].kind = "REL" ->
               \A i \in DOMAIN t[k].child :
                  \/ \E j \in 1 .. i : type(j) = "UNKNOWN"
                  \/ type(i) \in {"BOOL", "INT"}
          [] OTHER -> TRUE

Check(t) == \A k \in DOMAIN t : CheckNode(t, k)

---------------------------------------------------------------------------
(* Evaluation: [ret, node], the node as it is left *)

Fails(t) == [ret |-> -1, node |-> [t EXCEPT !.set = FALSE]]

Yields(t, v) == [ret |-> 0, node |-> [t EXCEPT !.set = TRUE, !.value = v]]

\* _kr_calc_tree_eval_rel: the children c in order, until one decides.
EvalRel(t, c) ==
    LET Bad(i) == ~c[i].set \/ c[i].type \notin {"BOOL", "INT"}
        Decides(i) == (t.op = "AND") = Same(c[i].value, Num(0))
        stops == {i \in DOMAIN c : Bad(i) \/ Decides(i)}
    IN  IF stops = {} THEN Yields(t, Bool(t.op # "OR"))
        ELSE IF Bad(Min(stops)) THEN Fails(t)
        ELSE Yields(t, Bool(t.op = "OR"))

EvalArith(t, l, r) ==
    LET d == ArithOp(t.op, l.value, r.value)
    IN  IF l.set /\ r.set /\ {l.type, r.type, t.type} \subseteq NUMERIC
        THEN Yields(t, IF t.type = "DOUBLE" THEN d ELSE Num(Trunc(d)))
        ELSE Fails(t)

\* The two sides of a comparison: strings, NEQ of which stores what strcmp
\* returned, or numbers, among which everything else (a set) counts as 0.
Promoted(n) == IF n.type \in NUMERIC \cup {"BOOL"} THEN n.value ELSE Num(0)

Compared(op, l, r) ==
    IF l.type # "STRING" THEN Bool(CompareOp(op, Promoted(l), Promoted(r)))
    ELSE IF op = "NEQ" THEN StrCmp(l.value, r.value)
    ELSE Bool(CompareOp(op, l.value, r.value))

\* _kr_calc_tree_eval_logic.  BL compares the type of the left side with the
\* type of the set's elements; NBL, but for strings, with the type of the
\* node that holds the set, which is POINTER.
EvalLogic(t, l, r) ==
    LET typed == IF t.op = "BL" \/ l.type = "STRING" THEN r.value.type ELSE r.type
        fits  == CASE t.op \in COMPARE       -> (l.type = "STRING") = (r.type = "STRING")
                   [] t.op \in {"BL", "NBL"} -> r.kind \in MULTI /\ l.type = typed
                   [] t.op = "MATCH"         -> l.type = "STRING" /\ r.kind = "REGEX"
    IN  IF ~l.set \/ ~r.set \/ ~fits THEN Fails(t)
        ELSE Yields(t, IF t.op \in COMPARE THEN Compared(t.op, l, r)
                       ELSE Bool((t.op # "NBL") = Accepts(r.value, l.value)))

\* Mutant of EvalExtern: without a value the node keeps the one it has.
EvalExternKeeps(t, rec) ==
    LET id   == [kind |-> t.kind, id |-> t.id]
        type == IF t.type = "UNKNOWN" THEN rec.type[id] ELSE t.type
        node == [t EXCEPT !.type = type]
    IN  IF type = "UNKNOWN" THEN Fails(t)
        ELSE IF rec.value[id] = <<>> THEN [ret |-> 0, node |-> node]
        ELSE IF t.kind = "SET" THEN Yields([node EXCEPT !.type = "POINTER"], rec.value[id][1])
        ELSE Yields(node, rec.value[id][1])

\* _kr_calc_tree_eval_extern: the type is asked for once and kept, the value
\* every time; without a value the node stays unset and nothing fails.
EvalExtern(t, rec) ==
    LET id   == [kind |-> t.kind, id |-> t.id]
        type == IF t.type = "UNKNOWN" THEN rec.type[id] ELSE t.type
        node == [t EXCEPT !.set = FALSE, !.type = type]
    IN  IF type = "UNKNOWN" THEN Fails(t)
        ELSE IF rec.value[id] = <<>> THEN [ret |-> 0, node |-> node]
        ELSE IF t.kind = "SET" THEN Yields([node EXCEPT !.type = "POINTER"], rec.value[id][1])
        ELSE Yields(node, rec.value[id][1])

EvalNode(t, k, rec) ==
    CASE t[k].kind = "REL"   -> EvalRel(t[k], [i \in DOMAIN t[k].child |-> Kid(t, k, i)])
      [] t[k].kind = "ARITH" -> EvalArith(t[k], Kid(t, k, 1), Kid(t, k, 2))
      [] t[k].kind = "LOGIC" -> EvalLogic(t[k], Kid(t, k, 1), Kid(t, k, 2))
      [] t[k].kind \in EXTERN -> EvalExtern(t[k], rec)
      [] OTHER -> [ret |-> 0, node |-> t[k]]

\* The visit to node k; after a failure there are no more.
Visit(s, k, rec) ==
    LET r == EvalNode(s.tree, k, rec)
    IN  IF s.ret # 0 THEN s ELSE [ret |-> r.ret, tree |-> [s.tree EXCEPT ![k] = r.node]]

\* kr_calc_tree_traverse in postorder, after each node.
EvalTree(t, rec) ==
    LET after[k \in 0 .. Len(t)] ==
          IF k = 0 THEN [ret |-> 0, tree |-> t] ELSE Visit(after[k - 1], k, rec)
    IN  after

---------------------------------------------------------------------------
(* Operations *)

CalcInit == calc = <<>> /\ outcome = <<>>

\* kr_calc_construct; the text is kept (calc_string).
Construct(f) ==
    /\ calc = <<>> /\ ParseJson(f) # <<>>
    /\ calc' = <<[text |-> f, tree |-> ParseJson(f)]>>
    /\ outcome' = <<>>

\* kr_calc_eval: 0 or -1, and a tree that has been written to.
Eval(rec) ==
    /\ calc # <<>>
    /\ LET r == EvalTree(calc[1].tree, rec)[Len(calc[1].tree)]
       IN  /\ calc' = <<[calc[1] EXCEPT !.tree = r.tree]>>
           /\ outcome' = <<[record |-> rec, ret |-> r.ret]>>

Destruct == calc # <<>> /\ calc' = <<>> /\ outcome' = <<>>

CalcNext ==
    \/ \E f \in Formula : Construct(f)
    \/ \E rec \in Record : Eval(rec)
    \/ Destruct

CalcSpec == CalcInit /\ [][CalcNext]_calcVars

---------------------------------------------------------------------------
(* What an expression means for one record, whatever was evaluated before: *)
(* [is: "value" | "unset" | "error", type, v]                              *)

Value(type, v) == [is |-> "value", type |-> type, v |-> v]

Wrong(is) == [is |-> is, type |-> "UNKNOWN", v |-> Num(0)]

\* And, or, neither: from left to right, an operand that has no value is an
\* error unless the result is certain before it.
Junction(op, ms) ==
    LET bad     == {i \in DOMAIN ms : ms[i].is # "value" \/ ms[i].type \notin {"BOOL", "INT"}}
        certain == {i \in DOMAIN ms : i \notin bad /\ Same(ms[i].v, Num(0)) = (op = "AND")}
    IN  IF \E i \in bad : \A j \in certain : i < j THEN Wrong("error")
        ELSE Value("BOOL", Bool((op = "OR") = (certain # {})))

Constant(e) ==
    CASE e.kind = "INT"    -> Value("INT", Num(Trunc(e.value)))
      [] e.kind = "FLOAT"  -> Value("DOUBLE", e.value)
      [] e.kind = "STRING" -> Value("STRING", e.value)
      [] OTHER             -> Value("POINTER", e.value)

\* The meaning of the element e of f, by those of its children.
MeaningOf(e, f, ms, rec) ==
    LET l  == ms[1]
        r  == ms[2]
        id == [kind |-> e.kind, id |-> e.value]
    IN  IF e.op = "NONE" THEN
            IF e.kind \notin EXTERN THEN Constant(e)
            ELSE IF rec.type[id] = "UNKNOWN" THEN Wrong("error")
            ELSE IF rec.value[id] = <<>> THEN Wrong("unset")
            ELSE Value(IF e.kind = "SET" THEN "POINTER" ELSE rec.type[id], rec.value[id][1])
        ELSE IF \E i \in DOMAIN ms : ms[i].is = "error" THEN Wrong("error")
        ELSE IF e.op \in REL THEN Junction(e.op, ms)
        ELSE IF l.is = "unset" \/ r.is = "unset" THEN Wrong("error")
        ELSE IF e.op \in ARITH THEN
            IF {l.type, r.type} \subseteq NUMERIC
            THEN Value("DOUBLE", ArithOp(e.op, l.v, r.v)) ELSE Wrong("error")
        ELSE IF e.op \in COMPARE THEN
            IF {l.type, r.type} = {"STRING"} \/ {l.type, r.type} \subseteq NUMERIC \cup {"BOOL"}
            THEN Value("BOOL", Bool(CompareOp(e.op, l.v, r.v))) ELSE Wrong("error")
        ELSE IF /\ f[e.child[2]].op = "NONE"
                /\ f[e.child[2]].kind \in (IF e.op = "MATCH" THEN {"REGEX"} ELSE MULTI)
                /\ r.v.type = l.type
            THEN Value("BOOL", Bool((e.op # "NBL") = Accepts(r.v, l.v))) ELSE Wrong("error")

\* The meanings of the first k elements; the others are not known yet.
Meanings(f, rec) ==
    LET upTo[k \in 0 .. Len(f)] ==
          IF k = 0 THEN [j \in DOMAIN f |-> Wrong("unset")]
          ELSE LET ms == [i \in DOMAIN f[k].child |-> upTo[k - 1][f[k].child[i]]]
               IN  [upTo[k - 1] EXCEPT ![k] = MeaningOf(f[k], f, ms, rec)]
    IN  upTo

Meaning(f, rec) == Meanings(f, rec)[Len(f)][Len(f)]

---------------------------------------------------------------------------
(* Properties *)

\* The types kept in the tree are those of the record it was evaluated for.
KeepsTypes(t, rec) ==
    \A k \in {j \in DOMAIN t : t[j].kind \in EXTERN} :
      LET type == rec.type[[kind |-> t[k].kind, id |-> t[k].id]]
      IN  t[k].type \in {"UNKNOWN", type} \/ (t[k].kind = "SET" /\ t[k].type = "POINTER" /\ type # "UNKNOWN")

\* A truth that is not 0 or 1: NEQ has stored what strcmp returned.
Raw(n) == n.op = "NEQ" /\ n.set /\ n.value \notin {Num(0), Num(1)}

\* Where the code does not do what the operator of node k says: NBL on a set
\* of numbers always fails (see EvalLogic), a raw truth is not equal to a
\* truth that another operator yields, and a set compares like the number 0.
Misread(t, k) ==
    \/ t[k].op = "NBL" /\ Kid(t, k, 1).type # "STRING"
    \/ t[k].op \in LOGIC /\ \E i \in {1, 2} : Raw(Kid(t, k, i))
    \/ t[k].op \in COMPARE /\ \E i \in {1, 2} :
         Kid(t, k, i).set /\ Kid(t, k, i).type \notin NUMERIC \cup {"BOOL", "STRING"}

\* The value v stands for the meaning w: as the same number or string, or as
\* the same truth, which is what rules, groups and filters ask of a result.
StandsFor(type, v, w) ==
    IF type = "BOOL" THEN Same(v, Num(0)) = Same(w, Num(0)) ELSE Same(v, w)

\* kr_calc_eval says 0 exactly when the expression has a meaning for this
\* record, and the root then holds that meaning: no value, and no "set" mark,
\* that an evaluation for an earlier record (or one that failed half way)
\* left in the tree is taken for one of this record.  Nodes that the code
\* misreads are excepted.
EvalExact ==
    (calc # <<>> /\ outcome # <<>>) =>
      LET t == calc[1].tree
          m == Meaning(calc[1].text, outcome[1].record)
          root == t[Len(t)]
      IN  (KeepsTypes(t, outcome[1].record) /\ \A k \in DOMAIN t : ~Misread(t, k)) =>
            /\ (outcome[1].ret = 0) = (m.is # "error")
            /\ outcome[1].ret = 0 =>
                 /\ root.set = (m.is = "value")
                 /\ root.set => root.type = m.type /\ StandsFor(m.type, root.value, m.v)

\* Every identifier has a type, and no set stands on the left of a set.
Typed(t) == \A k \in DOMAIN t :
              /\ t[k].type # "UNKNOWN"
              /\ t[k].op \in {"BL", "NBL"} => Kid(t, k, 1).type # "POINTER"

AllHere(t, rec) == \A k \in {j \in DOMAIN t : t[j].kind \in EXTERN} :
                     rec.value[[kind |-> t[k].kind, id |-> t[k].id]] # <<>>

\* An expression that kr_calc_check accepts once its identifiers have their
\* types never fails for a record that has all the values it asks for.
CheckSound ==
    (calc # <<>> /\ outcome # <<>>) =>
      LET t == calc[1].tree
      IN  (Typed(t) /\ Check(t) /\ AllHere(t, outcome[1].record)) => outcome[1].ret = 0
=============================================================================
