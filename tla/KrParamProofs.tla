---------------------------- MODULE KrParamProofs ---------------------------
(***************************************************************************)
(* Proofs about KrParam, for any number of workers, kinds and loads; and   *)
(* about KrCalc, which evaluates the expressions that the parameters hold, *)
(* for any texts and any records.                                          *)
(*                                                                         *)
(* ActiveComplete rests on LoadInv: loads do not overlap, the one that is  *)
(* going on fills the standby section, and the kinds it has done hold it.  *)
(* DefsStable and LoadInForce need in addition that the load times tell    *)
(* the loads apart (TimeInv) and what a worker that has settled on a       *)
(* section may rely on (RequestInv).                                       *)
(*                                                                         *)
(* EvalExact and CheckSound rest on CalcInv: the tree stays one of its     *)
(* text, whatever evaluations leave in it, so that the walk over it visits *)
(* each node after its children (Course, TreeMeans, TreePasses).           *)
(***************************************************************************)
EXTENDS KrParam, KrCalc, KrListProofs

\* The loops over the kinds begin at the first one.
AtFirst == \A w \in Workers : pc[w] \in {"idle", "handle", "switch"} => at[w] = 1

\* The kinds that the load of worker w has filled.
Filled(w, k) ==
  \/ pc[w] = "switch"
  \/ pc[w] \in {"clear", "fill"} /\ k < at[w]

Solo == \A v, w \in Workers : Loading(v) /\ Loading(w) => v = w

Apart == \A w \in Workers : Loading(w) => sec[w] = Other(nSecId)

FilledHolds ==
  \A w \in Workers : \A k \in Kinds : Filled(w, k) => shm[sec[w]][k].ver = load[w]

ActiveHolds == \A k \in Kinds : shm[nSecId][k].ver = inForce

LoadInv == Solo /\ Apart /\ FilledHolds /\ ActiveHolds

\* The standby section is newer, kind by kind, as far as it is filled.
FilledNewer ==
  \A w \in Workers : \A k \in Kinds : Filled(w, k) =>
    /\ shm[nSecId][k].time < shm[sec[w]][k].time
    /\ shm[sec[w]][k].time <= now

ActiveTime == \A k \in Kinds : shm[nSecId][k].time <= now

\* Table k of worker v and section s agree.
Agrees(v, k, s) == dym[v][k].sec = s /\ dym[v][k].ver = shm[s][k].ver

\* No table is newer than the active section, and one of the same time was
\* compiled from it.
TableTime ==
  \A v \in Workers : \A k \in Kinds :
    /\ dym[v][k].time <= shm[nSecId][k].time
    /\ dym[v][k].time = shm[nSecId][k].time => Agrees(v, k, nSecId)

TimeInv == FilledNewer /\ ActiveTime /\ TableTime

\* What a worker may rely on from the moment it has settled on a section.
Settled(v) ==
  /\ \A w \in Workers : Loading(w) => sec[w] # sec[v]
  /\ \A k \in Kinds : shm[sec[v]][k].ver = since[v]
  /\ sec[v] # nSecId => \A k \in Kinds : shm[sec[v]][k].time < shm[nSecId][k].time
  /\ \A k \in Kinds : dym[v][k].time = shm[sec[v]][k].time => Agrees(v, k, sec[v])
  /\ \A k \in Kinds : pc[v] = "handle" \/ k < at[v] => Agrees(v, k, sec[v])

RequestInv == \A v \in Workers : InRequest(v) => Settled(v)

IInv ==
  /\ TypeOK
  /\ AtFirst
  /\ ~ overrun => LoadInv
  /\ Spaced => TimeInv /\ RequestInv

-----------------------------------------------------------------------------
\* kr_shm_switch goes back and forth between the two sections.
LEMMA OtherSection ==
  /\ Other(0) = 1
  /\ Other(1) = 0
  /\ \A s \in Sections : Other(s) \in Sections /\ Other(s) # s /\ Other(Other(s)) = s
<1>1. Other(0) = 1 /\ Other(1) = 0
  BY DEF Other
<1> QED
  BY <1>1 DEF Sections

\* The ranges that the steps write into shm and at.
LEMMA Ranges ==
  ASSUME TypeOK
  PROVE  /\ Empty \in 0 .. Broken
         /\ Broken \in 0 .. Broken
         /\ 1 .. MaxLoads \subseteq 0 .. Broken
         /\ 0 \in 0 .. MaxTime
         /\ now \in 0 .. MaxTime
         /\ 1 \in Kinds
         /\ \A k \in Kinds : k # NKinds => k + 1 \in Kinds
BY ParamAssumption DEF TypeOK, Kinds, Broken, Empty

\* A step of a loop over the kinds stays inside the loop.
LEMMA AdvanceType ==
  ASSUME TypeOK, NEW w \in Workers, NEW again, NEW done, Advance(w, again, done)
  PROVE  at' \in [Workers -> Kinds]
BY Ranges DEF TypeOK, Advance

\* The types of KrParam are kept by each step of the code.
LEMMA TypeStep == TypeOK /\ [Next]_vars => TypeOK'
<1> SUFFICES ASSUME TypeOK, [Next]_vars
             PROVE  TypeOK'
  OBVIOUS
<1>1. CASE Tick
  <2>1. now' \in 1 .. MaxTime
    BY <1>1, ParamAssumption DEF Tick, TypeOK
  <2> QED
    BY <1>1, <2>1 DEF Tick, TypeOK, history
<1>2. ASSUME NEW w \in Workers, CheckStep(w)
      PROVE  TypeOK'
  <2>1. CASE Begin(w)
    BY <2>1 DEF Begin, TypeOK, shmVars
  <2>2. CASE KeepTable(w)
    <3>1. at' \in [Workers -> Kinds]
      BY <2>2, AdvanceType DEF KeepTable
    <3> QED
      BY <2>2, <3>1 DEF KeepTable, Advance, TypeOK, shmVars, history
  <2>3. CASE RebuildTable(w)
    <3>1. at' \in [Workers -> Kinds]
      BY <2>3, AdvanceType DEF RebuildTable
    <3>2. shm[sec[w]][at[w]] \in [ver : 0 .. Broken, time : 0 .. MaxTime]
      BY DEF TypeOK
    <3>3. dym' \in [Workers -> [Kinds -> [sec : Sections, ver : 0 .. Broken, time : 0 .. MaxTime]]]
      BY <2>3, <3>2 DEF RebuildTable, Checked, Source, TypeOK
    <3> QED
      BY <2>3, <3>1, <3>3 DEF RebuildTable, Advance, TypeOK, shmVars, history
  <2>4. CASE RebuildFails(w)
    BY <2>4, Ranges DEF RebuildFails, Leave, TypeOK, shmVars, history
  <2>5. CASE Handle(w)
    BY <2>5, Ranges DEF Handle, Leave, TypeOK, shmVars, history
  <2> QED
    BY <1>2, <2>1, <2>2, <2>3, <2>4, <2>5 DEF CheckStep
<1>3. ASSUME NEW w \in Workers, LoadStep(w)
      PROVE  TypeOK'
  <2>1. CASE StartLoad(w)
    <3>1. BackSection \in Sections
      BY OtherSection DEF BackSection, TypeOK
    <3>2. loads + 1 \in 1 .. MaxLoads
      BY <2>1, ParamAssumption DEF StartLoad, TypeOK
    <3> QED
      BY <2>1, <3>1, <3>2 DEF StartLoad, TypeOK, shmVars
  <2>2. CASE Clear(w)
    BY <2>2, Ranges DEF Clear, TypeOK, history
  <2>3. CASE Fill(w)
    <3>1. at' \in [Workers -> Kinds]
      BY <2>3, AdvanceType DEF Fill
    <3>2. load[w] \in 0 .. Broken
      BY Ranges DEF TypeOK
    <3> QED
      BY <2>3, <3>1, <3>2, Ranges DEF Fill, Advance, TypeOK
  <2>4. CASE FillFails(w)
    BY <2>4, Ranges DEF FillFails, Leave, TypeOK, history
  <2>5. CASE Switch(w)
    BY <2>5, OtherSection, Ranges DEF Switch, Leave, TypeOK
  <2> QED
    BY <1>3, <2>1, <2>2, <2>3, <2>4, <2>5 DEF LoadStep
<1>4. CASE UNCHANGED vars
  BY <1>4 DEF TypeOK, vars, shmVars, history
<1> QED
  BY <1>1, <1>2, <1>3, <1>4 DEF Next

\* Sections, loop positions and tables stay in their ranges.
THEOREM TypeCorrect == Spec => []TypeOK
<1>1. Init => TypeOK
  BY ParamAssumption DEF Init, TypeOK, Kinds, Sections, Broken, Empty
<1> QED
  BY <1>1, TypeStep, PTL DEF Spec

-----------------------------------------------------------------------------
\* Where a worker's loop is when it moves on to another part of the code.
LEMMA AtFirstStep == TypeOK /\ AtFirst /\ [Next]_vars => AtFirst'
<1> SUFFICES ASSUME TypeOK, AtFirst, [Next]_vars
             PROVE  AtFirst'
  OBVIOUS
<1> USE DEF AtFirst, TypeOK
<1>1. CASE Tick
  BY <1>1 DEF Tick
<1>2. ASSUME NEW w \in Workers, CheckStep(w)
      PROVE  AtFirst'
  BY <1>2 DEF CheckStep, Begin, KeepTable, RebuildTable, RebuildFails, Handle, Leave, Advance
<1>3. ASSUME NEW w \in Workers, LoadStep(w)
      PROVE  AtFirst'
  BY <1>3 DEF LoadStep, StartLoad, Clear, Fill, FillFails, Switch, Leave, Advance
<1>4. CASE UNCHANGED vars
  BY <1>4 DEF vars
<1> QED
  BY <1>1, <1>2, <1>3, <1>4 DEF Next

\* The conditions of the properties are never regained.
LEMMA FlagsStay ==
  ASSUME [Next]_vars
  PROVE  /\ overrun => overrun'
         /\ sameSecond => sameSecond'
<1>1. CASE Tick
  BY <1>1 DEF Tick, history
<1>2. ASSUME NEW w \in Workers, CheckStep(w)
      PROVE  UNCHANGED <<overrun, sameSecond>>
  BY <1>2 DEF CheckStep, Begin, KeepTable, RebuildTable, RebuildFails, Handle, history
<1>3. ASSUME NEW w \in Workers, StartLoad(w)
      PROVE  (overrun => overrun') /\ sameSecond' = sameSecond
  BY <1>3, Zenon DEF StartLoad
<1>4. ASSUME NEW w \in Workers, Fill(w)
      PROVE  (sameSecond => sameSecond') /\ overrun' = overrun
  BY <1>4, Zenon DEF Fill
<1>5. ASSUME NEW w \in Workers, Clear(w) \/ FillFails(w) \/ Switch(w)
      PROVE  UNCHANGED <<overrun, sameSecond>>
  BY <1>5 DEF Clear, FillFails, Switch, history
<1>6. CASE UNCHANGED vars
  BY <1>6 DEF vars, history
<1> QED
  BY <1>1, <1>2, <1>3, <1>4, <1>5, <1>6 DEF Next, LoadStep

\* A step that leaves the memory alone, and the load of every worker that is
\* loading, keeps LoadInv.
LEMMA LoadFrame ==
  ASSUME TypeOK, LoadInv,
         UNCHANGED <<nSecId, inForce>>,
         UNCHANGED shm,
         \A w \in Workers : Loading(w)' => UNCHANGED <<pc[w], at[w], sec[w], load[w]>>
  PROVE  LoadInv'
<1>1. \A w \in Workers : \A k \in Kinds : Filled(w, k)' => Loading(w)' /\ Filled(w, k)
  BY DEF Filled, Loading
<1>2. \A w \in Workers : Loading(w)' => Loading(w)
  BY DEF Loading
<1>3. Solo'
  BY <1>2 DEF LoadInv, Solo
<1>4. Apart'
  BY <1>2 DEF LoadInv, Apart, Other
<1>5. FilledHolds'
  BY <1>1 DEF LoadInv, FilledHolds
<1>6. ActiveHolds'
  BY DEF LoadInv, ActiveHolds
<1> QED
  BY <1>3, <1>4, <1>5, <1>6 DEF LoadInv

\* Loads that do not overrun fill the standby section only, one at a time.
LEMMA LoadStepInv ==
  ASSUME TypeOK, TypeOK', AtFirst, [Next]_vars, ~ overrun', LoadInv
  PROVE  LoadInv'
<1>1. CASE Tick
  BY <1>1, LoadFrame DEF Tick, history
<1>2. ASSUME NEW w \in Workers, CheckStep(w)
      PROVE  LoadInv'
  <2>1. CASE Begin(w)
    BY <2>1, LoadFrame DEF Begin, shmVars, Loading, TypeOK
  <2>2. CASE KeepTable(w)
    BY <2>2, LoadFrame DEF KeepTable, Advance, shmVars, history, Loading, TypeOK
  <2>3. CASE RebuildTable(w)
    BY <2>3, LoadFrame DEF RebuildTable, Advance, shmVars, history, Loading, TypeOK
  <2>4. CASE RebuildFails(w)
    BY <2>4, LoadFrame DEF RebuildFails, Leave, shmVars, history, Loading, TypeOK
  <2>5. CASE Handle(w)
    BY <2>5, LoadFrame DEF Handle, Leave, shmVars, history, Loading, TypeOK
  <2> QED
    BY <1>2, <2>1, <2>2, <2>3, <2>4, <2>5 DEF CheckStep
<1>3. ASSUME NEW w \in Workers, LoadStep(w)
      PROVE  LoadInv'
  <2>1. CASE StartLoad(w)
    <3>1. \A v \in Workers : ~ Loading(v)
      BY <2>1 DEF StartLoad
    <3>2. \A v \in Workers : v # w => ~ Loading(v)'
      BY <2>1, <3>1 DEF StartLoad, Loading, TypeOK
    <3>3. at'[w] = 1 /\ pc'[w] = "clear"
      BY <2>1 DEF StartLoad, AtFirst, TypeOK
    <3>4. \A v \in Workers : \A k \in Kinds : ~ Filled(v, k)'
      BY <3>2, <3>3 DEF Filled, Loading, Kinds
    <3>5. Apart'
      BY <2>1, <3>2 DEF StartLoad, Apart, BackSection, Other, shmVars, TypeOK
    <3>6. ActiveHolds'
      BY <2>1 DEF StartLoad, LoadInv, ActiveHolds, shmVars
    <3> QED
      BY <3>2, <3>4, <3>5, <3>6 DEF LoadInv, Solo, FilledHolds
  <2>2. ASSUME Clear(w) \/ Fill(w) \/ FillFails(w)
        PROVE  LoadInv'
    <3>1. Loading(w) /\ sec[w] # nSecId /\ sec[w] \in Sections
      BY <2>2, OtherSection DEF Clear, Fill, FillFails, Loading, LoadInv, Apart, TypeOK
    <3>2. /\ UNCHANGED <<nSecId, inForce, sec, load>>
          /\ \A v \in Workers : Loading(v)' => Loading(v)
          /\ \A v \in Workers : Loading(v) => v = w
      BY <2>2, <3>1 DEF Clear, Fill, FillFails, Leave, Advance, Loading, LoadInv, Solo, history, TypeOK
    <3>3. shm'[nSecId] = shm[nSecId]
      BY <2>2, <3>1 DEF Clear, Fill, FillFails, TypeOK
    <3>4. ActiveHolds'
      BY <3>2, <3>3 DEF LoadInv, ActiveHolds
    <3>5. Solo' /\ Apart'
      BY <3>2 DEF LoadInv, Solo, Apart, Other
    <3>6. ASSUME NEW k \in Kinds, Filled(w, k)'
          PROVE  shm'[sec[w]][k].ver = load[w]
      <4>1. CASE Clear(w)
        <5>1. Filled(w, k) /\ k # at[w]
          BY <4>1, <3>6 DEF Clear, Filled, Kinds, TypeOK
        <5> QED
          BY <4>1, <5>1 DEF Clear, LoadInv, FilledHolds, TypeOK
      <4>2. CASE Fill(w)
        <5>1. k = at[w] \/ (Filled(w, k) /\ k # at[w])
          BY <4>2, <3>6 DEF Fill, Advance, Filled, Kinds, TypeOK
        <5> QED
          BY <4>2, <5>1 DEF Fill, LoadInv, FilledHolds, TypeOK
      <4>3. CASE FillFails(w)
        BY <4>3, <3>6 DEF FillFails, Leave, Filled, TypeOK
      <4> QED
        BY <2>2, <4>1, <4>2, <4>3
    <3>7. FilledHolds'
      BY <3>2, <3>6 DEF FilledHolds, Filled, Loading
    <3> QED
      BY <3>4, <3>5, <3>7 DEF LoadInv
  <2>3. CASE Switch(w)
    <3>1. Loading(w) /\ sec[w] = Other(nSecId)
      BY <2>3 DEF Switch, Loading, LoadInv, Apart
    <3>2. \A v \in Workers : ~ Loading(v)'
      BY <2>3, <3>1 DEF Switch, Leave, Loading, LoadInv, Solo, TypeOK
    <3>3. ActiveHolds'
      BY <2>3, <3>1 DEF Switch, Filled, LoadInv, FilledHolds, ActiveHolds
    <3> QED
      BY <3>2, <3>3 DEF LoadInv, Solo, Apart, FilledHolds, Filled, Loading
  <2> QED
    BY <1>3, <2>1, <2>2, <2>3 DEF LoadStep
<1>4. CASE UNCHANGED vars
  BY <1>4, LoadFrame DEF vars, shmVars, history, Loading
<1> QED
  BY <1>1, <1>2, <1>3, <1>4 DEF Next

-----------------------------------------------------------------------------
\* What the parts of the invariant need of the types.
LEMMA TimeTypes ==
  ASSUME TypeOK
  PROVE  /\ now \in Nat
         /\ \A s \in Sections, k \in Kinds : shm[s][k].time \in Nat
         /\ \A w \in Workers, k \in Kinds : dym[w][k].time \in Nat
         /\ \A w \in Workers : at[w] \in Nat
         /\ \A k \in Kinds : k \in Nat
<1>1. 0 .. MaxTime \subseteq Nat /\ 1 .. MaxTime \subseteq Nat /\ Kinds \subseteq Nat
  BY ParamAssumption DEF Kinds
<1>2. now \in Nat /\ \A w \in Workers : at[w] \in Nat
  BY <1>1 DEF TypeOK
<1>3. \A s \in Sections, k \in Kinds : shm[s][k].time \in Nat
  BY <1>1 DEF TypeOK
<1>4. \A w \in Workers, k \in Kinds : dym[w][k].time \in Nat
  BY <1>1 DEF TypeOK
<1> QED
  BY <1>1, <1>2, <1>3, <1>4

\* A step that leaves the memory and the loads alone keeps TimeInv, when the
\* tables it writes keep it.
LEMMA TimeFrame ==
  ASSUME TypeOK, TimeInv,
         UNCHANGED <<nSecId, shm, now>>,
         \A w \in Workers : Loading(w)' => UNCHANGED <<pc[w], at[w], sec[w]>>,
         TableTime'
  PROVE  TimeInv'
<1>1. \A w \in Workers : \A k \in Kinds : Filled(w, k)' => Filled(w, k) /\ sec'[w] = sec[w]
  BY DEF Filled, Loading
<1>2. FilledNewer'
  BY <1>1 DEF TimeInv, FilledNewer
<1> QED
  BY <1>2 DEF TimeInv, ActiveTime

\* The same for RequestInv: w is the worker that makes the step.
LEMMA RequestFrame ==
  ASSUME TypeOK, RequestInv, NEW w \in Workers,
         UNCHANGED <<nSecId, shm>>,
         \A v \in Workers : v # w =>
           UNCHANGED <<pc[v], at[v], sec[v], dym[v], since[v]>>,
         Loading(w)' => \A v \in Workers : v # w /\ InRequest(v) => sec'[w] # sec[v],
         InRequest(w)' => Settled(w)'
  PROVE  RequestInv'
<1> SUFFICES ASSUME NEW v \in Workers, InRequest(v)', v # w
             PROVE  Settled(v)'
  BY DEF RequestInv
<1>1. InRequest(v) /\ Settled(v)
  BY DEF RequestInv, InRequest
<1>2. \A u \in Workers : Loading(u)' => sec'[u] # sec'[v]
  BY <1>1 DEF Settled, Loading
<1> QED
  BY <1>1, <1>2 DEF Settled, Agrees

\* A request settles on the active section.
LEMMA BeginOK ==
  ASSUME TypeOK, AtFirst, LoadInv, TimeInv, RequestInv, NEW w \in Workers, Begin(w)
  PROVE  TimeInv' /\ RequestInv'
<1> USE DEF TypeOK
<1>1. TableTime'
  BY DEF Begin, shmVars, TimeInv, TableTime, Agrees
<1>2. TimeInv'
  BY <1>1, TimeFrame DEF Begin, shmVars, Loading
<1>3. /\ pc'[w] = "check" /\ at'[w] = 1 /\ sec'[w] = nSecId /\ since'[w] = inForce
      /\ UNCHANGED <<nSecId, shm, dym>>
  BY DEF Begin, shmVars, AtFirst
<1>4. \A v \in Workers : Loading(v)' => sec'[v] # nSecId
  BY OtherSection DEF Begin, Loading, LoadInv, Apart
<1>5. \A k \in Kinds : ~ (k < 1)
  BY DEF Kinds
<1>6. Settled(w)'
  BY <1>3, <1>4, <1>5 DEF Settled, Agrees, LoadInv, ActiveHolds, TimeInv, TableTime
<1> QED
  BY <1>2, <1>6, RequestFrame DEF Begin, shmVars, Loading

\* A table that is kept is of the section the request has settled on.
LEMMA KeepOK ==
  ASSUME TypeOK, AtFirst, LoadInv, TimeInv, RequestInv, NEW w \in Workers, KeepTable(w)
  PROVE  TimeInv' /\ RequestInv'
<1> USE DEF TypeOK
<1>1. TableTime'
  BY DEF KeepTable, shmVars, TimeInv, TableTime, Agrees
<1>2. TimeInv'
  BY <1>1, TimeFrame DEF KeepTable, Advance, shmVars, Loading
<1>3. Settled(w) /\ at[w] \in Kinds
  BY DEF RequestInv, InRequest, KeepTable
<1>4. UNCHANGED <<nSecId, shm, sec, dym, since>>
  BY DEF KeepTable, shmVars, history
<1>5. Agrees(w, at[w], sec[w])
  BY <1>3 DEF KeepTable, Outdated, Source, Checked, Settled
<1>6. \A k \in Kinds : pc'[w] = "handle" \/ k < at'[w] => k = at[w] \/ k < at[w]
  BY <1>3 DEF KeepTable, Advance, Kinds
<1>7. \A v \in Workers : Loading(v)' => Loading(v)
  BY DEF KeepTable, Advance, Loading
<1>8. Settled(w)'
  BY <1>3, <1>4, <1>5, <1>6, <1>7 DEF Settled, Agrees
<1> QED
  BY <1>2, <1>8, RequestFrame DEF KeepTable, Advance, shmVars, history, Loading

\* A table that is rebuilt is of that section, too.
LEMMA RebuildOK ==
  ASSUME TypeOK, AtFirst, LoadInv, TimeInv, RequestInv, NEW w \in Workers, RebuildTable(w)
  PROVE  TimeInv' /\ RequestInv'
<1> USE DEF TypeOK
<1>1. Settled(w) /\ at[w] \in Kinds /\ sec[w] \in Sections
  BY DEF RequestInv, InRequest, RebuildTable
<1>2. /\ UNCHANGED <<nSecId, shm, now, sec, since>>
      /\ dym'[w][at[w]].sec = sec[w]
      /\ dym'[w][at[w]].ver = shm[sec[w]][at[w]].ver
      /\ dym'[w][at[w]].time = shm[sec[w]][at[w]].time
  BY <1>1 DEF RebuildTable, Checked, Source, shmVars, history
<1>3. \A v \in Workers, k \in Kinds : v # w \/ k # at[w] => dym'[v][k] = dym[v][k]
  BY DEF RebuildTable
<1>4. TableTime'
  <2>1. /\ shm[sec[w]][at[w]].time <= shm[nSecId][at[w]].time
        /\ shm[sec[w]][at[w]].time = shm[nSecId][at[w]].time => sec[w] = nSecId
    BY <1>1, TimeTypes DEF Settled
  <2> SUFFICES ASSUME NEW v \in Workers, NEW k \in Kinds
               PROVE  /\ dym'[v][k].time <= shm[nSecId][k].time
                      /\ dym'[v][k].time = shm[nSecId][k].time => Agrees(v, k, nSecId)'
    BY <1>2 DEF TableTime, Agrees
  <2>2. CASE v = w /\ k = at[w]
    BY <1>2, <2>1, <2>2 DEF Agrees
  <2>3. CASE v # w \/ k # at[w]
    BY <1>2, <1>3, <2>3 DEF TimeInv, TableTime, Agrees
  <2> QED
    BY <2>2, <2>3
<1>5. TimeInv'
  BY <1>4, TimeFrame DEF RebuildTable, Advance, shmVars, Loading
<1>6. \A k \in Kinds : pc'[w] = "handle" \/ k < at'[w] => k = at[w] \/ k < at[w]
  <2>1. CASE at[w] = NKinds
    BY <2>1, ParamAssumption DEF Kinds
  <2>2. CASE at[w] # NKinds
    <3>1. at'[w] = at[w] + 1 /\ pc'[w] = "check"
      BY <2>2 DEF RebuildTable, Advance
    <3> QED
      BY <1>1, <3>1 DEF Kinds
  <2> QED
    BY <2>1, <2>2
<1>7. \A v \in Workers : Loading(v)' => Loading(v)
  BY DEF RebuildTable, Advance, Loading
<1>8. Settled(w)'
  <2>1. \A k \in Kinds : dym'[w][k].time = shm[sec[w]][k].time => Agrees(w, k, sec[w])'
    BY <1>1, <1>2, <1>3 DEF Settled, Agrees
  <2>2. \A k \in Kinds : k = at[w] \/ k < at[w] => Agrees(w, k, sec[w])'
    BY <1>1, <1>2, <1>3 DEF Settled, Agrees
  <2> QED
    BY <1>1, <1>2, <1>6, <1>7, <2>1, <2>2 DEF Settled
<1>9. \A v \in Workers : v # w => UNCHANGED <<pc[v], at[v], sec[v], dym[v], since[v]>>
  BY DEF RebuildTable, Advance, history
<1> QED
  BY <1>2, <1>5, <1>8, <1>9, RequestFrame DEF RebuildTable, Advance, Loading

\* A request that ends gives up its section.
LEMMA LeaveOK ==
  ASSUME TypeOK, AtFirst, LoadInv, TimeInv, RequestInv, NEW w \in Workers,
         RebuildFails(w) \/ Handle(w)
  PROVE  TimeInv' /\ RequestInv'
<1> USE DEF TypeOK
<1>1. /\ UNCHANGED <<nSecId, shm, now, sec, dym, since>>
      /\ pc'[w] = "idle"
      /\ \A v \in Workers : v # w => UNCHANGED <<pc[v], at[v]>>
  BY DEF RebuildFails, Handle, Leave, shmVars, history
<1>2. TableTime'
  BY <1>1 DEF TimeInv, TableTime, Agrees
<1>3. TimeInv'
  BY <1>1, <1>2, TimeFrame DEF Loading
<1> QED
  BY <1>1, <1>3, RequestFrame DEF Loading, InRequest

\* A load begins on a section that no request has settled on.
LEMMA StartLoadOK ==
  ASSUME TypeOK, AtFirst, ~ overrun', LoadInv, TimeInv, RequestInv,
         NEW w \in Workers, StartLoad(w)
  PROVE  TimeInv' /\ RequestInv'
<1> USE DEF TypeOK
<1>1. ~ InUse(BackSection, w) /\ \A v \in Workers : ~ Loading(v)
  BY DEF StartLoad
<1>2. /\ UNCHANGED <<nSecId, shm, now, dym, since, at>>
      /\ at[w] = 1 /\ pc'[w] = "clear" /\ sec'[w] = BackSection
      /\ \A v \in Workers : v # w => UNCHANGED <<pc[v], sec[v]>>
  BY DEF StartLoad, shmVars, AtFirst
<1>3. \A v \in Workers : \A k \in Kinds : ~ Filled(v, k)'
  <2>1. \A v \in Workers : v # w => ~ Loading(v)'
    BY <1>1, <1>2 DEF Loading
  <2>2. at'[w] = 1 /\ pc'[w] = "clear"
    BY <1>2
  <2> HIDE DEF TypeOK
  <2> QED
    BY <2>1, <2>2 DEF Filled, Loading, Kinds
<1>4. TableTime'
  BY <1>2 DEF TimeInv, TableTime, Agrees
<1>5. TimeInv'
  BY <1>2, <1>3, <1>4 DEF TimeInv, FilledNewer, ActiveTime
<1>6. \A v \in Workers : v # w /\ InRequest(v) => sec'[w] # sec[v]
  BY <1>1, <1>2 DEF InUse
<1> QED
  BY <1>2, <1>5, <1>6, RequestFrame DEF InRequest

\* The steps of a load change the standby section only, where no request is.
LEMMA FillOK ==
  ASSUME TypeOK, TypeOK', AtFirst, LoadInv, TimeInv, RequestInv, ~ sameSecond',
         NEW w \in Workers, Clear(w) \/ Fill(w) \/ FillFails(w)
  PROVE  TimeInv' /\ RequestInv'
<1> USE DEF TypeOK
<1>1. Loading(w) /\ sec[w] # nSecId /\ sec[w] \in Sections
  BY OtherSection DEF Clear, Fill, FillFails, Loading, LoadInv, Apart
<1>2. /\ UNCHANGED <<nSecId, now, sec, dym, since>>
      /\ \A v \in Workers : Loading(v) => v = w
      /\ \A v \in Workers : v # w => UNCHANGED <<pc[v], at[v]>>
      /\ ~ InRequest(w)'
  BY <1>1 DEF Clear, Fill, FillFails, Leave, Advance, Loading, InRequest, LoadInv, Solo, history
<1>3. \A s \in Sections : s # sec[w] => shm'[s] = shm[s]
  BY DEF Clear, Fill, FillFails
<1>4. ASSUME NEW k \in Kinds, Filled(w, k)'
      PROVE  /\ shm[nSecId][k].time < shm'[sec[w]][k].time
             /\ shm'[sec[w]][k].time <= now
  <2>1. CASE Clear(w)
    <3>1. Filled(w, k) /\ k # at[w]
      BY <2>1, <1>4 DEF Clear, Filled, Kinds
    <3>2. shm'[sec[w]][k] = shm[sec[w]][k]
      BY <2>1, <3>1 DEF Clear
    <3> QED
      BY <3>1, <3>2 DEF TimeInv, FilledNewer
  <2>2. CASE Fill(w)
    <3>1. CASE k = at[w]
      <4>1. shm'[sec[w]][k].time = now
        BY <1>1, <2>2, <3>1 DEF Fill
      <4>2. shm[nSecId][k].time # now
        BY <2>2, <3>1 DEF Fill
      <4>3. shm[nSecId][k].time <= now
        BY DEF TimeInv, ActiveTime
      <4> QED
        BY <4>1, <4>2, <4>3, TimeTypes
    <3>2. CASE k # at[w]
      <4>1. Filled(w, k)
        BY <2>2, <1>4, <3>2 DEF Fill, Advance, Filled, Kinds
      <4>2. shm'[sec[w]][k] = shm[sec[w]][k]
        BY <2>2, <3>2 DEF Fill
      <4> QED
        BY <4>1, <4>2 DEF TimeInv, FilledNewer
    <3> QED
      BY <3>1, <3>2
  <2>3. CASE FillFails(w)
    BY <2>3, <1>4 DEF FillFails, Leave, Filled
  <2> QED
    BY <2>1, <2>2, <2>3
<1>5. \A v \in Workers : \A k \in Kinds : Filled(v, k)' => v = w
  BY <1>2 DEF Filled, Loading
<1>6. FilledNewer'
  BY <1>1, <1>2, <1>3, <1>4, <1>5 DEF FilledNewer
<1>7. ActiveTime' /\ TableTime'
  BY <1>1, <1>2, <1>3, SMTT(40) DEF TimeInv, ActiveTime, TableTime, Agrees
<1>8. ASSUME NEW v \in Workers, InRequest(v)'
      PROVE  Settled(v)'
  <2>1. v # w /\ InRequest(v) /\ Settled(v)
    BY <1>2, <1>8 DEF InRequest, RequestInv
  <2>2. sec[v] # sec[w] /\ sec[v] \in Sections
    BY <1>1, <2>1 DEF Settled
  <2>3. UNCHANGED <<pc[v], at[v], dym[v], sec[v], since[v], shm[sec[v]], shm[nSecId]>>
    BY <1>1, <1>2, <1>3, <2>1, <2>2
  <2>4. \A u \in Workers : Loading(u)' => sec'[u] # sec'[v]
    BY <1>2, <2>1, <2>2 DEF Loading
  <2> QED
    BY <1>2, <2>1, <2>3, <2>4 DEF Settled, Agrees
<1> QED
  BY <1>6, <1>7, <1>8 DEF TimeInv, RequestInv

\* After the switch the active section is newer than every table.
LEMMA SwitchOK ==
  ASSUME TypeOK, AtFirst, LoadInv, TimeInv, RequestInv, NEW w \in Workers, Switch(w)
  PROVE  TimeInv' /\ RequestInv'
<1> USE DEF TypeOK
<1>1. /\ Loading(w) /\ sec[w] = Other(nSecId) /\ nSecId' = sec[w]
      /\ sec[w] \in Sections /\ sec[w] # nSecId
      /\ \A k \in Kinds : Filled(w, k)
  BY OtherSection DEF Switch, Loading, Filled, LoadInv, Apart
<1>2. UNCHANGED <<shm, now, sec, dym, since>>
  BY DEF Switch
<1>3. \A v \in Workers : ~ Loading(v)'
  BY <1>1 DEF Switch, Leave, Loading, LoadInv, Solo
<1>4. \A k \in Kinds : /\ shm[nSecId][k].time < shm[sec[w]][k].time
                       /\ shm[sec[w]][k].time <= now
  BY <1>1 DEF TimeInv, FilledNewer
<1>5. \A v \in Workers : \A k \in Kinds : dym[v][k].time < shm[sec[w]][k].time
  BY <1>4, TimeTypes DEF TimeInv, TableTime
<1>6. TimeInv'
  <2>1. FilledNewer'
    BY <1>3 DEF FilledNewer, Filled, Loading
  <2>2. ActiveTime'
    BY <1>1, <1>2, <1>4 DEF ActiveTime
  <2>3. TableTime'
    BY <1>1, <1>2, <1>5, TimeTypes DEF TableTime
  <2> QED
    BY <2>1, <2>2, <2>3 DEF TimeInv
<1>7. ASSUME NEW v \in Workers, InRequest(v)'
      PROVE  Settled(v)'
  <2>1. v # w /\ InRequest(v) /\ Settled(v) /\ UNCHANGED <<pc[v], at[v]>>
    BY <1>7 DEF Switch, Leave, InRequest, RequestInv
  <2>2. sec[v] = nSecId
    BY <1>1, <2>1, OtherSection DEF Settled, Sections
  <2> QED
    BY <1>1, <1>2, <1>3, <1>4, <2>1, <2>2 DEF Settled, Agrees
<1> QED
  BY <1>6, <1>7 DEF RequestInv

\* The passing of time, and steps of other parts, change nothing here.
LEMMA IdleOK ==
  ASSUME TypeOK, TimeInv, RequestInv, Tick \/ UNCHANGED vars
  PROVE  TimeInv' /\ RequestInv'
<1>1. /\ UNCHANGED <<nSecId, shm, pc, at, sec, dym, since>>
      /\ now' \in Nat /\ now <= now'
  BY TimeTypes DEF Tick, vars, shmVars, history
<1>2. ActiveTime'
  BY <1>1, TimeTypes DEF TimeInv, ActiveTime, TypeOK
<1>3. FilledNewer'
  <2> SUFFICES ASSUME NEW v \in Workers, NEW k \in Kinds, Filled(v, k)
               PROVE  /\ shm[nSecId][k].time < shm[sec[v]][k].time
                      /\ shm[sec[v]][k].time <= now'
    BY <1>1 DEF FilledNewer, Filled
  <2>1. /\ shm[nSecId][k].time < shm[sec[v]][k].time
        /\ shm[sec[v]][k].time <= now
    BY DEF TimeInv, FilledNewer
  <2>2. sec[v] \in Sections
    BY DEF TypeOK
  <2> QED
    BY <1>1, <2>1, <2>2, TimeTypes
<1>4. TableTime'
  BY <1>1 DEF TimeInv, TableTime, Agrees
<1>5. RequestInv'
  BY <1>1 DEF RequestInv, InRequest, Settled, Loading, Agrees
<1> QED
  BY <1>2, <1>3, <1>4, <1>5 DEF TimeInv

-----------------------------------------------------------------------------
\* The state after kr_shm_create and kr_dym_construct.
LEMMA ParamInit == Init => IInv
<1> SUFFICES ASSUME Init
             PROVE  IInv
  OBVIOUS
<1>1. TypeOK
  BY ParamAssumption DEF Init, TypeOK, Kinds, Sections, Broken, Empty
<1>2. \A w \in Workers : pc[w] = "idle" /\ at[w] = 1
  BY DEF Init
<1>3. \A w \in Workers : ~ Loading(w) /\ ~ InRequest(w) /\ \A k \in Kinds : ~ Filled(w, k)
  BY <1>2 DEF Loading, InRequest, Filled
<1>4. \A k \in Kinds : shm[nSecId][k].ver = 1 /\ shm[nSecId][k].time = 1
  BY DEF Init, Sections
<1>5. \A w \in Workers, k \in Kinds :
        dym[w][k].sec = 1 /\ dym[w][k].ver = 1 /\ dym[w][k].time = 1
  BY DEF Init
<1>6. LoadInv
  BY <1>3, <1>4 DEF Init, LoadInv, Solo, Apart, FilledHolds, ActiveHolds
<1>7. TimeInv
  <2>1. now = 1 /\ nSecId = 1
    BY DEF Init
  <2>2. FilledNewer
    BY <1>3 DEF FilledNewer
  <2>3. ActiveTime
    BY <1>4, <2>1 DEF ActiveTime
  <2>4. TableTime
    BY <1>4, <1>5, <2>1 DEF TableTime, Agrees
  <2> QED
    BY <2>2, <2>3, <2>4 DEF TimeInv
<1>8. RequestInv
  BY <1>3 DEF RequestInv
<1> QED
  BY <1>1, <1>2, <1>6, <1>7, <1>8 DEF IInv, AtFirst

\* Every step of every worker keeps the invariant.
LEMMA ParamStep == IInv /\ [Next]_vars => IInv'
<1> SUFFICES ASSUME IInv, [Next]_vars
             PROVE  IInv'
  OBVIOUS
<1>1. TypeOK /\ TypeOK' /\ AtFirst /\ AtFirst'
  BY TypeStep, AtFirstStep DEF IInv
<1>2. ~ overrun' => LoadInv /\ LoadInv'
  BY <1>1, FlagsStay, LoadStepInv DEF IInv
<1>3. ASSUME Spaced'
      PROVE  TimeInv' /\ RequestInv'
  <2>1. ~ overrun' /\ ~ sameSecond' /\ Spaced
    BY <1>3, FlagsStay DEF Spaced
  <2>2. LoadInv /\ TimeInv /\ RequestInv
    BY <1>2, <2>1 DEF IInv
  <2>3. CASE Tick \/ UNCHANGED vars
    BY <1>1, <2>2, <2>3, IdleOK
  <2>4. ASSUME NEW w \in Workers, CheckStep(w)
        PROVE  TimeInv' /\ RequestInv'
    BY <1>1, <2>2, <2>4, BeginOK, KeepOK, RebuildOK, LeaveOK DEF CheckStep
  <2>5. ASSUME NEW w \in Workers, LoadStep(w)
        PROVE  TimeInv' /\ RequestInv'
    BY <1>1, <2>1, <2>2, <2>5, StartLoadOK, FillOK, SwitchOK DEF LoadStep
  <2> QED
    BY <2>3, <2>4, <2>5 DEF Next
<1> QED
  BY <1>1, <1>2, <1>3 DEF IInv

\* The invariant of the parameters: loads, times and requests.
THEOREM ParamInvariant == Spec => []IInv
BY ParamInit, ParamStep, PTL DEF Spec

\* The active section is always one whole load, the last that succeeded.
THEOREM ActiveIsComplete == Spec => []ActiveComplete
<1>1. IInv => ActiveComplete
  BY DEF IInv, LoadInv, ActiveHolds, ActiveComplete
<1> QED
  BY <1>1, ParamInvariant, PTL

\* Nothing changes under a request while the loads are spaced.
THEOREM DefinitionsStable == Spec => []DefsStable
<1>1. IInv => DefsStable
  BY DEF IInv, RequestInv, InRequest, Settled, Agrees, DefsStable, ReadOnlyInThread
<1> QED
  BY <1>1, ParamInvariant, PTL

\* A request is handled with the load in force when it began, and with no
\* other.
THEOREM RequestsUseLoadInForce == Spec => []LoadInForce
<1>1. IInv => LoadInForce
  BY DEF IInv, RequestInv, InRequest, Settled, Agrees, LoadInForce
<1> QED
  BY <1>1, ParamInvariant, PTL

-----------------------------------------------------------------------------
(* The nodes of a tree and the elements they come from.                    *)

Parts == {"kind", "op", "id", "type", "set", "value", "child"}

CONST == {"INT", "FLOAT", "STRING", "MINT", "MFLOAT", "MSTRING", "REGEX"}

\* n is a node of the element e: operators have a type for good, constants
\* a type and a value.
IsNode(n, e) ==
  /\ DOMAIN n = Parts
  /\ \/ e.op \in ARITH /\ n.kind = "ARITH" /\ n.op = e.op /\ n.child = e.child /\ n.type = "DOUBLE"
     \/ e.op \in LOGIC /\ n.kind = "LOGIC" /\ n.op = e.op /\ n.child = e.child /\ n.type = "BOOL"
     \/ e.op \in REL /\ n.kind = "REL" /\ n.op = e.op /\ n.child = e.child /\ n.type = "BOOL"
     \/ /\ e.op = "NONE" /\ e.kind \in EXTERN
        /\ n.kind = e.kind /\ n.op = "NONE" /\ n.child = <<>> /\ n.id = e.value
     \/ /\ e.op = "NONE" /\ e.kind \in CONST
        /\ n.kind = e.kind /\ n.op = "NONE" /\ n.child = <<>>
        /\ n.set = TRUE /\ n.type = Constant(e).type /\ n.value = Constant(e).v

\* t is a tree of the text f.
IsTree(t, f) ==
  /\ Len(t) = Len(f) /\ t = [k \in 1 .. Len(f) |-> t[k]]
  /\ \A k \in 1 .. Len(f) : IsNode(t[k], f[k])

\* m is n after an evaluation, which writes the type, the mark and the value.
Keeps(m, n) ==
  DOMAIN m = Parts /\ m.kind = n.kind /\ m.op = n.op /\ m.id = n.id /\ m.child = n.child

\* The kinds and the operators are different strings.
LEMMA KindsApart ==
  /\ \A x \in ARITH : x # "NONE" /\ x \notin LOGIC /\ x \notin REL
  /\ \A x \in LOGIC : x # "NONE" /\ x \notin ARITH /\ x \notin REL
  /\ \A x \in REL : x # "NONE" /\ x \notin ARITH /\ x \notin LOGIC
  /\ \A x \in EXTERN : x \notin CONST /\ x \notin {"ARITH", "LOGIC", "REL", "REGEX"}
  /\ \A x \in CONST : x \notin EXTERN /\ x \notin {"ARITH", "LOGIC", "REL"}
  /\ \A x \in MULTI : x \in EXTERN \cup CONST /\ x # "REGEX"
  /\ "REGEX" \in CONST
BY DEF EXTERN, CONST, ARITH, LOGIC, COMPARE, REL, MULTI

\* The nodes of operators, of identifiers and of constants.
LEMMA NodeParts ==
  ASSUME NEW n, NEW e, IsNode(n, e)
  PROVE  /\ e.op \in ARITH => n.kind = "ARITH" /\ n.op = e.op /\ n.child = e.child /\ n.type = "DOUBLE"
         /\ e.op \in LOGIC => n.kind = "LOGIC" /\ n.op = e.op /\ n.child = e.child /\ n.type = "BOOL"
         /\ e.op \in REL => n.kind = "REL" /\ n.op = e.op /\ n.child = e.child /\ n.type = "BOOL"
         /\ e.op = "NONE" => e.kind \in EXTERN \cup CONST /\ n.kind = e.kind /\ n.op = "NONE" /\ n.child = <<>>
         /\ e.op = "NONE" /\ e.kind \in EXTERN => n.id = e.value
         /\ e.op = "NONE" /\ e.kind \in CONST =>
              n.set = TRUE /\ n.type = Constant(e).type /\ n.value = Constant(e).v
         /\ e.op \in ARITH \cup LOGIC \cup REL \cup {"NONE"}
         /\ DOMAIN n = Parts
BY KindsApart DEF IsNode

\* A failure, and a value, leave the same node.
LEMMA FailsLeaves ==
  ASSUME NEW n, DOMAIN n = Parts
  PROVE  /\ Fails(n).ret = -1 /\ Keeps(Fails(n).node, n)
         /\ Fails(n).node.type = n.type /\ Fails(n).node.set = FALSE
<1>1. LET m == [n EXCEPT !.set = FALSE]
      IN  Keeps(m, n) /\ m.type = n.type /\ m.set = FALSE
  BY DEF Keeps, Parts
<1> QED
  BY <1>1 DEF Fails

LEMMA YieldsLeaves ==
  ASSUME NEW n, DOMAIN n = Parts, NEW v
  PROVE  /\ Yields(n, v).ret = 0 /\ Keeps(Yields(n, v).node, n)
         /\ Yields(n, v).node.type = n.type /\ Yields(n, v).node.set = TRUE
         /\ Yields(n, v).node.value = v
<1>1. LET m == [n EXCEPT !.set = TRUE, !.value = v]
      IN  Keeps(m, n) /\ m.type = n.type /\ m.set = TRUE /\ m.value = v
  BY DEF Keeps, Parts
<1> QED
  BY <1>1 DEF Yields

\* What the parser makes of an element.
LEMMA Parsed ==
  ASSUME NEW e, ParseNode(e) # <<>>
  PROVE  IsNode(ParseNode(e)[1], e)
<1>1. CASE e.op # "NONE"
  BY <1>1 DEF ParseNode, ParseExp, NewNode, IsNode, Parts, ARITH, LOGIC, COMPARE, REL
<1>2. CASE e.op = "NONE" /\ e.kind \in EXTERN
  BY <1>2 DEF ParseNode, ParseEle, NewNode, IsNode, Parts, EXTERN
<1>3. CASE e.op = "NONE" /\ e.kind \in CONST
  <2>2. \E type, v : ParseEle(e) = ConstNode(e, type, v) /\ Constant(e) = Value(type, v)
    <3>1. CASE e.kind = "INT"
      BY <3>1 DEF ParseEle, Constant, EXTERN
    <3>2. CASE e.kind = "FLOAT"
      BY <3>2 DEF ParseEle, Constant, EXTERN
    <3>3. CASE e.kind = "STRING"
      BY <3>3 DEF ParseEle, Constant, EXTERN
    <3>4. CASE e.kind \in {"MINT", "MFLOAT", "MSTRING", "REGEX"}
      <4>1. ParseEle(e) = ConstNode(e, "POINTER", e.value)
        BY <3>4 DEF ParseEle, EXTERN
      <4>2. Constant(e) = Value("POINTER", e.value)
        BY <3>4 DEF Constant
      <4> QED
        BY <4>1, <4>2
    <3> QED
      BY <1>3, <3>1, <3>2, <3>3, <3>4 DEF CONST
  <2>3. IsNode(ParseEle(e)[1], e)
    <3>1. PICK type, v : ParseEle(e) = ConstNode(e, type, v) /\ Constant(e) = Value(type, v)
      BY <2>2
    <3>2. Constant(e).type = type /\ Constant(e).v = v
      BY <3>1 DEF Value
    <3> DEFINE m == ConstNode(e, type, v)[1]
    <3>3. /\ DOMAIN m = Parts /\ m.kind = e.kind /\ m.op = "NONE" /\ m.child = <<>>
          /\ m.set = TRUE /\ m.type = type /\ m.value = v
      BY DEF ConstNode, NewNode, Parts
    <3>4. ParseEle(e)[1] = m
      BY <3>1
    <3> HIDE DEF m
    <3>5. IsNode(m, e)
      BY <1>3, <3>2, <3>3 DEF IsNode
    <3> QED
      BY <3>4, <3>5
  <2>4. ParseNode(e) = ParseEle(e)
    BY <1>3 DEF ParseNode
  <2> QED
    BY <2>3, <2>4
<1>4. CASE e.op = "NONE" /\ e.kind \notin EXTERN \cup CONST
  BY <1>4 DEF ParseNode, ParseEle, EXTERN, CONST
<1> QED
  BY <1>1, <1>2, <1>3, <1>4

\* What an evaluation leaves of a node is a node.
LEMMA StaysNode ==
  ASSUME NEW n, NEW e, IsNode(n, e), NEW m, Keeps(m, n),
         e.op # "NONE" => m.type = n.type,
         e.op = "NONE" => e.kind \in EXTERN
  PROVE  IsNode(m, e)
BY KindsApart DEF IsNode, Keeps

\* An identifier is looked up: its type once, its value every time.
LEMMA LookedUp ==
  ASSUME NEW n, NEW e, IsNode(n, e), e.op = "NONE", e.kind \in EXTERN, NEW rec
  PROVE  LET id   == [kind |-> e.kind, id |-> e.value]
             type == IF n.type = "UNKNOWN" THEN rec.type[id] ELSE n.type
             r    == EvalExtern(n, rec)
         IN  /\ IsNode(r.node, e)
             /\ r.ret # 0 => type = "UNKNOWN" /\ r.node.type = n.type
             /\ r.ret = 0 => /\ type # "UNKNOWN"
                             /\ r.node.set = (rec.value[id] # <<>>)
                             /\ rec.value[id] = <<>> => r.node.type = type
                             /\ rec.value[id] # <<>> =>
                                  /\ r.node.value = rec.value[id][1]
                                  /\ r.node.type = IF e.kind = "SET" THEN "POINTER" ELSE type
<1> DEFINE id == [kind |-> e.kind, id |-> e.value]
           type == IF n.type = "UNKNOWN" THEN rec.type[id] ELSE n.type
           node == [n EXCEPT !.set = FALSE, !.type = type]
           pointer == [node EXCEPT !.type = "POINTER"]
           v == rec.value[id][1]
           r == EvalExtern(n, rec)
<1>1. n.kind = e.kind /\ n.id = e.value /\ DOMAIN n = Parts
  BY NodeParts
<1>2. r = IF type = "UNKNOWN" THEN Fails(n)
          ELSE IF rec.value[id] = <<>> THEN [ret |-> 0, node |-> node]
          ELSE IF e.kind = "SET" THEN Yields(pointer, v)
          ELSE Yields(node, v)
  BY <1>1, Zenon DEF EvalExtern
<1>3. Keeps(node, n) /\ node.type = type /\ node.set = FALSE
  <2> HIDE DEF type
  <2> QED
    BY <1>1 DEF Keeps, Parts
<1>4. Keeps(pointer, n) /\ pointer.type = "POINTER"
  <2> HIDE DEF node
  <2> QED
    BY <1>3 DEF Keeps, Parts
<1>5. DOMAIN node = Parts /\ DOMAIN pointer = Parts
  BY <1>3, <1>4 DEF Keeps
<1>6. ASSUME NEW m, Keeps(m, n)
      PROVE  IsNode(m, e)
  BY <1>6, StaysNode
<1>7. CASE type = "UNKNOWN"
  <2>1. r = Fails(n)
    BY <1>2, <1>7
  <2>2. Keeps(Fails(n).node, n) /\ Fails(n).ret = -1 /\ Fails(n).node.type = n.type
    BY <1>1, FailsLeaves
  <2>3. Keeps(r.node, n) /\ r.ret = -1 /\ r.node.type = n.type
    BY <2>1, <2>2
  <2>4. IsNode(r.node, e)
    BY <1>6, <2>3
  <2> HIDE DEF r, type
  <2>5. r.ret # 0
    BY <2>3
  <2> QED
    BY <1>7, <2>3, <2>4, <2>5 DEF id, type, r
<1>8. CASE type # "UNKNOWN" /\ rec.value[id] = <<>>
  <2>1. r = [ret |-> 0, node |-> node]
    BY <1>2, <1>8
  <2> HIDE DEF node, r
  <2>2. r.ret = 0 /\ r.node = node
    BY <2>1
  <2>3. r.node.set = FALSE /\ r.node.type = type /\ IsNode(r.node, e)
    BY <1>3, <1>6, <2>2
  <2> HIDE DEF r, type, id
  <2> QED
    BY <1>8, <2>2, <2>3 DEF id, type, r
<1>9. CASE type # "UNKNOWN" /\ rec.value[id] # <<>>
  <2>1. r = IF e.kind = "SET" THEN Yields(pointer, v) ELSE Yields(node, v)
    BY <1>2, <1>9
  <2> HIDE DEF node, pointer
  <2>2. /\ Yields(pointer, v).ret = 0 /\ Yields(pointer, v).node.set = TRUE
        /\ Yields(pointer, v).node.value = v /\ Yields(pointer, v).node.type = "POINTER"
        /\ Keeps(Yields(pointer, v).node, pointer)
    BY <1>4, <1>5, YieldsLeaves
  <2> HIDE DEF v, type
  <2>3. /\ Yields(node, v).ret = 0 /\ Yields(node, v).node.set = TRUE
        /\ Yields(node, v).node.value = v /\ Yields(node, v).node.type = type
        /\ Keeps(Yields(node, v).node, node)
    <3>1. /\ Yields(node, v).ret = 0 /\ Yields(node, v).node.set = TRUE
          /\ Yields(node, v).node.value = v /\ Yields(node, v).node.type = node.type
          /\ Keeps(Yields(node, v).node, node)
      BY <1>5, YieldsLeaves
    <3> QED
      BY <1>3, <3>1
  <2>4. Keeps(Yields(pointer, v).node, n) /\ Keeps(Yields(node, v).node, n)
    BY <1>3, <1>4, <2>2, <2>3 DEF Keeps
  <2>5. /\ r.ret = 0 /\ r.node.set = TRUE /\ r.node.value = v
        /\ r.node.type = IF e.kind = "SET" THEN "POINTER" ELSE type
        /\ Keeps(r.node, n)
    BY <2>1, <2>2, <2>3, <2>4
  <2>6. IsNode(r.node, e)
    BY <1>6, <2>5
  <2> HIDE DEF r, type, id
  <2> QED
    BY <1>9, <2>5, <2>6 DEF id, type, r, v
<1> QED
  BY <1>7, <1>8, <1>9
-----------------------------------------------------------------------------
(* One node: what its evaluation yields is what its element means.         *)

\* A node holds the value v; only that it is not 0, where NEQ stores what
\* strcmp returned.
Holds(n, v) ==
  \/ n.value = v
  \/ n.op = "NEQ" /\ n.type = "BOOL" /\ ~Same(n.value, Num(0)) /\ v = Num(1)

\* A node holds the value m, or m is that there is none.
Matches(n, m) ==
  /\ m.is \in {"value", "unset"}
  /\ m.is = "value" => n.set = TRUE /\ n.type = m.type /\ Holds(n, m.v)
  /\ m.is = "unset" => n.set = FALSE

Renders(r, m) ==
  /\ r.ret = 0 <=> m.is # "error"
  /\ r.ret = 0 => Matches(r.node, m)

\* An operator fails or has a value.
Settles(r, n) == r = Fails(n) \/ \E v : r = Yields(n, v)

LEMMA OperatorSettles ==
  ASSUME NEW n
  PROVE  /\ \A c : Settles(EvalRel(n, c), n)
         /\ \A l, r : Settles(EvalArith(n, l, r), n) /\ Settles(EvalLogic(n, l, r), n)
<1>1. ASSUME NEW c
      PROVE  Settles(EvalRel(n, c), n)
  BY DEF EvalRel, Settles
<1>2. ASSUME NEW l, NEW r
      PROVE  Settles(EvalArith(n, l, r), n)
  BY DEF EvalArith, Settles
<1>3. ASSUME NEW l, NEW r
      PROVE  Settles(EvalLogic(n, l, r), n)
  BY DEF EvalLogic, Settles
<1> QED
  BY <1>1, <1>2, <1>3

LEMMA FailsRenders ==
  ASSUME NEW n, DOMAIN n = Parts
  PROVE  Renders(Fails(n), Wrong("error"))
<1>1. Fails(n).ret = -1
  BY FailsLeaves
<1> QED
  BY <1>1 DEF Renders, Wrong

LEMMA YieldsRenders ==
  ASSUME NEW n, DOMAIN n = Parts, NEW v
  PROVE  Renders(Yields(n, v), Value(n.type, v))
<1>1. /\ Yields(n, v).ret = 0 /\ Yields(n, v).node.set = TRUE
      /\ Yields(n, v).node.value = v /\ Yields(n, v).node.type = n.type
  BY YieldsLeaves
<1> QED
  BY <1>1 DEF Renders, Matches, Holds, Value

\* As a truth, what a node holds is what it means.
LEMMA SameTruth ==
  ASSUME NEW n, NEW v, Holds(n, v)
  PROVE  Same(n.value, Num(0)) <=> Same(v, Num(0))
<1>1. ~Same(Num(1), Num(0))
  BY DEF Same, Num
<1> QED
  BY <1>1 DEF Holds

\* A node that is not raw holds just that value.
LEMMA SameValue ==
  ASSUME NEW n, NEW v, Holds(n, v), n.set = TRUE, ~Raw(n)
  PROVE  n.value = v
<1>1. Same(Num(0), Num(0))
  BY DEF Same, Num
<1>2. SUFFICES ASSUME n.value # v
               PROVE  FALSE
  OBVIOUS
<1>3. n.op = "NEQ" /\ ~Same(n.value, Num(0)) /\ v = Num(1)
  BY <1>2 DEF Holds
<1>4. n.value \in {Num(0), Num(1)}
  BY <1>3 DEF Raw
<1> QED
  BY <1>1, <1>2, <1>3, <1>4

\* A comparison of two strings yields 0 or 1, but for NEQ, which yields
\* something other than 0 where it should yield 1.
LEMMA StringsMean ==
  ASSUME NEW n, DOMAIN n = Parts, n.type = "BOOL",
         NEW l, NEW r, NEW p, NEW q, l.type = "STRING", l.value = p, r.value = q
  PROVE  Renders(Yields(n, Compared(n.op, l, r)), Value("BOOL", Bool(CompareOp(n.op, p, q))))
<1>1. CASE n.op # "NEQ"
  <2>1. Compared(n.op, l, r) = Bool(CompareOp(n.op, p, q))
    BY <1>1 DEF Compared
  <2> QED
    BY <2>1, YieldsRenders
<1>2. CASE n.op = "NEQ"
  <2>1. Compared(n.op, l, r) = StrCmp(p, q)
    BY <1>2 DEF Compared
  <2>2. CompareOp(n.op, p, q) <=> ~Same(p, q)
    BY <1>2 DEF CompareOp
  <2>3. CASE Same(p, q)
    <3>1. StrCmp(p, q) = Num(0) /\ Bool(CompareOp(n.op, p, q)) = Num(0)
      BY <2>2, <2>3 DEF StrCmp, Bool
    <3> QED
      BY <2>1, <3>1, YieldsRenders
  <2>4. CASE ~Same(p, q)
    <3>1. StrCmp(p, q) \in {Num(-Distance), Num(Distance)} /\ Bool(CompareOp(n.op, p, q)) = Num(1)
      BY <2>2, <2>4 DEF StrCmp, Bool
    <3>2. ~Same(Num(-Distance), Num(0)) /\ ~Same(Num(Distance), Num(0))
      BY CalcAssumption DEF Same, Num
    <3> DEFINE w == StrCmp(p, q)
    <3>3. ~Same(w, Num(0))
      BY <3>1, <3>2
    <3> HIDE DEF w
    <3>4. /\ Yields(n, w).ret = 0 /\ Yields(n, w).node.set = TRUE
          /\ Yields(n, w).node.value = w /\ Yields(n, w).node.type = n.type
          /\ Yields(n, w).node.op = n.op
      BY YieldsLeaves DEF Yields, Parts
    <3>5. Renders(Yields(n, w), Value("BOOL", Num(1)))
      BY <1>2, <3>3, <3>4 DEF Renders, Matches, Holds, Value
    <3> QED
      BY <2>1, <3>1, <3>5 DEF w
  <2> QED
    BY <2>3, <2>4
<1> QED
  BY <1>1, <1>2

LEMMA RelMeans ==
  ASSUME NEW n, DOMAIN n = Parts, n.op \in REL, n.type = "BOOL",
         NEW d \in Nat, NEW c, NEW ms, DOMAIN c = 1 .. d, DOMAIN ms = 1 .. d,
         \A i \in 1 .. d : Matches(c[i], ms[i])
  PROVE  Renders(EvalRel(n, c), Junction(n.op, ms))
<1> DEFINE Bad(i) == ~c[i].set \/ c[i].type \notin {"BOOL", "INT"}
           Decides(i) == (n.op = "AND") = Same(c[i].value, Num(0))
           stops == {i \in 1 .. d : Bad(i) \/ Decides(i)}
           bad == {i \in 1 .. d : ms[i].is # "value" \/ ms[i].type \notin {"BOOL", "INT"}}
           certain == {i \in 1 .. d : i \notin bad /\ Same(ms[i].v, Num(0)) = (n.op = "AND")}
<1>1. \A i \in 1 .. d : Bad(i) <=> i \in bad
  BY DEF Matches
<1>2. \A i \in 1 .. d : i \notin bad => (Same(c[i].value, Num(0)) <=> Same(ms[i].v, Num(0)))
  BY SameTruth DEF Matches
<1>3. \A i \in 1 .. d : i \notin bad => (Decides(i) <=> i \in certain)
  <2> SUFFICES ASSUME NEW i \in 1 .. d, i \notin bad
               PROVE  Decides(i) <=> i \in certain
    OBVIOUS
  <2>1. Same(c[i].value, Num(0)) \in BOOLEAN /\ Same(ms[i].v, Num(0)) \in BOOLEAN
    BY DEF Same
  <2>2. i \in certain <=> Same(ms[i].v, Num(0)) = (n.op = "AND")
    OBVIOUS
  <2>3. Same(c[i].value, Num(0)) = Same(ms[i].v, Num(0))
    BY <1>2, <2>1
  <2> QED
    BY <2>1, <2>2, <2>3
<1>4. stops = bad \cup certain /\ bad \cap certain = {}
  <2> HIDE DEF Bad, Decides
  <2> QED
    BY <1>1, <1>3
<1>5. EvalRel(n, c) = IF stops = {} THEN Yields(n, Bool(n.op # "OR"))
                      ELSE IF Bad(Min(stops)) THEN Fails(n)
                      ELSE Yields(n, Bool(n.op = "OR"))
  BY Zenon DEF EvalRel
<1>6. Junction(n.op, ms) = IF \E i \in bad : \A j \in certain : i < j THEN Wrong("error")
                           ELSE Value("BOOL", Bool((n.op = "OR") = (certain # {})))
  BY Zenon DEF Junction
<1>7. Renders(Fails(n), Wrong("error")) /\ \A v : Renders(Yields(n, v), Value("BOOL", v))
  BY FailsRenders, YieldsRenders
<1>8. stops \in SUBSET Nat /\ bad \in SUBSET Nat /\ certain \in SUBSET Nat
  OBVIOUS
<1> HIDE DEF stops, certain
<1>9. CASE stops = {}
  <2>1. certain = {} /\ bad = {}
    BY <1>4, <1>9
  <2>2. Junction(n.op, ms) = Value("BOOL", Bool(n.op # "OR"))
    <3>1. ((n.op = "OR") = (certain # {})) = (n.op # "OR")
      BY <2>1
    <3> QED
      BY <1>6, <2>1, <3>1
  <2> QED
    BY <1>5, <1>7, <1>9, <2>2
<1>10. CASE stops # {}
  <2> DEFINE m == Min(stops)
  <2>1. m \in stops /\ \A j \in stops : m <= j
    BY <1>8, <1>10, MinOf
  <2> HIDE DEF m
  <2>2. CASE m \in bad
    <3>1. \A j \in certain : m < j
      BY <1>4, <1>8, <2>1, <2>2
    <3>2. Junction(n.op, ms) = Wrong("error")
      BY <1>6, <2>2, <3>1
    <3>3. Bad(m)
      BY <1>1, <2>2
    <3>4. EvalRel(n, c) = Fails(n)
      BY <1>5, <1>10, <3>3 DEF m
    <3> QED
      BY <1>7, <3>2, <3>4
  <2>3. CASE m \notin bad
    <3>1. m \in certain
      BY <1>4, <2>1, <2>3
    <3>2. \A i \in bad : ~(i < m)
      BY <1>4, <1>8, <2>1
    <3>3. Junction(n.op, ms) = Value("BOOL", Bool(n.op = "OR"))
      <4>1. ((n.op = "OR") = (certain # {})) = (n.op = "OR")
        BY <3>1
      <4> QED
        BY <1>6, <3>1, <3>2, <4>1
    <3>4. m \in 1 .. d
      BY <3>1 DEF certain
    <3>5. ~Bad(m)
      BY <1>1, <2>3, <3>4
    <3>6. EvalRel(n, c) = Yields(n, Bool(n.op = "OR"))
      BY <1>5, <1>10, <3>5 DEF m
    <3> QED
      BY <1>7, <3>3, <3>6
  <2> QED
    BY <2>2, <2>3
<1> QED
  BY <1>9, <1>10

LEMMA ArithMeans ==
  ASSUME NEW n, DOMAIN n = Parts, n.type = "DOUBLE",
         NEW l, NEW r, NEW ml, NEW mr, Matches(l, ml), Matches(r, mr)
  PROVE  Renders(EvalArith(n, l, r),
                  IF ml.is = "unset" \/ mr.is = "unset" THEN Wrong("error")
                  ELSE IF {ml.type, mr.type} \subseteq NUMERIC
                       THEN Value("DOUBLE", ArithOp(n.op, ml.v, mr.v)) ELSE Wrong("error"))
<1>1. n.type \in NUMERIC
  BY DEF NUMERIC
<1>2. CASE ml.is = "unset" \/ mr.is = "unset"
  <2>1. ~l.set \/ ~r.set
    BY <1>2 DEF Matches
  <2>2. EvalArith(n, l, r) = Fails(n)
    BY <2>1 DEF EvalArith
  <2> QED
    BY <1>2, <2>2, FailsRenders
<1>3. CASE ml.is = "value" /\ mr.is = "value"
  <2>1. /\ l.set /\ r.set /\ l.type = ml.type /\ r.type = mr.type
        /\ Holds(l, ml.v) /\ Holds(r, mr.v)
    BY <1>3 DEF Matches
  <2>2. CASE {ml.type, mr.type} \subseteq NUMERIC
    <3>2. l.value = ml.v /\ r.value = mr.v
      BY <2>1, <2>2 DEF Holds, NUMERIC
    <3>1. EvalArith(n, l, r) = Yields(n, ArithOp(n.op, ml.v, mr.v))
      BY <1>1, <2>1, <2>2, <3>2 DEF EvalArith
    <3> QED
      BY <1>3, <2>2, <3>1, YieldsRenders
  <2>3. CASE ~({ml.type, mr.type} \subseteq NUMERIC)
    <3>1. EvalArith(n, l, r) = Fails(n)
      BY <2>1, <2>3 DEF EvalArith
    <3> QED
      BY <1>3, <2>3, <3>1, FailsRenders
  <2> QED
    BY <2>2, <2>3
<1> QED
  BY <1>2, <1>3 DEF Matches

\* Misread, of the node n and its children l and r.
Misreads(n, l, r) ==
  \/ n.op = "NBL" /\ l.type # "STRING"
  \/ n.op \in LOGIC /\ (Raw(l) \/ Raw(r))
  \/ n.op \in COMPARE /\ \/ l.set /\ l.type \notin NUMERIC \cup {"BOOL", "STRING"}
                         \/ r.set /\ r.type \notin NUMERIC \cup {"BOOL", "STRING"}

\* kind and set are what the right operand is.
LEMMA LogicMeans ==
  ASSUME NEW n, DOMAIN n = Parts, n.type = "BOOL", n.op \in LOGIC,
         NEW l, NEW r, NEW ml, NEW mr, Matches(l, ml), Matches(r, mr),
         r.kind = "REGEX" => mr.v.type = "STRING",
         ~Misreads(n, l, r)
  PROVE  Renders(EvalLogic(n, l, r),
                  IF ml.is = "unset" \/ mr.is = "unset" THEN Wrong("error")
                  ELSE IF n.op \in COMPARE THEN
                      IF \/ {ml.type, mr.type} = {"STRING"}
                         \/ {ml.type, mr.type} \subseteq NUMERIC \cup {"BOOL"}
                      THEN Value("BOOL", Bool(CompareOp(n.op, ml.v, mr.v))) ELSE Wrong("error")
                  ELSE IF /\ r.kind \in (IF n.op = "MATCH" THEN {"REGEX"} ELSE MULTI)
                          /\ mr.v.type = ml.type
                       THEN Value("BOOL", Bool((n.op # "NBL") = Accepts(mr.v, ml.v))) ELSE Wrong("error"))
<1> DEFINE typed == IF n.op = "BL" \/ l.type = "STRING" THEN r.value.type ELSE r.type
           fits  == CASE n.op \in COMPARE       -> (l.type = "STRING") = (r.type = "STRING")
                      [] n.op \in {"BL", "NBL"} -> r.kind \in MULTI /\ l.type = typed
                      [] n.op = "MATCH"         -> l.type = "STRING" /\ r.kind = "REGEX"
           v == IF n.op \in COMPARE THEN Compared(n.op, l, r)
                ELSE Bool((n.op # "NBL") = Accepts(r.value, l.value))
<1>1. EvalLogic(n, l, r) = IF ~l.set \/ ~r.set \/ ~fits THEN Fails(n) ELSE Yields(n, v)
  BY Zenon DEF EvalLogic
<1>2. CASE ml.is = "unset" \/ mr.is = "unset"
  <2>1. ~l.set \/ ~r.set
    BY <1>2 DEF Matches
  <2> HIDE DEF fits, v
  <2>2. EvalLogic(n, l, r) = Fails(n)
    BY <1>1, <2>1
  <2> QED
    BY <1>2, <2>2, FailsRenders
<1>3. CASE ml.is = "value" /\ mr.is = "value"
  <2>1. /\ l.set = TRUE /\ r.set = TRUE /\ l.type = ml.type /\ r.type = mr.type
        /\ l.value = ml.v /\ r.value = mr.v
    <3>1. /\ l.set = TRUE /\ r.set = TRUE /\ l.type = ml.type /\ r.type = mr.type
          /\ Holds(l, ml.v) /\ Holds(r, mr.v)
      BY <1>3 DEF Matches
    <3>2. ~Raw(l) /\ ~Raw(r)
      BY DEF Misreads
    <3> QED
      BY <3>1, <3>2, SameValue
  <2>2. EvalLogic(n, l, r) = IF fits THEN Yields(n, v) ELSE Fails(n)
    <3> HIDE DEF fits, v
    <3> QED
      BY <1>1, <2>1
  <2>4. CASE n.op \in COMPARE
    <3>1. ml.type \in NUMERIC \cup {"BOOL", "STRING"} /\ mr.type \in NUMERIC \cup {"BOOL", "STRING"}
      BY <2>1, <2>4 DEF Misreads
    <3>2. fits <=> (ml.type = "STRING") = (mr.type = "STRING")
      BY <2>1, <2>4 DEF COMPARE
    <3>3. v = Compared(n.op, l, r)
      BY <2>4
    <3>4. CASE ml.type = "STRING" /\ mr.type = "STRING"
      <4>1. Renders(Yields(n, v), Value("BOOL", Bool(CompareOp(n.op, ml.v, mr.v))))
        BY <2>1, <3>3, <3>4, StringsMean
      <4>2. {ml.type, mr.type} = {"STRING"}
        BY <3>4
      <4> HIDE DEF fits, v
      <4> QED
        BY <1>3, <2>2, <2>4, <3>2, <3>4, <4>1, <4>2
    <3>5. CASE ml.type # "STRING" /\ mr.type # "STRING"
      <4>1. v = Bool(CompareOp(n.op, ml.v, mr.v))
        BY <2>1, <3>1, <3>3, <3>5 DEF Compared, Promoted
      <4>2. {ml.type, mr.type} \subseteq NUMERIC \cup {"BOOL"}
        BY <3>1, <3>5
      <4> HIDE DEF fits, v
      <4>3. EvalLogic(n, l, r) = Yields(n, v)
        BY <2>2, <3>2, <3>5
      <4> QED
        BY <1>3, <2>4, <4>1, <4>2, <4>3, YieldsRenders
    <3>6. CASE (ml.type = "STRING") # (mr.type = "STRING")
      <4>1. /\ {ml.type, mr.type} # {"STRING"}
            /\ ~({ml.type, mr.type} \subseteq NUMERIC \cup {"BOOL"})
        BY <3>6 DEF NUMERIC
      <4> HIDE DEF fits, v
      <4>2. EvalLogic(n, l, r) = Fails(n)
        BY <2>2, <3>2, <3>6
      <4> QED
        BY <1>3, <2>4, <4>1, <4>2, FailsRenders
    <3> QED
      BY <3>4, <3>5, <3>6
  <2>5. CASE n.op \notin COMPARE
    <3>1. fits <=> r.kind \in (IF n.op = "MATCH" THEN {"REGEX"} ELSE MULTI) /\ mr.v.type = ml.type
      <4>1. CASE n.op = "MATCH"
        BY <2>1, <2>5, <4>1 DEF COMPARE
      <4>2. CASE n.op = "BL"
        BY <2>1, <2>5, <4>2 DEF COMPARE
      <4>3. CASE n.op = "NBL"
        <5>1. l.type = "STRING"
          BY <4>3 DEF Misreads
        <5> QED
          BY <2>1, <2>5, <4>3, <5>1 DEF COMPARE
      <4> QED
        BY <2>5, <4>1, <4>2, <4>3 DEF LOGIC
    <3>2. v = Bool((n.op # "NBL") = Accepts(mr.v, ml.v))
      BY <2>1, <2>5
    <3> HIDE DEF fits, v
    <3> QED
      BY <1>3, <2>2, <2>5, <3>1, <3>2, FailsRenders, YieldsRenders
  <2> QED
    BY <2>4, <2>5
<1> QED
  BY <1>2, <1>3 DEF Matches

\* Which function evaluates a node.
LEMMA Dispatched ==
  ASSUME NEW t, NEW k, NEW rec
  PROVE  /\ t[k].kind = "REL" =>
              EvalNode(t, k, rec) = EvalRel(t[k], [i \in DOMAIN t[k].child |-> Kid(t, k, i)])
         /\ t[k].kind = "ARITH" => EvalNode(t, k, rec) = EvalArith(t[k], Kid(t, k, 1), Kid(t, k, 2))
         /\ t[k].kind = "LOGIC" => EvalNode(t, k, rec) = EvalLogic(t[k], Kid(t, k, 1), Kid(t, k, 2))
         /\ t[k].kind \in EXTERN => EvalNode(t, k, rec) = EvalExtern(t[k], rec)
         /\ t[k].kind \in CONST => EvalNode(t, k, rec) = [ret |-> 0, node |-> t[k]]
<1>1. CASE t[k].kind = "REL"
  BY <1>1 DEF EvalNode, EXTERN, CONST
<1>2. CASE t[k].kind = "ARITH"
  BY <1>2 DEF EvalNode, EXTERN, CONST
<1>3. CASE t[k].kind = "LOGIC"
  BY <1>3 DEF EvalNode, EXTERN, CONST
<1>4. CASE t[k].kind \in EXTERN
  BY <1>4 DEF EvalNode, EXTERN, CONST
<1>5. CASE t[k].kind \in CONST
  BY <1>5 DEF EvalNode, EXTERN, CONST
<1> QED
  BY <1>1, <1>2, <1>3, <1>4, <1>5

\* The evaluation of a node leaves a node of the same element.
LEMMA NodeStays ==
  ASSUME NEW f, NEW t, NEW k \in DOMAIN f, IsNode(t[k], f[k]), NEW rec
  PROVE  IsNode(EvalNode(t, k, rec).node, f[k])
<1> DEFINE n == t[k]
           e == f[k]
           r == EvalNode(t, k, rec)
<1>1. ASSUME e.op # "NONE", Settles(r, n)
      PROVE  IsNode(r.node, e)
  <2>1. DOMAIN n = Parts
    BY NodeParts
  <2>2. Keeps(r.node, n) /\ r.node.type = n.type
    <3>1. CASE r = Fails(n)
      BY <2>1, <3>1, FailsLeaves
    <3>2. ASSUME NEW v, r = Yields(n, v)
          PROVE  Keeps(r.node, n) /\ r.node.type = n.type
      <4>1. Keeps(Yields(n, v).node, n) /\ Yields(n, v).node.type = n.type
        BY <2>1, YieldsLeaves
      <4> QED
        BY <3>2, <4>1
    <3> QED
      BY <1>1, <3>1, <3>2 DEF Settles
  <2> QED
    BY <1>1, <2>2, StaysNode
<1>2. CASE e.op \in ARITH
  <2>1. e.op # "NONE"
    BY <1>2, KindsApart
  <2>2. n.kind = "ARITH"
    BY <1>2, NodeParts
  <2>3. r = EvalArith(n, Kid(t, k, 1), Kid(t, k, 2))
    BY <2>2, Dispatched
  <2>4. Settles(r, n)
    BY <2>3, OperatorSettles
  <2> QED
    BY <1>1, <2>1, <2>4
<1>3. CASE e.op \in LOGIC
  <2>1. e.op # "NONE"
    BY <1>3, KindsApart
  <2>2. n.kind = "LOGIC"
    BY <1>3, NodeParts
  <2>3. r = EvalLogic(n, Kid(t, k, 1), Kid(t, k, 2))
    BY <2>2, Dispatched
  <2>4. Settles(r, n)
    BY <2>3, OperatorSettles
  <2> QED
    BY <1>1, <2>1, <2>4
<1>4. CASE e.op \in REL
  <2>1. e.op # "NONE"
    BY <1>4, KindsApart
  <2>2. n.kind = "REL"
    BY <1>4, NodeParts
  <2>3. r = EvalRel(n, [i \in DOMAIN n.child |-> Kid(t, k, i)])
    BY <2>2, Dispatched
  <2>4. Settles(r, n)
    BY <2>3, OperatorSettles
  <2> QED
    BY <1>1, <2>1, <2>4
<1>5. CASE e.op = "NONE" /\ e.kind \in EXTERN
  <2>1. r = EvalExtern(n, rec)
    <3>1. n.kind \in EXTERN
      BY <1>5, NodeParts
    <3> QED
      BY <3>1 DEF EvalNode, EXTERN
  <2> QED
    BY <1>5, <2>1, LookedUp
<1>6. CASE e.op = "NONE" /\ e.kind \in CONST
  <2>1. r = [ret |-> 0, node |-> n]
    <3>1. n.kind \in CONST
      BY <1>6, NodeParts
    <3> QED
      BY <3>1, Dispatched
  <2> QED
    BY <2>1
<1> QED
  BY <1>2, <1>3, <1>4, <1>5, <1>6, NodeParts

\* The type that a node keeps is the one the record has for its identifier.
TypeKept(n, rec) ==
  LET type == rec.type[[kind |-> n.kind, id |-> n.id]]
  IN  n.type \in {"UNKNOWN", type} \/ (n.kind = "SET" /\ n.type = "POINTER" /\ type # "UNKNOWN")

LEMMA IdMeans ==
  ASSUME NEW n, NEW e, IsNode(n, e), e.op = "NONE", e.kind \in EXTERN, NEW rec,
         TypeKept(EvalExtern(n, rec).node, rec), NEW f, NEW ms
  PROVE  Renders(EvalExtern(n, rec), MeaningOf(e, f, ms, rec))
<1> DEFINE id == [kind |-> e.kind, id |-> e.value]
           type == IF n.type = "UNKNOWN" THEN rec.type[id] ELSE n.type
           r == EvalExtern(n, rec)
           m == MeaningOf(e, f, ms, rec)
<1>1. /\ IsNode(r.node, e)
      /\ r.ret # 0 => type = "UNKNOWN" /\ r.node.type = n.type
      /\ r.ret = 0 => /\ type # "UNKNOWN"
                      /\ r.node.set = (rec.value[id] # <<>>)
                      /\ rec.value[id] = <<>> => r.node.type = type
                      /\ rec.value[id] # <<>> =>
                           /\ r.node.value = rec.value[id][1]
                           /\ r.node.type = IF e.kind = "SET" THEN "POINTER" ELSE type
  BY LookedUp
<1>2. r.node.kind = e.kind /\ r.node.id = e.value
  BY <1>1, NodeParts
<1>3. \/ r.node.type \in {"UNKNOWN", rec.type[id]}
      \/ e.kind = "SET" /\ r.node.type = "POINTER" /\ rec.type[id] # "UNKNOWN"
  BY <1>2 DEF TypeKept
<1>4. m = IF rec.type[id] = "UNKNOWN" THEN Wrong("error")
          ELSE IF rec.value[id] = <<>> THEN Wrong("unset")
          ELSE Value(IF e.kind = "SET" THEN "POINTER" ELSE rec.type[id], rec.value[id][1])
  BY Zenon DEF MeaningOf
<1> HIDE DEF r, m, id
<1>5. CASE r.ret # 0
  <2>1. rec.type[id] = "UNKNOWN"
    BY <1>1, <1>5
  <2> QED
    BY <1>4, <1>5, <2>1 DEF Wrong, Renders, r, m
<1>6. CASE r.ret = 0 /\ rec.value[id] = <<>>
  <2>1. rec.type[id] # "UNKNOWN"
    BY <1>1, <1>3, <1>6
  <2>2. r.node.set = FALSE
    BY <1>1, <1>6
  <2>3. m = Wrong("unset")
    BY <1>4, <1>6, <2>1
  <2> QED
    BY <1>6, <2>2, <2>3 DEF Wrong, Renders, Matches, r, m
<1>7. CASE r.ret = 0 /\ rec.value[id] # <<>>
  <2>1. rec.type[id] # "UNKNOWN"
    BY <1>1, <1>3, <1>7
  <2>2. /\ r.node.set = TRUE /\ r.node.value = rec.value[id][1]
        /\ r.node.type = IF e.kind = "SET" THEN "POINTER" ELSE rec.type[id]
    BY <1>1, <1>3, <1>7
  <2>3. m = Value(IF e.kind = "SET" THEN "POINTER" ELSE rec.type[id], rec.value[id][1])
    BY <1>4, <1>7, <2>1
  <2> QED
    BY <1>7, <2>2, <2>3 DEF Value, Renders, Matches, Holds, r, m
<1> QED
  BY <1>5, <1>6, <1>7 DEF r, m

\* A child of a node of a tree stands before it.
LEMMA Children ==
  ASSUME NEW f, IsText(f), NEW k \in DOMAIN f, NEW i \in DOMAIN f[k].child
  PROVE  f[k].child[i] \in DOMAIN f /\ f[k].child[i] \in 1 .. k - 1
<1>1. k \in 1 .. Len(f) /\ Len(f) \in Nat
  BY DEF IsText
<1>2. f[k].child[i] \in 1 .. k - 1
  BY DEF IsText
<1> QED
  BY <1>1, <1>2 DEF IsText

\* The whole node: it fails exactly when its element, by what its children
\* mean, is an error.
LEMMA NodeMeans ==
  ASSUME NEW f, IsText(f), NEW t, NEW k \in DOMAIN f, NEW rec, NEW M,
         \A j \in 1 .. k : IsNode(t[j], f[j]),
         \A j \in 1 .. k - 1 : Matches(t[j], M[j]),
         t[k].kind \in EXTERN => TypeKept(EvalNode(t, k, rec).node, rec),
         ~Misread(t, k)
  PROVE  Renders(EvalNode(t, k, rec),
               MeaningOf(f[k], f, [i \in DOMAIN f[k].child |-> M[f[k].child[i]]], rec))
<1> DEFINE n == t[k]
           e == f[k]
           r == EvalNode(t, k, rec)
           ms == [i \in DOMAIN e.child |-> M[e.child[i]]]
           m == MeaningOf(e, f, ms, rec)
<1>1. k \in 1 .. k /\ IsNode(n, e) /\ DOMAIN n = Parts
  <2>1. k \in 1 .. k
    BY DEF IsText
  <2>2. IsNode(n, e)
    BY <2>1
  <2> QED
    BY <2>1, <2>2, NodeParts
<1>2. \A i \in DOMAIN e.child : /\ Matches(t[e.child[i]], ms[i])
                                /\ IsNode(t[e.child[i]], f[e.child[i]])
                                /\ e.child[i] \in DOMAIN f
  <2> TAKE i \in DOMAIN e.child
  <2>1. e.child[i] \in DOMAIN f /\ e.child[i] \in 1 .. k - 1
    BY Children
  <2>2. e.child[i] \in 1 .. k
    BY <2>1 DEF IsText
  <2> QED
    BY <2>1, <2>2
<1>3. ~ \E i \in DOMAIN ms : ms[i].is = "error"
  BY <1>2 DEF Matches
<1>4. Len(e.child) \in Nat /\ DOMAIN e.child = 1 .. Len(e.child)
  BY DEF IsText
<1>5. CASE e.op \in REL
  <2>1. n.kind = "REL" /\ n.op = e.op /\ n.child = e.child /\ n.type = "BOOL" /\ e.op # "NONE"
    BY <1>1, <1>5, KindsApart DEF IsNode
  <2> DEFINE c == [i \in DOMAIN n.child |-> Kid(t, k, i)]
  <2>2. r = EvalRel(n, c)
    BY <2>1, Dispatched
  <2>3. m = Junction(e.op, ms)
    <3> HIDE DEF ms
    <3> QED
      BY <1>3, <1>5, <2>1 DEF MeaningOf
  <2>4. \A i \in 1 .. Len(e.child) : Matches(c[i], ms[i])
    BY <1>2, <1>4, <2>1 DEF Kid
  <2>5. DOMAIN c = 1 .. Len(e.child) /\ DOMAIN ms = 1 .. Len(e.child)
    BY <1>4, <2>1
  <2> HIDE DEF c, ms
  <2>6. Renders(EvalRel(n, c), Junction(n.op, ms))
    BY <1>1, <1>4, <1>5, <2>1, <2>4, <2>5, RelMeans
  <2> HIDE DEF r, m
  <2> QED
    BY <2>1, <2>2, <2>3, <2>6 DEF r, m, ms
<1>6. ASSUME e.op \in ARITH \cup LOGIC
      PROVE  /\ DOMAIN e.child = {1, 2}
             /\ Matches(t[e.child[1]], ms[1]) /\ Matches(t[e.child[2]], ms[2])
             /\ IsNode(t[e.child[2]], f[e.child[2]]) /\ e.child[2] \in DOMAIN f
  <2>1. Len(e.child) = 2
    BY <1>6 DEF IsText
  <2>2. DOMAIN e.child = {1, 2}
    BY <1>4, <2>1
  <2> QED
    BY <1>2, <2>2
<1>7. CASE e.op \in ARITH
  <2>1. n.kind = "ARITH" /\ n.op = e.op /\ n.child = e.child /\ n.type = "DOUBLE" /\ e.op # "NONE"
    BY <1>1, <1>7, KindsApart DEF IsNode
  <2>2. r = EvalArith(n, t[e.child[1]], t[e.child[2]])
    <3>1. r = EvalArith(n, Kid(t, k, 1), Kid(t, k, 2))
      BY <2>1, Dispatched
    <3> QED
      BY <2>1, <3>1 DEF Kid
  <2>3. m = IF ms[1].is = "unset" \/ ms[2].is = "unset" THEN Wrong("error")
            ELSE IF {ms[1].type, ms[2].type} \subseteq NUMERIC
                 THEN Value("DOUBLE", ArithOp(e.op, ms[1].v, ms[2].v)) ELSE Wrong("error")
    <3>1. e.op \notin REL
      BY <1>7, KindsApart
    <3> HIDE DEF ms
    <3> QED
      BY <1>3, <1>7, <2>1, <3>1 DEF MeaningOf
  <2> HIDE DEF m, ms, r
  <2>4. Matches(t[e.child[1]], ms[1]) /\ Matches(t[e.child[2]], ms[2])
    BY <1>6, <1>7
  <2> QED
    BY <1>1, <2>1, <2>2, <2>3, <2>4, ArithMeans DEF m, ms, r
<1>8. CASE e.op \in LOGIC
  <2>1. n.kind = "LOGIC" /\ n.op = e.op /\ n.child = e.child /\ n.type = "BOOL" /\ e.op # "NONE"
    BY <1>1, <1>8, KindsApart DEF IsNode
  <2> DEFINE l == t[e.child[1]]
             rt == t[e.child[2]]
             re == f[e.child[2]]
  <2>2. r = EvalLogic(n, l, rt)
    <3>1. r = EvalLogic(n, Kid(t, k, 1), Kid(t, k, 2))
      BY <2>1, Dispatched
    <3> QED
      BY <2>1, <3>1 DEF Kid
  <2>3. /\ Matches(l, ms[1]) /\ Matches(rt, ms[2])
        /\ IsNode(rt, re) /\ e.child[2] \in DOMAIN f
    BY <1>6, <1>8
  <2>4. \A S \in {{"REGEX"}, MULTI} : rt.kind \in S <=> (re.op = "NONE" /\ re.kind \in S)
    <3> TAKE S \in {{"REGEX"}, MULTI}
    <3>1. S \subseteq EXTERN \cup CONST
      BY KindsApart
    <3>2. CASE re.op = "NONE"
      BY <2>3, <3>2, KindsApart DEF IsNode
    <3>3. CASE re.op # "NONE"
      <4>1. rt.kind \in {"ARITH", "LOGIC", "REL"}
        BY <2>3, <3>3, NodeParts
      <4> QED
        BY <3>1, <3>3, <4>1, KindsApart
    <3> QED
      BY <3>2, <3>3
  <2>5. rt.kind = "REGEX" => ms[2].v.type = "STRING"
    <3> HAVE rt.kind = "REGEX"
    <3>1. re.op = "NONE" /\ re.kind = "REGEX"
      BY <2>4
    <3>2. re.value.type = "STRING"
      BY <2>3, <3>1 DEF IsText
    <3>3. rt.set = TRUE /\ rt.value = Constant(re).v
      BY <2>3, <3>1, KindsApart DEF IsNode
    <3>4. Constant(re).v = re.value
      BY <3>1 DEF Constant, Value
    <3>5. ms[2].v = re.value
      <4>1. rt.type = "POINTER"
        BY <2>3, <3>1, KindsApart DEF IsNode, Constant, Value
      <4>2. ms[2].is = "value" /\ Holds(rt, ms[2].v)
        BY <2>3, <3>3 DEF Matches
      <4>3. rt.value = ms[2].v
        BY <4>1, <4>2 DEF Holds
      <4> QED
        BY <3>3, <3>4, <4>3
    <3> QED
      BY <3>2, <3>5
  <2>6. ~Misreads(n, l, rt)
    <3>1. Kid(t, k, 1) = l /\ Kid(t, k, 2) = rt
      BY <2>1 DEF Kid
    <3> HIDE DEF l, rt
    <3> QED
      BY <3>1 DEF Misread, Misreads
  <2>7. m = IF ms[1].is = "unset" \/ ms[2].is = "unset" THEN Wrong("error")
            ELSE IF e.op \in COMPARE THEN
                IF \/ {ms[1].type, ms[2].type} = {"STRING"}
                   \/ {ms[1].type, ms[2].type} \subseteq NUMERIC \cup {"BOOL"}
                THEN Value("BOOL", Bool(CompareOp(e.op, ms[1].v, ms[2].v))) ELSE Wrong("error")
            ELSE IF /\ rt.kind \in (IF e.op = "MATCH" THEN {"REGEX"} ELSE MULTI)
                    /\ ms[2].v.type = ms[1].type
                 THEN Value("BOOL", Bool((e.op # "NBL") = Accepts(ms[2].v, ms[1].v))) ELSE Wrong("error")
    <3>1. e.op \notin REL /\ e.op \notin ARITH
      BY <1>8, KindsApart
    <3>2. rt.kind \in (IF e.op = "MATCH" THEN {"REGEX"} ELSE MULTI)
            <=> (re.op = "NONE" /\ re.kind \in (IF e.op = "MATCH" THEN {"REGEX"} ELSE MULTI))
      BY <2>4
    <3> HIDE DEF ms, l, rt
    <3> QED
      BY <1>3, <2>1, <3>1, <3>2 DEF MeaningOf
  <2> HIDE DEF m, ms, r, l, rt
  <2>8. Renders(EvalLogic(n, l, rt), m)
    <3> DEFINE ml == ms[1]
               mr == ms[2]
    <3>1. Matches(l, ml) /\ Matches(rt, mr) /\ (rt.kind = "REGEX" => mr.v.type = "STRING")
      BY <2>3, <2>5
    <3> HIDE DEF ml, mr
    <3>2. Renders(EvalLogic(n, l, rt),
                  IF ml.is = "unset" \/ mr.is = "unset" THEN Wrong("error")
                  ELSE IF n.op \in COMPARE THEN
                      IF \/ {ml.type, mr.type} = {"STRING"}
                         \/ {ml.type, mr.type} \subseteq NUMERIC \cup {"BOOL"}
                      THEN Value("BOOL", Bool(CompareOp(n.op, ml.v, mr.v))) ELSE Wrong("error")
                  ELSE IF /\ rt.kind \in (IF n.op = "MATCH" THEN {"REGEX"} ELSE MULTI)
                          /\ mr.v.type = ml.type
                       THEN Value("BOOL", Bool((n.op # "NBL") = Accepts(mr.v, ml.v))) ELSE Wrong("error"))
      BY <1>1, <1>8, <2>1, <2>6, <3>1, LogicMeans
    <3> QED
      BY <2>1, <2>7, <3>2 DEF ml, mr
  <2> QED
    BY <2>2, <2>8 DEF m, ms, r
<1>9. CASE e.op = "NONE" /\ e.kind \in EXTERN
  <2>1. n.kind \in EXTERN
    BY <1>1, <1>9, NodeParts
  <2>2. r = EvalExtern(n, rec)
    BY <2>1 DEF EvalNode, EXTERN
  <2>3. TypeKept(EvalExtern(n, rec).node, rec)
    BY <2>1, <2>2
  <2> HIDE DEF ms
  <2> QED
    BY <1>1, <1>9, <2>2, <2>3, IdMeans
<1>10. CASE e.op = "NONE" /\ e.kind \in CONST
  <2>1. n.kind \in CONST /\ n.set = TRUE /\ n.type = Constant(e).type /\ n.value = Constant(e).v
    BY <1>1, <1>10, KindsApart DEF IsNode
  <2>2. r = [ret |-> 0, node |-> n]
    BY <2>1, Dispatched
  <2>3. m = Constant(e)
    <3>1. e.kind \notin EXTERN
      BY <1>10, KindsApart
    <3> HIDE DEF ms
    <3> QED
      BY <1>10, <3>1 DEF MeaningOf
  <2>4. Constant(e).is = "value"
    BY <1>10 DEF Constant, Value, CONST
  <2>5. r.ret = 0 /\ r.node = n
    BY <2>2
  <2> HIDE DEF r, m
  <2> QED
    BY <2>1, <2>3, <2>4, <2>5 DEF Renders, Matches, Holds, r, m
<1>11. \/ e.op \in ARITH \/ e.op \in LOGIC \/ e.op \in REL
       \/ e.op = "NONE" /\ (e.kind \in EXTERN \/ e.kind \in CONST)
  BY <1>1, Zenon DEF IsNode
<1> HIDE DEF r, m
<1> QED
  BY <1>5, <1>7, <1>8, <1>9, <1>10, <1>11 DEF r, m, ms

-----------------------------------------------------------------------------
(* The walk over the tree, and the meanings of all elements.               *)

LEMMA LengthOf ==
  ASSUME NEW n \in Nat, NEW g, g = [k \in 1 .. n |-> g[k]]
  PROVE  Len(g) = n
<1> DEFINE S == {g[k] : k \in 1 .. n}
<1>1. g \in [1 .. n -> S]
  OBVIOUS
<1> HIDE DEF S
<1>2. g \in Seq(S) /\ DOMAIN g = 1 .. n
  BY <1>1
<1> QED
  BY <1>2

LEMMA TextLength ==
  ASSUME NEW f, IsText(f)
  PROVE  Len(f) \in Nat \ {0} /\ DOMAIN f = 1 .. Len(f)
BY DEF IsText

\* What the parser makes of a text.
LEMMA ParsedTree ==
  ASSUME NEW f, IsText(f), ParseJson(f) # <<>>
  PROVE  IsTree(ParseJson(f), f)
<1> DEFINE p == ParseJson(f)
<1>1. p = [k \in DOMAIN f |-> ParseNode(f[k])[1]] /\ \A k \in DOMAIN f : ParseNode(f[k]) # <<>>
  BY DEF ParseJson
<1>2. Len(f) \in Nat /\ DOMAIN f = 1 .. Len(f)
  BY TextLength
<1>3. \A k \in 1 .. Len(f) : IsNode(p[k], f[k])
  <2> TAKE k \in 1 .. Len(f)
  <2>1. p[k] = ParseNode(f[k])[1] /\ ParseNode(f[k]) # <<>>
    BY <1>1, <1>2
  <2> QED
    BY <2>1, Parsed
<1>4. p = [k \in 1 .. Len(f) |-> p[k]]
  BY <1>1, <1>2
<1> HIDE DEF p
<1>5. Len(p) = Len(f)
  BY <1>2, <1>4, LengthOf
<1> QED
  BY <1>3, <1>4, <1>5 DEF IsTree, p

\* g is t with x as its node k.
Put(g, t, k, x) == g = [t EXCEPT ![k] = x]

LEMMA Replaced ==
  ASSUME NEW f, IsText(f), NEW t, IsTree(t, f), NEW k \in 1 .. Len(f), NEW x, IsNode(x, f[k]),
         NEW g, Put(g, t, k, x)
  PROVE  IsTree(g, f) /\ g[k] = x /\ \A j \in 1 .. Len(f) : j # k => g[j] = t[j]
<1>1. t = [j \in 1 .. Len(f) |-> t[j]] /\ \A j \in 1 .. Len(f) : IsNode(t[j], f[j])
  BY DEF IsTree
<1>2. DOMAIN t = 1 .. Len(f)
  BY <1>1
<1>3. g = [j \in 1 .. Len(f) |-> g[j]] /\ g[k] = x /\ \A j \in 1 .. Len(f) : j # k => g[j] = t[j]
  BY <1>2 DEF Put
<1>4. Len(g) = Len(f)
  BY <1>3, TextLength, LengthOf
<1>5. \A j \in 1 .. Len(f) : IsNode(g[j], f[j])
  BY <1>1, <1>3
<1> QED
  BY <1>3, <1>4, <1>5 DEF IsTree

\* EvalTree visits the nodes one after the other.
LEMMA Walked ==
  ASSUME NEW t, Len(t) \in Nat, NEW rec
  PROVE  LET s == EvalTree(t, rec)
         IN  /\ s[0] = [ret |-> 0, tree |-> t]
             /\ \A k \in 1 .. Len(t) : s[k] = Visit(s[k - 1], k, rec)
<1> DEFINE n == Len(t)
           Step(h, k) == IF k = 0 THEN [ret |-> 0, tree |-> t] ELSE Visit(h[k - 1], k, rec)
           Goes(h, m) == \A k \in 0 .. m : h[k] = Step(h, k)
           T == {m \in 0 .. n : \E h : Goes(h, m)}
<1>1. 0 \in T
  <2> DEFINE h == [k \in 0 .. 0 |-> [ret |-> 0, tree |-> t]]
  <2>1. Goes(h, 0)
    OBVIOUS
  <2> HIDE DEF h, Goes
  <2> QED
    BY <2>1
<1>2. ASSUME NEW m \in 0 .. n - 1, m \in T
      PROVE  m + 1 \in T
  <2>1. PICK h : Goes(h, m)
    BY <1>2
  <2> DEFINE h2 == [k \in 0 .. m + 1 |-> IF k = m + 1 THEN Visit(h[m], m + 1, rec) ELSE h[k]]
  <2>2. ASSUME NEW k \in 0 .. m + 1
        PROVE  h2[k] = Step(h2, k)
    <3>1. CASE k = m + 1
      <4>1. k # 0 /\ k - 1 = m /\ m \in 0 .. m + 1 /\ m # m + 1
        BY <3>1
      <4>2. h2[k] = Visit(h[m], m + 1, rec) /\ h2[m] = h[m]
        BY <3>1, <4>1
      <4> HIDE DEF h2
      <4> QED
        BY <3>1, <4>1, <4>2
    <3>2. CASE k # m + 1 /\ k # 0
      <4>1. k \in 0 .. m /\ k - 1 \in 0 .. m + 1 /\ k - 1 # m + 1
        BY <3>2
      <4>2. h2[k] = h[k] /\ h2[k - 1] = h[k - 1]
        BY <3>2, <4>1
      <4>3. h[k] = Visit(h[k - 1], k, rec)
        BY <2>1, <3>2, <4>1
      <4> HIDE DEF h2
      <4> QED
        BY <3>2, <4>2, <4>3
    <3>3. CASE k # m + 1 /\ k = 0
      <4>1. k \in 0 .. m
        BY <3>3
      <4>2. h2[k] = h[k]
        BY <3>3, <4>1
      <4>3. h[k] = [ret |-> 0, tree |-> t]
        BY <2>1, <3>3, <4>1
      <4> HIDE DEF h2
      <4> QED
        BY <3>3, <4>2, <4>3
    <3> QED
      BY <3>1, <3>2, <3>3
  <2>3. Goes(h2, m + 1)
    <3> HIDE DEF h2, Step
    <3> QED
      BY <2>2
  <2> HIDE DEF h2, Goes
  <2> QED
    BY <2>3
<1>3. 0 .. n \subseteq T
  <2> HIDE DEF T
  <2> QED
    BY <1>1, <1>2, StepsReach
<1>4. PICK h : Goes(h, n)
  <2>1. n \in T
    BY <1>3
  <2> HIDE DEF Goes
  <2> QED
    BY <2>1
<1> DEFINE g == [k \in 0 .. n |-> h[k]]
<1>5. ASSUME NEW k \in 0 .. n
      PROVE  g[k] = Step(g, k)
  <2>1. CASE k = 0
    BY <1>4, <2>1
  <2>2. CASE k # 0
    <3>1. k - 1 \in 0 .. n
      BY <2>2
    <3>2. g[k] = h[k] /\ g[k - 1] = h[k - 1]
      BY <3>1
    <3>3. h[k] = Visit(h[k - 1], k, rec)
      BY <1>4, <2>2
    <3> HIDE DEF g
    <3> QED
      BY <2>2, <3>2, <3>3
  <2> QED
    BY <2>1, <2>2
<1>6. g = [k \in 0 .. n |-> Step(g, k)]
  <2> HIDE DEF Step
  <2> QED
    BY <1>5
<1>7. EvalTree(t, rec) = CHOOSE s : s = [k \in 0 .. n |-> Step(s, k)]
  BY Zenon DEF EvalTree
<1>8. EvalTree(t, rec) = [k \in 0 .. n |-> Step(EvalTree(t, rec), k)]
  <2> HIDE DEF Step
  <2> QED
    BY <1>6, <1>7, Zenon
<1> DEFINE s == EvalTree(t, rec)
<1>9. \A k \in 0 .. n : s[k] = Step(s, k)
  <2> HIDE DEF Step
  <2> QED
    BY <1>8
<1> HIDE DEF s
<1>10. 0 \in 0 .. n /\ \A k \in 1 .. n : k \in 0 .. n /\ k # 0
  OBVIOUS
<1> QED
  BY <1>9, <1>10 DEF s

LEMMA MeaningsWalk ==
  ASSUME NEW f, Len(f) \in Nat, NEW rec
  PROVE  LET U == Meanings(f, rec)
         IN  /\ U[0] = [j \in DOMAIN f |-> Wrong("unset")]
             /\ \A k \in 1 .. Len(f) :
                  U[k] = [U[k - 1] EXCEPT ![k] =
                            MeaningOf(f[k], f, [i \in DOMAIN f[k].child |-> U[k - 1][f[k].child[i]]], rec)]
<1> DEFINE Next1(v, k) ==
             [v EXCEPT ![k] = MeaningOf(f[k], f, [i \in DOMAIN f[k].child |-> v[f[k].child[i]]], rec)]
           n == Len(f)
           Step(h, k) == IF k = 0 THEN [j \in DOMAIN f |-> Wrong("unset")] ELSE Next1(h[k - 1], k)
           Goes(h, m) == \A k \in 0 .. m : h[k] = Step(h, k)
           T == {m \in 0 .. n : \E h : Goes(h, m)}
<1> HIDE DEF Next1
<1>1. 0 \in T
  <2> DEFINE h == [k \in 0 .. 0 |-> [j \in DOMAIN f |-> Wrong("unset")]]
  <2>1. Goes(h, 0)
    OBVIOUS
  <2> HIDE DEF h, Goes
  <2> QED
    BY <2>1
<1>2. ASSUME NEW m \in 0 .. n - 1, m \in T
      PROVE  m + 1 \in T
  <2>1. PICK h : Goes(h, m)
    BY <1>2
  <2> DEFINE h2 == [k \in 0 .. m + 1 |-> IF k = m + 1 THEN Next1(h[m], m + 1) ELSE h[k]]
  <2>2. ASSUME NEW k \in 0 .. m + 1
        PROVE  h2[k] = Step(h2, k)
    <3>1. CASE k = m + 1
      <4>1. k # 0 /\ k - 1 = m /\ m \in 0 .. m + 1 /\ m # m + 1
        BY <3>1
      <4>2. h2[k] = Next1(h[m], m + 1) /\ h2[m] = h[m]
        BY <3>1, <4>1
      <4> HIDE DEF h2
      <4> QED
        BY <3>1, <4>1, <4>2
    <3>2. CASE k # m + 1 /\ k # 0
      <4>1. k \in 0 .. m /\ k - 1 \in 0 .. m + 1 /\ k - 1 # m + 1
        BY <3>2
      <4>2. h2[k] = h[k] /\ h2[k - 1] = h[k - 1]
        BY <3>2, <4>1
      <4>3. h[k] = Next1(h[k - 1], k)
        BY <2>1, <3>2, <4>1
      <4> HIDE DEF h2
      <4> QED
        BY <3>2, <4>2, <4>3
    <3>3. CASE k # m + 1 /\ k = 0
      <4>1. k \in 0 .. m
        BY <3>3
      <4>2. h2[k] = h[k]
        BY <3>3, <4>1
      <4>3. h[k] = [j \in DOMAIN f |-> Wrong("unset")]
        BY <2>1, <3>3, <4>1
      <4> HIDE DEF h2
      <4> QED
        BY <3>3, <4>2, <4>3
    <3> QED
      BY <3>1, <3>2, <3>3
  <2>3. Goes(h2, m + 1)
    <3> HIDE DEF h2, Step
    <3> QED
      BY <2>2
  <2> HIDE DEF h2, Goes
  <2> QED
    BY <2>3
<1>3. 0 .. n \subseteq T
  <2> HIDE DEF T
  <2> QED
    BY <1>1, <1>2, StepsReach
<1>4. PICK h : Goes(h, n)
  <2>1. n \in T
    BY <1>3
  <2> HIDE DEF Goes
  <2> QED
    BY <2>1
<1> DEFINE g == [k \in 0 .. n |-> h[k]]
<1>5. ASSUME NEW k \in 0 .. n
      PROVE  g[k] = Step(g, k)
  <2>1. CASE k = 0
    BY <1>4, <2>1
  <2>2. CASE k # 0
    <3>1. k - 1 \in 0 .. n
      BY <2>2
    <3>2. g[k] = h[k] /\ g[k - 1] = h[k - 1]
      BY <3>1
    <3>3. h[k] = Next1(h[k - 1], k)
      BY <1>4, <2>2
    <3> HIDE DEF g
    <3> QED
      BY <2>2, <3>2, <3>3
  <2> QED
    BY <2>1, <2>2
<1>6. g = [k \in 0 .. n |-> Step(g, k)]
  <2> HIDE DEF Step
  <2> QED
    BY <1>5
<1>7. Meanings(f, rec) = CHOOSE s : s = [k \in 0 .. n |-> Step(s, k)]
  BY Zenon DEF Meanings, Next1
<1>8. Meanings(f, rec) = [k \in 0 .. n |-> Step(Meanings(f, rec), k)]
  <2> HIDE DEF Step
  <2> QED
    BY <1>6, <1>7, Zenon
<1> DEFINE s == Meanings(f, rec)
<1>9. \A k \in 0 .. n : s[k] = Step(s, k)
  <2> HIDE DEF Step
  <2> QED
    BY <1>8
<1> HIDE DEF s
<1>10. 0 \in 0 .. n /\ \A k \in 1 .. n : k \in 0 .. n /\ k # 0
  OBVIOUS
<1> QED
  BY <1>9, <1>10 DEF s, Next1

\* What an element means is said by what its children mean.
LEMMA MeaningsAre ==
  ASSUME NEW f, IsText(f), NEW rec
  PROVE  LET M == Meanings(f, rec)[Len(f)]
         IN  \A k \in 1 .. Len(f) :
               M[k] = MeaningOf(f[k], f, [i \in DOMAIN f[k].child |-> M[f[k].child[i]]], rec)
<1> DEFINE n == Len(f)
           U == Meanings(f, rec)
           At1(k) == MeaningOf(f[k], f, [i \in DOMAIN f[k].child |-> U[k - 1][f[k].child[i]]], rec)
           M == U[n]
           T == {k \in 0 .. n : DOMAIN U[k] = 1 .. n /\ \A i \in 1 .. k : \A j \in 1 .. i : U[k][j] = U[i][j]}
<1>1. n \in Nat /\ DOMAIN f = 1 .. n
  BY TextLength
<1>2. U[0] = [j \in 1 .. n |-> Wrong("unset")] /\ \A k \in 1 .. n : U[k] = [U[k - 1] EXCEPT ![k] = At1(k)]
  BY <1>1, MeaningsWalk
<1> HIDE DEF U
<1>3. 0 \in T
  <2>1. DOMAIN U[0] = 1 .. n
    BY <1>2
  <2> QED
    BY <1>1, <2>1
<1>4. ASSUME NEW k \in 0 .. n - 1, k \in T
      PROVE  k + 1 \in T
  <2>1. k + 1 \in 1 .. n /\ (k + 1) - 1 = k
    BY <1>1
  <2>2. U[k + 1] = [U[k] EXCEPT ![k + 1] = At1(k + 1)]
    BY <1>2, <2>1
  <2> HIDE DEF At1
  <2>3. DOMAIN U[k + 1] = 1 .. n /\ \A j \in 1 .. k : U[k + 1][j] = U[k][j]
    BY <1>1, <1>4, <2>2
  <2>4. ASSUME NEW i \in 1 .. k + 1, NEW j \in 1 .. i
        PROVE  U[k + 1][j] = U[i][j]
    <3>1. CASE i = k + 1
      BY <3>1
    <3>2. CASE i # k + 1
      <4>1. i \in 1 .. k /\ j \in 1 .. k
        BY <3>2
      <4> QED
        BY <1>4, <2>3, <4>1
    <3> QED
      BY <3>1, <3>2
  <2> QED
    BY <2>1, <2>3, <2>4
<1>5. n \in T
  <2> HIDE DEF T
  <2>1. 0 .. n \subseteq T
    BY <1>1, <1>3, <1>4, StepsReach
  <2> QED
    BY <1>1, <2>1
<1>6. \A i \in 1 .. n : \A j \in 1 .. i : M[j] = U[i][j]
  BY <1>5
<1>7. \A k \in 0 .. n : DOMAIN U[k] = 1 .. n
  <2> HIDE DEF T
  <2>1. 0 .. n \subseteq T
    BY <1>1, <1>3, <1>4, StepsReach
  <2> QED
    BY <2>1 DEF T
<1>8. ASSUME NEW k \in 1 .. n
      PROVE  M[k] = MeaningOf(f[k], f, [i \in DOMAIN f[k].child |-> M[f[k].child[i]]], rec)
  <2>1. k - 1 \in 0 .. n /\ k \in 1 .. k
    BY <1>1
  <2>2. U[k][k] = At1(k)
    <3>1. U[k] = [U[k - 1] EXCEPT ![k] = At1(k)] /\ DOMAIN U[k - 1] = 1 .. n
      BY <1>2, <1>7, <2>1
    <3> HIDE DEF At1
    <3> QED
      BY <3>1
  <2>3. M[k] = At1(k)
    <3> HIDE DEF M, At1
    <3> QED
      BY <1>6, <2>1, <2>2
  <2>4. ASSUME NEW i \in DOMAIN f[k].child
        PROVE  U[k - 1][f[k].child[i]] = M[f[k].child[i]]
    <3>1. f[k].child[i] \in 1 .. k - 1
      BY <1>1, Children
    <3>2. k - 1 \in 1 .. n
      BY <1>1, <3>1
    <3> HIDE DEF M
    <3> QED
      BY <1>6, <3>1, <3>2
  <2>5. [i \in DOMAIN f[k].child |-> U[k - 1][f[k].child[i]]] = [i \in DOMAIN f[k].child |-> M[f[k].child[i]]]
    <3> HIDE DEF M
    <3> QED
      BY <2>4
  <2> QED
    BY <2>3, <2>5, Zenon DEF At1
<1> QED
  BY <1>8 DEF U

\* An error in a part is one of the whole.
LEMMA ErrorRises ==
  ASSUME NEW f, IsText(f), NEW rec, NEW j0 \in 1 .. Len(f), Meanings(f, rec)[Len(f)][j0].is = "error"
  PROVE  Meaning(f, rec).is = "error"
<1> DEFINE n == Len(f)
           M == Meanings(f, rec)[n]
           T == {k \in 0 .. n : \E j \in 1 .. n : k <= j /\ M[j].is = "error"}
<1>1. n \in Nat /\ DOMAIN f = 1 .. n
  BY TextLength
<1> HIDE DEF M
<1>2. 0 \in T
  BY <1>1 DEF M
<1>3. ASSUME NEW k \in 0 .. n - 1, k \in T
      PROVE  k + 1 \in T
  <2>1. PICK j \in 1 .. n : k <= j /\ M[j].is = "error"
    BY <1>3
  <2>2. CASE k + 1 <= j
    BY <2>1, <2>2
  <2>3. CASE j = k
    <3>1. j \in 1 .. n - 1
      BY <1>1, <2>1, <2>3
    <3>2. PICK p \in 1 .. n : \E i \in DOMAIN f[p].child : f[p].child[i] = j
      BY <1>1, <3>1 DEF IsText
    <3>3. PICK i \in DOMAIN f[p].child : f[p].child[i] = j
      BY <3>2
    <3>4. j \in 1 .. p - 1
      BY <1>1, <3>3, Children
    <3> DEFINE ms == [c \in DOMAIN f[p].child |-> M[f[p].child[c]]]
    <3>5. M[p] = MeaningOf(f[p], f, ms, rec)
      BY MeaningsAre DEF M
    <3>6. i \in DOMAIN ms /\ ms[i].is = "error"
      BY <2>1, <3>3
    <3>7. f[p].op # "NONE"
      <4>1. f[p].op = "NONE" => f[p].child = <<>>
        BY <1>1 DEF IsText
      <4> QED
        BY <3>3, <4>1
    <3> HIDE DEF ms
    <3>8. M[p] = Wrong("error")
      BY <3>5, <3>6, <3>7 DEF MeaningOf
    <3>9. M[p].is = "error"
      BY <3>8 DEF Wrong
    <3>10. k + 1 <= p
      BY <2>3, <3>4
    <3> QED
      BY <1>1, <3>9, <3>10
  <2> QED
    BY <2>1, <2>2, <2>3
<1>4. n \in T
  <2> HIDE DEF T
  <2>1. 0 .. n \subseteq T
    BY <1>1, <1>2, <1>3, StepsReach
  <2> QED
    BY <1>1, <2>1
<1>5. PICK j \in 1 .. n : n <= j /\ M[j].is = "error"
  BY <1>4
<1>6. j = n
  <2>1. n \in Int /\ j \in Int /\ j <= n /\ n <= j
    BY <1>1, <1>5
  <2> HIDE DEF n
  <2> QED
    BY <2>1
<1> QED
  BY <1>5, <1>6 DEF Meaning, M

\* Every visit leaves a tree, and no later visit changes what it leaves of
\* its node.
LEMMA Course ==
  ASSUME NEW f, IsText(f), NEW t, IsTree(t, f), NEW rec
  PROVE  LET s == EvalTree(t, rec)
             n == Len(f)
         IN  /\ \A k \in 0 .. n : IsTree(s[k].tree, f)
             /\ \A k \in 0 .. n : \A j \in 1 .. k : s[k].tree[j] = s[n].tree[j]
             /\ s[0].ret = 0
             /\ \A k \in 1 .. n :
                  /\ s[k - 1].ret # 0 => s[k] = s[k - 1]
                  /\ s[k - 1].ret = 0 =>
                       /\ s[k].ret = EvalNode(s[k - 1].tree, k, rec).ret
                       /\ s[k].tree[k] = EvalNode(s[k - 1].tree, k, rec).node
<1> DEFINE n == Len(f)
           s == EvalTree(t, rec)
           r(k) == EvalNode(s[k - 1].tree, k, rec)
           T == {k \in 0 .. n : /\ IsTree(s[k].tree, f)
                                /\ \A i \in 1 .. k : \A j \in 1 .. i : s[k].tree[j] = s[i].tree[j]}
<1>1. n \in Nat /\ DOMAIN f = 1 .. n /\ Len(t) = n
  BY TextLength DEF IsTree
<1>2. /\ s[0] = [ret |-> 0, tree |-> t]
      /\ \A k \in 1 .. n : s[k] = Visit(s[k - 1], k, rec)
  BY <1>1, Walked
<1> HIDE DEF s
<1>3. ASSUME NEW k \in 1 .. n
      PROVE  /\ s[k - 1].ret # 0 => s[k] = s[k - 1]
             /\ s[k - 1].ret = 0 => s[k] = [ret |-> r(k).ret, tree |-> [s[k - 1].tree EXCEPT ![k] = r(k).node]]
  BY <1>2, Zenon DEF Visit
<1>4. 0 \in T
  BY <1>1, <1>2
<1>5. ASSUME NEW k \in 0 .. n - 1, k \in T
      PROVE  /\ k + 1 \in T
             /\ s[k].ret = 0 => s[k + 1].tree[k + 1] = r(k + 1).node
  <2>1. k + 1 \in 1 .. n /\ (k + 1) - 1 = k /\ k + 1 \in 0 .. n
    BY <1>1
  <2>2. IsTree(s[k].tree, f) /\ \A i \in 1 .. k : \A j \in 1 .. i : s[k].tree[j] = s[i].tree[j]
    BY <1>5
  <2>3. /\ IsTree(s[k + 1].tree, f)
        /\ \A j \in 1 .. k : s[k + 1].tree[j] = s[k].tree[j]
        /\ s[k].ret = 0 => s[k + 1].tree[k + 1] = r(k + 1).node
    <3>1. CASE s[k].ret # 0
      <4>1. s[k + 1] = s[k]
        BY <1>3, <2>1, <3>1
      <4> QED
        BY <2>2, <3>1, <4>1
    <3>2. CASE s[k].ret = 0
      <4> DEFINE x == r(k + 1).node
                 g == [s[k].tree EXCEPT ![k + 1] = x]
      <4>1. IsNode(x, f[k + 1])
        <5>1. IsNode(s[k].tree[k + 1], f[k + 1]) /\ k + 1 \in DOMAIN f
          BY <1>1, <2>1, <2>2 DEF IsTree
        <5> QED
          BY <2>1, <5>1, NodeStays
      <4>2. s[k + 1] = [ret |-> r(k + 1).ret, tree |-> g]
        BY <1>3, <2>1, <3>2
      <4>3. s[k + 1].tree = g
        BY <4>2
      <4>4. \A j \in 1 .. k : j \in 1 .. n /\ j # k + 1
        BY <1>1
      <4> HIDE DEF x
      <4>5. IsTree(g, f) /\ g[k + 1] = x /\ \A j \in 1 .. n : j # k + 1 => g[j] = s[k].tree[j]
        <5> DEFINE u == s[k].tree
                   q == k + 1
        <5>1. IsTree(u, f) /\ q \in 1 .. Len(f) /\ IsNode(x, f[q]) /\ Put(g, u, q, x)
          BY <2>1, <2>2, <4>1 DEF Put
        <5> HIDE DEF u, q, g
        <5>2. IsTree(g, f) /\ g[q] = x /\ \A j \in 1 .. Len(f) : j # q => g[j] = u[j]
          BY <5>1, Replaced
        <5> QED
          BY <5>2 DEF u, q
      <4> HIDE DEF g
      <4> QED
        BY <4>3, <4>4, <4>5 DEF x
    <3> QED
      BY <3>1, <3>2
  <2>4. ASSUME NEW i \in 1 .. k + 1, NEW j \in 1 .. i
        PROVE  s[k + 1].tree[j] = s[i].tree[j]
    <3>1. CASE i = k + 1
      BY <3>1
    <3>2. CASE i # k + 1
      <4>1. i \in 1 .. k /\ j \in 1 .. k
        BY <3>2
      <4> QED
        BY <2>2, <2>3, <4>1
    <3> QED
      BY <3>1, <3>2
  <2> QED
    BY <2>1, <2>3, <2>4
<1>6. 0 .. n \subseteq T
  <2> HIDE DEF T
  <2> QED
    BY <1>1, <1>4, <1>5, StepsReach
<1>7. \A k \in 0 .. n : IsTree(s[k].tree, f)
  BY <1>6
<1>8. ASSUME NEW k \in 0 .. n, NEW j \in 1 .. k
      PROVE  s[k].tree[j] = s[n].tree[j]
  <2>1. n \in T /\ k \in 1 .. n
    BY <1>1, <1>6
  <2> QED
    BY <2>1
<1>9. ASSUME NEW k \in 1 .. n
      PROVE  /\ s[k - 1].ret # 0 => s[k] = s[k - 1]
             /\ s[k - 1].ret = 0 => s[k].ret = r(k).ret /\ s[k].tree[k] = r(k).node
  <2>1. k - 1 \in 0 .. n - 1 /\ k - 1 \in 0 .. n /\ (k - 1) + 1 = k
    BY <1>1
  <2>2. k - 1 \in T
    BY <1>6, <2>1
  <2> HIDE DEF T, r
  <2>3. s[k - 1].ret = 0 => s[k].tree[k] = r(k).node
    BY <1>5, <2>1, <2>2
  <2>4. s[k - 1].ret = 0 => s[k].ret = r(k).ret
    <3> HAVE s[k - 1].ret = 0
    <3>1. s[k] = [ret |-> r(k).ret, tree |-> [s[k - 1].tree EXCEPT ![k] = r(k).node]]
      BY <1>3
    <3> QED
      BY <3>1
  <2> QED
    BY <1>3, <2>3, <2>4
<1>10. s[0].ret = 0
  BY <1>2
<1> QED
  BY <1>7, <1>8, <1>9, <1>10 DEF s

\* The whole walk: it fails exactly when the expression is an error, and the
\* root holds what it means.
LEMMA TreeMeans ==
  ASSUME NEW f, IsText(f), NEW t, IsTree(t, f), NEW rec,
         \A k \in 1 .. Len(f) :
           LET u == EvalTree(t, rec)[Len(f)].tree
           IN  /\ u[k].kind \in EXTERN => TypeKept(u[k], rec)
               /\ ~Misread(u, k)
  PROVE  LET z == EvalTree(t, rec)[Len(f)]
         IN  Renders([ret |-> z.ret, node |-> z.tree[Len(f)]], Meaning(f, rec))
<1> DEFINE n == Len(f)
           s == EvalTree(t, rec)
           u == s[n].tree
           M == Meanings(f, rec)[n]
           r(k) == EvalNode(s[k - 1].tree, k, rec)
           T == {k \in 0 .. n : /\ s[k].ret = 0 => \A j \in 1 .. k : Matches(u[j], M[j])
                                /\ s[k].ret # 0 => \E j \in 1 .. n : M[j].is = "error"}
<1>1. n \in Nat \ {0} /\ DOMAIN f = 1 .. n
  BY TextLength
<1>2. /\ \A k \in 0 .. n : IsTree(s[k].tree, f)
      /\ \A k \in 0 .. n : \A j \in 1 .. k : s[k].tree[j] = u[j]
      /\ s[0].ret = 0
      /\ \A k \in 1 .. n : /\ s[k - 1].ret # 0 => s[k] = s[k - 1]
                           /\ s[k - 1].ret = 0 => s[k].ret = r(k).ret /\ s[k].tree[k] = r(k).node
  BY Course
<1>3. \A k \in 1 .. n : /\ u[k].kind \in EXTERN => TypeKept(u[k], rec)
                        /\ ~Misread(u, k)
  OBVIOUS
<1>4. \A k \in 1 .. n : M[k] = MeaningOf(f[k], f, [i \in DOMAIN f[k].child |-> M[f[k].child[i]]], rec)
  BY MeaningsAre
<1> HIDE DEF s, u, M
<1>5. 0 \in T
  BY <1>1, <1>2
<1>6. ASSUME NEW p \in 0 .. n - 1, p \in T
      PROVE  p + 1 \in T
  <2> DEFINE k == p + 1
             v == s[p].tree
  <2>1. k \in 1 .. n /\ k - 1 = p /\ p \in 0 .. n /\ k \in 0 .. n /\ k \in DOMAIN f /\ p \in Int
    BY <1>1
  <2> HIDE DEF k
  <2>2. CASE s[p].ret # 0
    <3>1. s[k] = s[p]
      BY <1>2, <2>1, <2>2
    <3>2. \E j \in 1 .. n : M[j].is = "error"
      BY <1>6, <2>2
    <3>3. k \in T
      BY <2>1, <2>2, <3>1, <3>2
    <3> QED
      BY <3>3 DEF k
  <2>3. CASE s[p].ret = 0
    <3>1. s[k].ret = r(k).ret /\ s[k].tree[k] = r(k).node /\ r(k) = EvalNode(v, k, rec)
      BY <1>2, <2>1, <2>3
    <3>2. k \in 1 .. k /\ \A j \in 1 .. k : j \in 1 .. n /\ (j # k => j \in 1 .. p)
      BY <1>1, <2>1
    <3>3. u[k] = r(k).node
      BY <1>2, <2>1, <3>1, <3>2
    <3>4. \A j \in 1 .. p : v[j] = u[j] /\ Matches(v[j], M[j])
      <4>1. \A j \in 1 .. p : v[j] = u[j]
        BY <1>2, <2>1
      <4>2. \A j \in 1 .. p : Matches(u[j], M[j])
        BY <1>6, <2>3
      <4> QED
        BY <4>1, <4>2
    <3>5. \A j \in 1 .. n : IsNode(v[j], f[j]) /\ IsNode(u[j], f[j])
      <4>1. n \in 0 .. n
        BY <1>1
      <4>2. IsTree(v, f) /\ IsTree(u, f)
        BY <1>2, <2>1, <4>1 DEF u
      <4> QED
        BY <4>2 DEF IsTree
    <3>6. v[k].kind \in EXTERN => TypeKept(EvalNode(v, k, rec).node, rec)
      <4>1. IsNode(v[k], f[k]) /\ IsNode(u[k], f[k])
        BY <2>1, <3>5
      <4>2. v[k].kind \in EXTERN => u[k].kind \in EXTERN
        BY <4>1, KindsApart DEF IsNode
      <4>3. u[k] = EvalNode(v, k, rec).node
        BY <3>1, <3>3
      <4> QED
        BY <1>3, <2>1, <4>2, <4>3
    <3>7. ~Misread(v, k)
      <4>1. IsNode(v[k], f[k]) /\ IsNode(u[k], f[k])
        BY <2>1, <3>5
      <4>2. CASE v[k].op \in LOGIC
        <5>1. f[k].op \in LOGIC
          BY <4>1, <4>2, KindsApart DEF IsNode, LOGIC, COMPARE
        <5>2. v[k].op = f[k].op /\ v[k].child = f[k].child /\ u[k].op = f[k].op /\ u[k].child = f[k].child
          BY <4>1, <5>1, KindsApart DEF IsNode
        <5>3. Len(f[k].child) = 2 /\ f[k].child \in [1 .. Len(f[k].child) -> 1 .. k - 1]
          BY <2>1, <5>1 DEF IsText
        <5>4. f[k].child[1] \in 1 .. p /\ f[k].child[2] \in 1 .. p
          BY <2>1, <5>3
        <5>5. \A i \in {1, 2} : Kid(v, k, i) = Kid(u, k, i)
          BY <3>4, <5>2, <5>4 DEF Kid
        <5>6. ~Misread(u, k)
          BY <1>3, <2>1
        <5> QED
          BY <5>2, <5>5, <5>6 DEF Misread
      <4>3. CASE v[k].op \notin LOGIC
        BY <4>3 DEF Misread, LOGIC
      <4> QED
        BY <4>2, <4>3
    <3>8. Renders(EvalNode(v, k, rec), M[k])
      <4>1. \A j \in 1 .. k : IsNode(v[j], f[j])
        BY <3>2, <3>5
      <4>2. \A j \in 1 .. k - 1 : Matches(v[j], M[j])
        BY <2>1, <3>4
      <4> HIDE DEF v
      <4>3. Renders(EvalNode(v, k, rec),
                  MeaningOf(f[k], f, [i \in DOMAIN f[k].child |-> M[f[k].child[i]]], rec))
        BY <2>1, <3>6, <3>7, <4>1, <4>2, NodeMeans
      <4>4. M[k] = MeaningOf(f[k], f, [i \in DOMAIN f[k].child |-> M[f[k].child[i]]], rec)
        BY <1>4, <2>1
      <4> QED
        BY <4>3, <4>4
    <3> HIDE DEF r, v
    <3>9. CASE s[k].ret = 0
      <4>1. Matches(u[k], M[k])
        BY <3>1, <3>3, <3>8, <3>9 DEF Renders
      <4>2. \A j \in 1 .. k : Matches(u[j], M[j])
        <5> TAKE j \in 1 .. k
        <5>1. CASE j = k
          BY <4>1, <5>1
        <5>2. CASE j # k
          BY <3>2, <3>4, <5>2
        <5> QED
          BY <5>1, <5>2
      <4>3. k \in T
        BY <2>1, <3>9, <4>2
      <4> QED
        BY <4>3 DEF k
    <3>10. CASE s[k].ret # 0
      <4>1. M[k].is = "error"
        BY <3>1, <3>8, <3>10 DEF Renders
      <4>2. k \in T
        BY <2>1, <3>10, <4>1
      <4> QED
        BY <4>2 DEF k
    <3> QED
      BY <3>9, <3>10
  <2> QED
    BY <2>2, <2>3
<1>7. n \in T
  <2> HIDE DEF T
  <2>1. 0 .. n \subseteq T
    BY <1>1, <1>5, <1>6, StepsReach
  <2> QED
    BY <1>1, <2>1
<1>8. n \in 1 .. n
  BY <1>1
<1>9. CASE s[n].ret = 0
  <2>1. Matches(u[n], M[n])
    BY <1>7, <1>8, <1>9
  <2> QED
    BY <1>9, <2>1 DEF Renders, Matches, Meaning, s, u, M
<1>10. CASE s[n].ret # 0
  <2>1. PICK j \in 1 .. n : M[j].is = "error"
    BY <1>7, <1>10
  <2>2. Meaning(f, rec).is = "error"
    BY <2>1, ErrorRises DEF M
  <2> QED
    BY <1>10, <2>2 DEF Renders, s
<1> QED
  BY <1>9, <1>10
-----------------------------------------------------------------------------
(* A tree that kr_calc_check accepts does not fail.                        *)

\* A node that has its value, as the check and the evaluation of the nodes
\* above it need it.
Present(n) == n.set = TRUE /\ (n.kind \in MULTI => n.type = "POINTER")

\* Node k has a type, passes the check and finds the value it asks for.
Accepted(t, k, rec) ==
  /\ t[k].type # "UNKNOWN"
  /\ t[k].op \in {"BL", "NBL"} => Kid(t, k, 1).type # "POINTER"
  /\ t[k].kind \in EXTERN => rec.value[[kind |-> t[k].kind, id |-> t[k].id]] # <<>>
  /\ CheckNode(t, k)

\* The walk has passed the nodes before k of v as u has them in the end.
Passed(u, v, k) == \A j \in 1 .. k - 1 : v[j] = u[j] /\ Present(u[j]) /\ u[j].type # "UNKNOWN"

\* Node k of u is what an evaluation leaves of that of v.
Written(u, v, k, rec) == u[k] = EvalNode(v, k, rec).node

\* An operator that the check accepts, on operands that have their values.
LEMMA OperatorPasses ==
  ASSUME NEW f, IsText(f), NEW v, NEW u, NEW k \in DOMAIN f, NEW rec,
         IsNode(v[k], f[k]), IsNode(u[k], f[k]), f[k].op # "NONE",
         Passed(u, v, k),
         Accepted(u, k, rec)
  PROVE  \E x : EvalNode(v, k, rec) = Yields(v[k], x)
<1> DEFINE n == v[k]
           e == f[k]
           c == [i \in DOMAIN e.child |-> v[e.child[i]]]
           l == Kid(v, k, 1)
           r == Kid(v, k, 2)
<1>1. /\ n.kind \in {"REL", "ARITH", "LOGIC"} /\ n.op = e.op /\ n.child = e.child
      /\ u[k].kind = n.kind /\ u[k].op = n.op /\ u[k].child = n.child
      /\ n.kind = "REL" => e.op \in REL
      /\ n.kind = "ARITH" => e.op \in ARITH /\ n.type = "DOUBLE"
      /\ n.kind = "LOGIC" => e.op \in LOGIC
  BY KindsApart DEF IsNode
<1>2. \A i \in DOMAIN e.child :
        /\ Kid(v, k, i) = Kid(u, k, i) /\ Kid(v, k, i) = c[i]
        /\ Present(c[i]) /\ c[i].type # "UNKNOWN"
  <2> TAKE i \in DOMAIN e.child
  <2>1. e.child[i] \in 1 .. k - 1
    BY Children
  <2> QED
    BY <1>1, <2>1 DEF Kid, Passed
<1>3. CASE n.kind = "REL"
  <2>1. \A i \in DOMAIN e.child : c[i].type \in {"BOOL", "INT"}
    <3>1. \A i \in DOMAIN e.child : \/ \E j \in 1 .. i : Kid(u, k, j).type = "UNKNOWN"
                                    \/ Kid(u, k, i).type \in {"BOOL", "INT"}
      BY <1>1, <1>3 DEF CheckNode, Accepted
    <3> TAKE i \in DOMAIN e.child
    <3>2. \A j \in 1 .. i : j \in DOMAIN e.child
      BY DEF IsText
    <3>3. \A j \in 1 .. i : Kid(u, k, j).type # "UNKNOWN"
      <4> TAKE j \in 1 .. i
      <4>1. Kid(v, k, j) = Kid(u, k, j) /\ Kid(v, k, j) = c[j] /\ c[j].type # "UNKNOWN"
        BY <1>2, <3>2
      <4> HIDE DEF c
      <4> QED
        BY <4>1
    <3> QED
      BY <1>2, <3>1, <3>3
  <2>2. EvalNode(v, k, rec) = EvalRel(n, c)
    <3>1. [i \in DOMAIN n.child |-> Kid(v, k, i)] = c
      BY <1>1, <1>2
    <3> QED
      BY <1>3, <3>1, Dispatched
  <2> DEFINE Bad(i) == ~c[i].set \/ c[i].type \notin {"BOOL", "INT"}
             Decides(i) == (n.op = "AND") = Same(c[i].value, Num(0))
             stops == {i \in DOMAIN c : Bad(i) \/ Decides(i)}
  <2>3. EvalRel(n, c) = IF stops = {} THEN Yields(n, Bool(n.op # "OR"))
                        ELSE IF Bad(Min(stops)) THEN Fails(n)
                        ELSE Yields(n, Bool(n.op = "OR"))
    BY Zenon DEF EvalRel
  <2>4. \A i \in DOMAIN e.child : ~Bad(i)
    BY <1>2, <2>1 DEF Present
  <2>5. CASE stops = {}
    BY <2>2, <2>3, <2>5
  <2>6. CASE stops # {}
    <3>1. stops \in SUBSET Nat /\ stops \subseteq DOMAIN e.child
      BY DEF IsText
    <3>2. Min(stops) \in DOMAIN e.child
      <4> HIDE DEF stops
      <4>1. Min(stops) \in stops
        BY <2>6, <3>1, MinOf
      <4> QED
        BY <3>1, <4>1
    <3>3. ~Bad(Min(stops))
      BY <2>4, <3>2
    <3> HIDE DEF stops, Bad
    <3> QED
      BY <2>2, <2>3, <2>6, <3>3
  <2> QED
    BY <2>5, <2>6
<1>4. ASSUME n.kind \in {"ARITH", "LOGIC"}
      PROVE  /\ l.set = TRUE /\ r.set = TRUE
             /\ r.kind \in MULTI => r.type = "POINTER"
             /\ ~Mismatch(u[k], l, r)
             /\ u[k].op \in {"BL", "NBL"} => l.type # "POINTER"
  <2>1. Len(e.child) = 2 /\ 1 \in DOMAIN e.child /\ 2 \in DOMAIN e.child
    BY <1>1, <1>4 DEF IsText
  <2>2. /\ l = Kid(u, k, 1) /\ r = Kid(u, k, 2) /\ Present(l) /\ Present(r)
        /\ l.type # "UNKNOWN" /\ r.type # "UNKNOWN"
    BY <1>2, <2>1
  <2>3. ~Mismatch(u[k], Kid(u, k, 1), Kid(u, k, 2))
    <3>1. \/ \E i \in {1, 2} : Kid(u, k, i).type = "UNKNOWN"
          \/ ~Mismatch(u[k], Kid(u, k, 1), Kid(u, k, 2))
      BY <1>1, <1>4, Zenon DEF CheckNode, Accepted
    <3> QED
      BY <2>2, <3>1
  <2> HIDE DEF l, r
  <2> QED
    BY <2>2, <2>3 DEF Present, Accepted
<1>5. CASE n.kind = "ARITH"
  <2>1. l.type \in NUMERIC /\ r.type \in NUMERIC /\ n.type \in NUMERIC
    <3> HIDE DEF l, r
    <3>1. l.type \in NUMERIC /\ r.type \in NUMERIC
      BY <1>1, <1>4, <1>5 DEF Mismatch, ARITH, COMPARE
    <3> QED
      BY <1>1, <1>5, <3>1 DEF NUMERIC
  <2>2. EvalNode(v, k, rec) = EvalArith(n, l, r)
    BY <1>5, Dispatched
  <2> HIDE DEF l, r
  <2> QED
    BY <1>4, <1>5, <2>1, <2>2 DEF EvalArith
<1>6. CASE n.kind = "LOGIC"
  <2>1. EvalNode(v, k, rec) = EvalLogic(n, l, r)
    BY <1>6, Dispatched
  <2> HIDE DEF l, r
  <2>2. l.set /\ r.set /\ u[k].op = n.op /\ u[k].kind # "ARITH" /\ n.op \in LOGIC
    BY <1>1, <1>4, <1>6
  <2>3. CASE n.op \in COMPARE
    <3>1. (l.type = "STRING") = (r.type = "STRING")
      BY <1>4, <1>6, <2>2, <2>3 DEF Mismatch, COMPARE
    <3> QED
      BY <2>1, <2>2, <2>3, <3>1 DEF EvalLogic, COMPARE
  <2>4. CASE n.op \in {"BL", "NBL"}
    <3>1. r.kind \in MULTI /\ l.type = r.type
      BY <1>4, <1>6, <2>2, <2>4 DEF Mismatch, COMPARE
    <3> QED
      BY <1>4, <1>6, <2>2, <2>4, <3>1
  <2>5. CASE n.op = "MATCH"
    <3>1. l.type = "STRING" /\ r.kind = "REGEX"
      BY <1>4, <1>6, <2>2, <2>5 DEF Mismatch, COMPARE
    <3> QED
      BY <2>1, <2>2, <2>5, <3>1 DEF EvalLogic, COMPARE
  <2> QED
    BY <2>2, <2>3, <2>4, <2>5 DEF LOGIC
<1> QED
  BY <1>1, <1>3, <1>5, <1>6

\* Any node: what it leaves in the tree u has a value.
LEMMA NodePasses ==
  ASSUME NEW f, IsText(f), NEW v, NEW u, NEW k \in DOMAIN f, NEW rec,
         IsNode(v[k], f[k]), IsNode(u[k], f[k]), Written(u, v, k, rec),
         Passed(u, v, k),
         Accepted(u, k, rec)
  PROVE  EvalNode(v, k, rec).ret = 0 /\ Present(u[k])
<1> DEFINE n == v[k]
           e == f[k]
           r == EvalNode(v, k, rec)
           id == [kind |-> e.kind, id |-> e.value]
<1>1. DOMAIN n = Parts /\ (e.op = "NONE" => e.kind \in EXTERN \cup CONST /\ n.kind = e.kind)
  BY KindsApart DEF IsNode
<1>2. CASE e.op # "NONE"
  <2>1. PICK x : r = Yields(n, x)
    BY <1>2, OperatorPasses
  <2>2. r.ret = 0 /\ r.node.set = TRUE
    <3>1. DOMAIN n = Parts
      BY <1>1
    <3> HIDE DEF n
    <3>2. Yields(n, x).ret = 0 /\ Yields(n, x).node.set = TRUE
      BY <3>1, YieldsLeaves
    <3> HIDE DEF r
    <3> QED
      BY <2>1, <3>2
  <2>3. u[k].kind \notin MULTI
    <3>1. u[k].kind \in {"ARITH", "LOGIC", "REL"}
      BY <1>2 DEF IsNode
    <3> QED
      BY <3>1 DEF MULTI
  <2> QED
    BY <2>2, <2>3 DEF Present, Written
<1>3. CASE e.op = "NONE" /\ e.kind \in EXTERN
  <2>1. r = EvalExtern(n, rec)
    <3>1. v[k].kind \in EXTERN
      BY <1>1, <1>3
    <3>2. EvalNode(v, k, rec) = EvalExtern(v[k], rec)
      BY <3>1 DEF EvalNode, EXTERN
    <3> QED
      BY <3>2
  <2> DEFINE type == IF n.type = "UNKNOWN" THEN rec.type[id] ELSE n.type
             q == EvalExtern(n, rec)
  <2>2. /\ q.ret # 0 => type = "UNKNOWN" /\ q.node.type = n.type
        /\ q.ret = 0 => /\ q.node.set = (rec.value[id] # <<>>)
                        /\ rec.value[id] # <<>> => q.node.type = IF e.kind = "SET" THEN "POINTER" ELSE type
    <3>1. IsNode(n, e) /\ e.op = "NONE" /\ e.kind \in EXTERN
      BY <1>3
    <3> HIDE DEF n, e
    <3> QED
      BY <3>1, LookedUp
  <2>3. u[k].kind = e.kind /\ u[k].id = e.value
    BY <1>3, KindsApart DEF IsNode
  <2>4. rec.value[id] # <<>>
    BY <1>3, <2>3 DEF Accepted
  <2>5. q.node.type # "UNKNOWN"
    BY <2>1 DEF Accepted, Written
  <2> HIDE DEF q, id
  <2>6. q.ret = 0
    BY <2>2, <2>5
  <2>7. q.node.set = TRUE /\ (e.kind = "SET" => q.node.type = "POINTER")
    BY <2>2, <2>4, <2>6
  <2>8. u[k].kind \in MULTI => e.kind = "SET"
    BY <1>3, <2>3 DEF MULTI, EXTERN
  <2>9. u[k] = q.node /\ r.ret = 0
    BY <2>1, <2>6 DEF q, Written
  <2> QED
    BY <2>7, <2>8, <2>9 DEF Present
<1>4. CASE e.op = "NONE" /\ e.kind \in CONST
  <2>1. r = [ret |-> 0, node |-> n]
    <3>1. v[k].kind \in CONST
      BY <1>1, <1>4
    <3> QED
      BY <3>1, Dispatched
  <2>2. u[k].set = TRUE /\ u[k].kind = e.kind /\ u[k].type = Constant(e).type
    BY <1>4, KindsApart DEF IsNode
  <2>3. u[k].kind \in MULTI => u[k].type = "POINTER"
    BY <1>4, <2>2 DEF MULTI, CONST, Constant, Value
  <2> QED
    BY <2>1, <2>2, <2>3 DEF Present, Written
<1> QED
  BY <1>1, <1>2, <1>3, <1>4

\* The whole walk: judged by the types it leaves in the tree, no node fails.
LEMMA TreePasses ==
  ASSUME NEW f, IsText(f), NEW t, IsTree(t, f), NEW rec,
         LET u == EvalTree(t, rec)[Len(f)].tree
         IN  Typed(u) /\ Check(u) /\ AllHere(u, rec)
  PROVE  EvalTree(t, rec)[Len(f)].ret = 0
<1> DEFINE n == Len(f)
           s == EvalTree(t, rec)
           u == s[n].tree
           r(k) == EvalNode(s[k - 1].tree, k, rec)
           T == {k \in 0 .. n : s[k].ret = 0 /\ \A j \in 1 .. k : Present(u[j])}
<1>1. n \in Nat \ {0} /\ DOMAIN f = 1 .. n
  BY TextLength
<1>2. /\ \A k \in 0 .. n : IsTree(s[k].tree, f)
      /\ \A k \in 0 .. n : \A j \in 1 .. k : s[k].tree[j] = u[j]
      /\ s[0].ret = 0
      /\ \A k \in 1 .. n : /\ s[k - 1].ret # 0 => s[k] = s[k - 1]
                           /\ s[k - 1].ret = 0 => s[k].ret = r(k).ret /\ s[k].tree[k] = r(k).node
  BY Course
<1>3. Typed(u) /\ Check(u) /\ AllHere(u, rec)
  OBVIOUS
<1> HIDE DEF s, u
<1>4. IsTree(u, f) /\ DOMAIN u = 1 .. n
  <2>1. IsTree(u, f)
    BY <1>1, <1>2 DEF u
  <2> QED
    BY <2>1 DEF IsTree
<1>5. 0 \in T
  BY <1>1, <1>2
<1>6. ASSUME NEW p \in 0 .. n - 1, p \in T
      PROVE  p + 1 \in T
  <2> DEFINE k == p + 1
             v == s[p].tree
  <2>1. k \in 1 .. n /\ k - 1 = p /\ p \in 0 .. n /\ k \in 0 .. n /\ k \in DOMAIN f /\ p \in Int
    BY <1>1
  <2>2. s[p].ret = 0 /\ \A j \in 1 .. p : Present(u[j])
    BY <1>6
  <2> HIDE DEF k, T
  <2>3. s[k].ret = EvalNode(v, k, rec).ret /\ s[k].tree[k] = EvalNode(v, k, rec).node
    BY <1>2, <2>1, <2>2
  <2>4. k \in 1 .. k /\ \A j \in 1 .. k : j \in 1 .. n /\ (j # k => j \in 1 .. p)
    BY <1>1, <2>1
  <2>5. u[k] = EvalNode(v, k, rec).node
    BY <1>2, <2>1, <2>3, <2>4
  <2>6. IsNode(v[k], f[k]) /\ IsNode(u[k], f[k])
    <3>1. IsTree(v, f)
      BY <1>2, <2>1
    <3> QED
      BY <1>4, <2>1, <3>1 DEF IsTree
  <2>7. \A j \in 1 .. n : u[j].type # "UNKNOWN"
    BY <1>3, <1>4 DEF Typed
  <2>8. Passed(u, v, k)
    <3>1. \A j \in 1 .. p : v[j] = u[j] /\ j \in 1 .. n
      BY <1>2, <2>1
    <3> QED
      BY <2>1, <2>2, <2>7, <3>1 DEF Passed
  <2>9. Accepted(u, k, rec)
    <3>1. k \in DOMAIN u
      BY <1>4, <2>1
    <3>2. u[k].op \in {"BL", "NBL"} => Kid(u, k, 1).type # "POINTER"
      BY <1>3, <3>1 DEF Typed
    <3>3. CheckNode(u, k)
      BY <1>3, <3>1 DEF Check
    <3>4. u[k].kind \in EXTERN => rec.value[[kind |-> u[k].kind, id |-> u[k].id]] # <<>>
      BY <1>3, <3>1 DEF AllHere
    <3> QED
      BY <2>1, <2>7, <3>2, <3>3, <3>4 DEF Accepted
  <2> HIDE DEF v
  <2>10. EvalNode(v, k, rec).ret = 0 /\ Present(u[k])
    <3>1. Written(u, v, k, rec)
      BY <2>5 DEF Written
    <3> QED
      BY <2>1, <2>6, <2>8, <2>9, <3>1, NodePasses DEF Written
  <2>11. \A j \in 1 .. k : Present(u[j])
    <3> TAKE j \in 1 .. k
    <3>1. CASE j = k
      BY <2>10, <3>1
    <3>2. CASE j # k
      BY <2>2, <2>4, <3>2
    <3> QED
      BY <3>1, <3>2
  <2>12. k \in T
    BY <2>1, <2>3, <2>10, <2>11 DEF T
  <2> QED
    BY <2>12 DEF k
<1>7. n \in T
  <2> HIDE DEF T
  <2>1. 0 .. n \subseteq T
    BY <1>1, <1>5, <1>6, StepsReach
  <2> QED
    BY <1>1, <2>1
<1> QED
  BY <1>7 DEF s
-----------------------------------------------------------------------------
(* The two theorems.                                                       *)

\* What every step of the expressions keeps: the tree is one of its text,
\* and the last evaluation is what the walk made of a tree of that text.
Evaluated(f, t, o) ==
  \E rec, t0 : /\ IsTree(t0, f)
               /\ t = EvalTree(t0, rec)[Len(f)].tree
               /\ o = <<[record |-> rec, ret |-> EvalTree(t0, rec)[Len(f)].ret]>>

CalcInv ==
  \/ calc = <<>> /\ outcome = <<>>
  \/ \E f, t : /\ f \in Formula /\ IsTree(t, f)
               /\ calc = <<[text |-> f, tree |-> t]>>
               /\ (outcome = <<>> \/ Evaluated(f, t, outcome))

LEMMA CalcKeeps == CalcSpec => []CalcInv
<1>1. CalcInit => CalcInv
  BY DEF CalcInit, CalcInv
<1>2. CalcInv /\ [CalcNext]_calcVars => CalcInv'
  <2> SUFFICES ASSUME CalcInv, [CalcNext]_calcVars
               PROVE  CalcInv'
    OBVIOUS
  <2>1. ASSUME NEW f \in Formula, Construct(f)
        PROVE  CalcInv'
    <3>1. IsText(f)
      BY CalcAssumption
    <3> DEFINE t == ParseJson(f)
    <3>2. IsTree(t, f)
      BY <2>1, <3>1, ParsedTree DEF Construct
    <3>3. calc' = <<[text |-> f, tree |-> t]>> /\ outcome' = <<>>
      BY <2>1 DEF Construct
    <3> HIDE DEF t
    <3> QED
      BY <3>2, <3>3 DEF CalcInv
  <2>2. ASSUME NEW rec \in Record, Eval(rec)
        PROVE  CalcInv'
    <3>1. PICK f, t : f \in Formula /\ calc = <<[text |-> f, tree |-> t]>> /\ IsTree(t, f)
      BY <2>2 DEF CalcInv, Eval
    <3>2. IsText(f) /\ calc[1].tree = t /\ Len(t) = Len(f)
      BY <3>1, CalcAssumption DEF IsTree
    <3> DEFINE z == EvalTree(t, rec)[Len(f)]
    <3>3. /\ calc' = <<[calc[1] EXCEPT !.tree = z.tree]>>
          /\ outcome' = <<[record |-> rec, ret |-> z.ret]>>
      BY <2>2, <3>2 DEF Eval
    <3>4. IsTree(z.tree, f)
      <4>1. Len(f) \in 0 .. Len(f)
        BY <3>2, TextLength
      <4> QED
        BY <3>1, <3>2, <4>1, Course
    <3>5. Evaluated(f, z.tree, outcome')
      BY <3>1, <3>3 DEF Evaluated
    <3> HIDE DEF z
    <3>6. calc' = <<[text |-> f, tree |-> z.tree]>>
      BY <3>1, <3>3
    <3> QED
      BY <3>1, <3>4, <3>5, <3>6 DEF CalcInv
  <2>3. CASE Destruct
    BY <2>3 DEF Destruct, CalcInv
  <2>4. CASE UNCHANGED calcVars
    BY <2>4 DEF calcVars, CalcInv
  <2> QED
    BY <2>1, <2>2, <2>3, <2>4 DEF CalcNext
<1> QED
  BY <1>1, <1>2, PTL DEF CalcSpec

\* kr_calc_eval is exact: whatever was evaluated in the tree before, it says
\* 0 exactly when the expression has a meaning for this record, and the root
\* then holds that meaning (for records of which the tree keeps the types,
\* and but for nodes that the code misreads).
THEOREM EvaluationIsExact == CalcSpec => []EvalExact
<1>1. CalcInv => EvalExact
  <2> SUFFICES ASSUME CalcInv, calc # <<>>, outcome # <<>>
               PROVE  EvalExact
    BY DEF EvalExact
  <2>1. PICK f, t : /\ f \in Formula /\ calc = <<[text |-> f, tree |-> t]>> /\ IsTree(t, f)
                    /\ Evaluated(f, t, outcome)
    BY DEF CalcInv
  <2>2. PICK rec, t0 : /\ IsTree(t0, f) /\ t = EvalTree(t0, rec)[Len(f)].tree
                       /\ outcome = <<[record |-> rec, ret |-> EvalTree(t0, rec)[Len(f)].ret]>>
    BY <2>1 DEF Evaluated
  <2>3. IsText(f)
    BY <2>1, CalcAssumption
  <2> DEFINE z == EvalTree(t0, rec)[Len(f)]
             m == Meaning(f, rec)
             root == t[Len(t)]
  <2>4. /\ calc[1].tree = t /\ calc[1].text = f /\ outcome[1].record = rec /\ outcome[1].ret = z.ret
        /\ Len(t) = Len(f) /\ DOMAIN t = 1 .. Len(f)
    BY <2>1, <2>2 DEF IsTree
  <2>5. SUFFICES ASSUME KeepsTypes(t, rec), \A k \in DOMAIN t : ~Misread(t, k)
                 PROVE  /\ (z.ret = 0) = (m.is # "error")
                        /\ z.ret = 0 => /\ root.set = (m.is = "value")
                                        /\ root.set => root.type = m.type /\ StandsFor(m.type, root.value, m.v)
    <3> HIDE DEF z, m
    <3> QED
      BY <2>4 DEF EvalExact, m
  <2>6. \A k \in 1 .. Len(f) : /\ t[k].kind \in EXTERN => TypeKept(t[k], rec)
                               /\ ~Misread(t, k)
    <3> TAKE k \in 1 .. Len(f)
    <3>1. t[k].kind \in EXTERN => TypeKept(t[k], rec)
      BY <2>4, <2>5 DEF KeepsTypes, TypeKept
    <3>2. ~Misread(t, k)
      BY <2>4, <2>5
    <3> QED
      BY <3>1, <3>2
  <2>7. Renders([ret |-> z.ret, node |-> z.tree[Len(f)]], m)
    <3>1. \A k \in 1 .. Len(f) :
            LET u == EvalTree(t0, rec)[Len(f)].tree
            IN  /\ u[k].kind \in EXTERN => TypeKept(u[k], rec)
                /\ ~Misread(u, k)
      BY <2>2, <2>6
    <3> QED
      BY <2>2, <2>3, <3>1, TreeMeans
  <2> HIDE DEF z, m
  <2>8. root = z.tree[Len(f)]
    BY <2>2, <2>4 DEF z
  <2>9. /\ z.ret = 0 <=> m.is # "error"
        /\ z.ret = 0 => Matches(root, m)
    BY <2>7, <2>8 DEF Renders
  <2> HIDE DEF root
  <2>10. z.ret = 0 => /\ root.set = (m.is = "value")
                      /\ root.set => root.type = m.type /\ StandsFor(m.type, root.value, m.v)
    <3> HAVE z.ret = 0
    <3>1. Matches(root, m)
      BY <2>9
    <3>2. CASE m.is = "value"
      <4>1. root.set = TRUE /\ root.type = m.type /\ Holds(root, m.v)
        BY <3>1, <3>2 DEF Matches
      <4>2. StandsFor(m.type, root.value, m.v)
        <5>1. CASE m.type = "BOOL"
          <6>1. Same(root.value, Num(0)) <=> Same(m.v, Num(0))
            BY <4>1, SameTruth
          <6> QED
            BY <5>1, <6>1 DEF StandsFor, Same
        <5>2. CASE m.type # "BOOL"
          <6>1. root.value = m.v
            BY <4>1, <5>2 DEF Holds
          <6> QED
            BY <5>2, <6>1 DEF StandsFor, Same
        <5> QED
          BY <5>1, <5>2
      <4> QED
        BY <3>2, <4>1, <4>2
    <3>3. CASE m.is = "unset"
      BY <3>1, <3>3 DEF Matches
    <3> QED
      BY <3>1, <3>2, <3>3 DEF Matches
  <2> QED
    BY <2>9, <2>10
<1> QED
  BY <1>1, CalcKeeps, PTL

\* kr_calc_check is sound: an expression that it accepts once the types are
\* known does not fail for a record that has the values it asks for.
THEOREM ChecksAreSound == CalcSpec => []CheckSound
<1>1. CalcInv => CheckSound
  <2> SUFFICES ASSUME CalcInv, calc # <<>>, outcome # <<>>,
                      Typed(calc[1].tree), Check(calc[1].tree),
                      AllHere(calc[1].tree, outcome[1].record)
               PROVE  outcome[1].ret = 0
    BY DEF CheckSound
  <2>1. PICK f, t : /\ f \in Formula /\ calc = <<[text |-> f, tree |-> t]>> /\ IsTree(t, f)
                    /\ Evaluated(f, t, outcome)
    BY DEF CalcInv
  <2>2. PICK rec, t0 : /\ IsTree(t0, f) /\ t = EvalTree(t0, rec)[Len(f)].tree
                       /\ outcome = <<[record |-> rec, ret |-> EvalTree(t0, rec)[Len(f)].ret]>>
    BY <2>1 DEF Evaluated
  <2>3. calc[1].tree = t /\ outcome[1].record = rec /\ outcome[1].ret = EvalTree(t0, rec)[Len(f)].ret
    BY <2>1, <2>2
  <2>4. Typed(t) /\ Check(t) /\ AllHere(t, rec)
    BY <2>3
  <2>5. EvalTree(t0, rec)[Len(f)].ret = 0
    BY <2>1, <2>2, <2>4, CalcAssumption, TreePasses
  <2> QED
    BY <2>3, <2>5
<1> QED
  BY <1>1, CalcKeeps, PTL
=============================================================================
