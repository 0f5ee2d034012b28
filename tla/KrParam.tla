------------------------------ MODULE KrParam -------------------------------
(***************************************************************************)
(* The parameters of the rule engine (krparam/kr_shm.c, krparam/kr_dym.c): *)
(* definitions of sets, data items and rules, loaded from the SQL database *)
(* into one of two sections of a memory that all workers share, and the    *)
(* tables each worker compiles from the active section.                    *)
(*                                                                         *)
(* A reload (request reload_param) fills the standby section kind by kind  *)
(* and then switches.  It runs on a worker thread like every other         *)
(* request, and no lock is taken.  A compiled table keeps POINTERS to the  *)
(* definitions in the section it was compiled from.  Before a request is   *)
(* handled the worker compares the load time, in seconds, of each kind     *)
(* with the one its table was compiled from.                               *)
(*                                                                         *)
(* The state begins when every thread has run kr_context_init.             *)
(***************************************************************************)
EXTENDS Integers, FiniteSets

CONSTANTS
  Workers,     \* the threads that handle requests
  NKinds,      \* the kinds of definitions, in the order they are loaded
  MaxLoads,    \* bound on the loads, the one of the start included
  MaxTime      \* bound on the clock

ASSUME ParamAssumption ==
  /\ NKinds \in Nat \ {0}
  /\ MaxLoads \in Nat \ {0}
  /\ MaxTime \in Nat \ {0}

Kinds == 1 .. NKinds
Sections == {0, 1}     \* N_MAX_SEC is 2
Empty == 0             \* what memset leaves
Broken == MaxLoads + 1 \* what a load that failed half way leaves

VARIABLES
  nSecId,      \* the active section
  shm,         \* for each section and kind: the load it holds, and its time
  now,         \* time(NULL)
  pc,          \* where each worker is
  at,          \* the kind the worker's loop is at
  sec,         \* the section kr_dym_check or kr_shm_load has settled on
  dym,         \* the worker's tables: section pointed into, load, time
  load,        \* the load the worker is performing
  loads,       \* number of loads begun
  inForce,     \* history: the last load that ended with success
  since,       \* history: inForce when the worker's request began
  overrun,     \* history: a load began on a section in use, or two at once
  sameSecond   \* history: a kind was loaded twice within a second

shmVars == <<nSecId, shm, now>>
history == <<inForce, since, overrun, sameSecond>>
vars == <<shmVars, pc, at, sec, dym, load, loads, history>>

Loading(w) == pc[w] \in {"clear", "fill", "switch"}
InRequest(w) == pc[w] \in {"check", "handle"}

-----------------------------------------------------------------------------
\* kr_shm_create: kr_calloc, the first load into section 1, the switch to it;
\* then kr_dym_construct in each thread.
Init ==
  /\ nSecId = 1
  /\ now = 1
  /\ shm = [s \in Sections |-> [k \in Kinds |->
              IF s = 1 THEN [ver |-> 1, time |-> now] ELSE [ver |-> Empty, time |-> 0]]]
  /\ pc = [w \in Workers |-> "idle"]
  /\ at = [w \in Workers |-> 1]
  /\ sec = [w \in Workers |-> 1]
  /\ dym = [w \in Workers |-> [k \in Kinds |-> [sec |-> 1, ver |-> 1, time |-> now]]]
  /\ load = [w \in Workers |-> 1]
  /\ loads = 1
  /\ inForce = 1
  /\ since = [w \in Workers |-> 1]
  /\ overrun = FALSE
  /\ sameSecond = FALSE

Tick ==
  /\ now < MaxTime
  /\ now' = now + 1
  /\ UNCHANGED <<nSecId, shm, pc, at, sec, dym, load, loads, history>>

\* The worker's loop over the kinds goes on, and leaves for done at the end.
Advance(w, again, done) ==
  /\ at' = [at EXCEPT ![w] = IF @ = NKinds THEN 1 ELSE @ + 1]
  /\ pc' = [pc EXCEPT ![w] = IF at[w] = NKinds THEN done ELSE again]

\* The request is over, or refused.
Leave(w) ==
  /\ pc' = [pc EXCEPT ![w] = "idle"]
  /\ at' = [at EXCEPT ![w] = 1]

\* kr_context_set: kr_dym_check reads the active section, once.
Begin(w) ==
  /\ pc[w] = "idle"
  /\ pc' = [pc EXCEPT ![w] = "check"]
  /\ sec' = [sec EXCEPT ![w] = nSecId]
  /\ since' = [since EXCEPT ![w] = inForce]
  /\ UNCHANGED <<shmVars, at, dym, load, loads, inForce, overrun, sameSecond>>

\* Mutant of Checked: the active section is read again for each kind.
CheckedNow(w) == nSecId

\* The section that the tables are compared with.
Checked(w) == sec[w]

Source(w) == shm[Checked(w)][at[w]]
Outdated(w) == dym[w][at[w]].time # Source(w).time

KeepTable(w) ==
  /\ pc[w] = "check"
  /\ ~ Outdated(w)
  /\ Advance(w, "check", "handle")
  /\ UNCHANGED <<shmVars, sec, dym, load, loads, history>>

\* The kind's construct function succeeds: the new table replaces the old.
RebuildTable(w) ==
  /\ pc[w] = "check"
  /\ Outdated(w)
  /\ dym' = [dym EXCEPT ![w][at[w]] =
               [sec |-> Checked(w), ver |-> Source(w).ver, time |-> Source(w).time]]
  /\ Advance(w, "check", "handle")
  /\ UNCHANGED <<shmVars, sec, load, loads, history>>

\* It fails: kr_dym_check returns -1, and the request is not handled.  The
\* tables of the kinds before stay replaced.
RebuildFails(w) ==
  /\ pc[w] = "check"
  /\ Outdated(w)
  /\ Leave(w)
  /\ UNCHANGED <<shmVars, sec, dym, load, loads, history>>

\* The handler of a request that is not reload_param returns.
Handle(w) ==
  /\ pc[w] = "handle"
  /\ Leave(w)
  /\ UNCHANGED <<shmVars, sec, dym, load, loads, history>>

-----------------------------------------------------------------------------
Other(s) == (s + 1) % 2

\* Mutant of BackSection: the load goes to the active section.
BackSectionActive == nSecId

\* nBackSecId of kr_shm_load.
BackSection == Other(nSecId)

\* A request of another worker has settled on section s.
InUse(s, w) == \E v \in Workers \ {w} : InRequest(v) /\ sec[v] = s

\* kr_engine_reload_param calls kr_shm_load.
StartLoad(w) ==
  /\ pc[w] = "handle"
  /\ loads < MaxLoads
  /\ loads' = loads + 1
  /\ load' = [load EXCEPT ![w] = loads + 1]
  /\ sec' = [sec EXCEPT ![w] = BackSection]
  /\ pc' = [pc EXCEPT ![w] = "clear"]
  /\ overrun' = (overrun \/ InUse(BackSection, w) \/ \E v \in Workers : Loading(v))
  /\ UNCHANGED <<shmVars, at, dym, inForce, since, sameSecond>>

\* memset of the kind's definitions.
Clear(w) ==
  /\ pc[w] = "clear"
  /\ shm' = [shm EXCEPT ![sec[w]][at[w]] = [ver |-> Empty, time |-> 0]]
  /\ pc' = [pc EXCEPT ![w] = "fill"]
  /\ UNCHANGED <<nSecId, now, at, sec, dym, load, loads, history>>

\* kr_shm_*_load of the kind succeeds.
Fill(w) ==
  /\ pc[w] = "fill"
  /\ shm' = [shm EXCEPT ![sec[w]][at[w]] = [ver |-> load[w], time |-> now]]
  /\ sameSecond' = (sameSecond \/ shm[nSecId][at[w]].time = now)
  /\ Advance(w, "clear", "switch")
  /\ UNCHANGED <<nSecId, now, sec, dym, load, loads, inForce, since, overrun>>

\* Mutant of FillFails: the -1 of the load is not looked at.
FillFailsGoesOn(w) ==
  /\ pc[w] = "fill"
  /\ shm' = [shm EXCEPT ![sec[w]][at[w]] = [ver |-> Broken, time |-> now]]
  /\ Advance(w, "clear", "switch")
  /\ UNCHANGED <<nSecId, now, sec, dym, load, loads, history>>

\* It fails, before or after the load time is set: kr_shm_load returns -1,
\* nothing is switched, and the kinds after are not loaded.
FillFails(w) ==
  /\ pc[w] = "fill"
  /\ \E t \in {0, now} : shm' = [shm EXCEPT ![sec[w]][at[w]] = [ver |-> Broken, time |-> t]]
  /\ Leave(w)
  /\ UNCHANGED <<nSecId, now, sec, dym, load, loads, history>>

\* kr_shm_switch, which reads nSecId again, and the reply.
Switch(w) ==
  /\ pc[w] = "switch"
  /\ nSecId' = Other(nSecId)
  /\ inForce' = load[w]
  /\ Leave(w)
  /\ UNCHANGED <<shm, now, sec, dym, load, loads, since, overrun, sameSecond>>

CheckStep(w) == Begin(w) \/ KeepTable(w) \/ RebuildTable(w) \/ RebuildFails(w) \/ Handle(w)
LoadStep(w) == StartLoad(w) \/ Clear(w) \/ Fill(w) \/ FillFails(w) \/ Switch(w)

Next == Tick \/ \E w \in Workers : CheckStep(w) \/ LoadStep(w)

Spec == Init /\ [][Next]_vars

-----------------------------------------------------------------------------
\* Sections, loops and tables are what the code can index.
TypeOK ==
  /\ nSecId \in Sections
  /\ shm \in [Sections -> [Kinds -> [ver : 0 .. Broken, time : 0 .. MaxTime]]]
  /\ now \in 1 .. MaxTime
  /\ pc \in [Workers -> {"idle", "check", "handle", "clear", "fill", "switch"}]
  /\ at \in [Workers -> Kinds]
  /\ sec \in [Workers -> Sections]
  /\ dym \in [Workers -> [Kinds -> [sec : Sections, ver : 0 .. Broken, time : 0 .. MaxTime]]]
  /\ load \in [Workers -> 1 .. MaxLoads]
  /\ loads \in 1 .. MaxLoads
  /\ inForce \in 1 .. MaxLoads
  /\ since \in [Workers -> 1 .. MaxLoads]

\* The definitions behind the tables of a worker that handles a request are
\* those the tables were compiled from ("share memory, read only in thread").
ReadOnlyInThread ==
  \A w \in Workers : pc[w] = "handle" =>
    \A k \in Kinds : shm[dym[w][k].sec][k].ver = dym[w][k].ver

\* Every load found its section out of use when it began, and no two loads
\* have the same time.
Spaced == ~ overrun /\ ~ sameSecond

\* As long as the loads are spaced, a load never touches definitions that a
\* request is using, although requests begin and look at the sections at any
\* time during the load.
DefsStable == Spaced => ReadOnlyInThread

\* The active section holds one whole load: a load that failed, or is still
\* going on, is never seen (kr_shm_load switches last), unless it overran.
ActiveComplete ==
  ~ overrun => \A k \in Kinds : shm[nSecId][k].ver = inForce

\* A request is handled with the load that was in force when it began, whole:
\* all its tables are of that load, even when reloads switch while it checks
\* them, and when rebuilding some of them had failed for an earlier request
\* (kr_dym_check); and a reload that has been answered counts from then on.
LoadInForce ==
  Spaced => \A w \in Workers : pc[w] = "handle" =>
              \A k \in Kinds : dym[w][k].ver = since[w]

=============================================================================
