------------------------------ MODULE RunLoop ------------------------------
(***************************************************************************)
(* System::run() on one process: which analyzers and updaters execute at   *)
(* which step, which optional fields (PDataFlags) are requested for them,  *)
(* and what ends a run: the last step, a time limit, the python callback   *)
(* or SIGINT.                                                              *)
(*                                                                         *)
(* An item is an analyzer or an updater with its schedule                  *)
(* (System::analyzer_item).  The script adds and removes items and changes *)
(* their periods between runs.  The integrator computes the net force, and *)
(* with it the fields that are requested at that time, at the end of a step *)
(* and in prepRun() of its first run.  The forces are the same in all runs, *)
(* only the integrator computes them, and they are taken as one.  Steps    *)
(* stay below MaxStep, far from the limit of the 32-bit counters.          *)
(***************************************************************************)
EXTENDS Integers

CONSTANTS
    Analyzer, Updater,  \* names of the items the script may add
    Periods, Phases,    \* periods and phases the script may set
    Frames,             \* n -> value of the variable period function
    MaxFrames,          \* the function is constant from this n on
    LimitMultiple,      \* limit_multiple of run()
    CallbackPeriod,     \* cb_frequency of run(), 0: no callback in the loop
    MaxStep,            \* bound on the time step
    MaxRun,             \* bound on nsteps
    Signals             \* SIGINT may arrive

Item == Analyzer \cup Updater

ASSUME RunLoopAssumption ==
    /\ Periods \subseteq Nat \ {0} /\ Phases \subseteq Nat \cup {-1}
    /\ LimitMultiple \in Nat \ {0} /\ CallbackPeriod \in Nat
    /\ MaxStep \in Nat /\ MaxRun \in Nat /\ Signals \in BOOLEAN
    /\ MaxFrames \in Nat \ {0} /\ Frames \in [1..MaxFrames -> Int]
    /\ Analyzer \cap Updater = {}

VARIABLES
    items,      \* the schedules of the items that were added
    cur, end,   \* m_cur_tstep, m_end_tstep
    flags,      \* items whose fields the last setFlags() requested
    sigint,     \* g_sigint_recvd
    prepared,   \* m_prepared of the integrator, ~m_first_step
    last,       \* m_last_computed of the force, -1 before the first call and
                \* when it is behind the present step
    pc

\* History, not in the code.
VARIABLES
    since,      \* item -> first step of its schedule
    ran,        \* item -> steps at which it executed since then
    fields,     \* items whose fields the present net force has
    late,       \* items added or rescheduled since the force was evaluated
    asof        \* the time step of that evaluation, -1 as for last

schedule == <<items, since, ran>>
net == <<prepared, last, fields, late, asof>>
vars == <<schedule, net, cur, end, flags, sigint, pc>>

-----------------------------------------------------------------------------
(* Schedules                                                                *)

\* Mutation: the step before the current one may be chosen.
StartStepBefore(period, phase) ==
    IF phase < 0 THEN cur ELSE (cur \div period) * period + phase

\* First step of a schedule that is set at the current step.
StartStep(period, phase) ==
    IF phase < 0 THEN cur
    ELSE (cur \div period + (IF cur % period # 0 THEN 1 ELSE 0)) * period + phase

Added(x) == x \in DOMAIN items

\* What shouldExecute() makes of an item that executes at step t.
NextStep(s, t) ==
    LET f == Frames[s.n] + s.created
        next == IF f < 0 THEN 1 ELSE f
    IN IF next <= t THEN t + 1 ELSE next

\* m_n is counted up; beyond MaxFrames it makes no difference.
NextFrame(n) == IF n < MaxFrames THEN n + 1 ELSE n

Executed(s, t) ==
    IF s.variable THEN [s EXCEPT !.next = NextStep(s, t), !.n = NextFrame(@)]
                  ELSE [s EXCEPT !.next = @ + s.period]

peekExecute(x, t) == items[x].next = t

\* determineFlags(): the items that ask for fields at step t.
DetermineFlags(t) == {x \in DOMAIN items : peekExecute(x, t)}

-----------------------------------------------------------------------------
(* The script                                                               *)

Put(f, x, v) == [y \in DOMAIN f \cup {x} |-> IF y = x THEN v ELSE f[y]]

\* The force that is there was evaluated before x got its schedule.
Touched(x) == late' = late \cup {x}

\* An item is added.
Add(x, period, phase) ==
    LET s == StartStep(period, phase) IN
    /\ pc = "script" /\ ~Added(x)
    /\ items' = Put(items, x, [next |-> s, period |-> period, created |-> cur,
                               variable |-> FALSE, n |-> 1])
    /\ since' = Put(since, x, s) /\ ran' = Put(ran, x, {})
    /\ Touched(x)
    /\ UNCHANGED <<cur, end, flags, sigint, pc, prepared, last, fields, asof>>

\* An item is removed.
Remove(x) ==
    LET rest == DOMAIN items \ {x} IN
    /\ pc = "script" /\ Added(x)
    /\ items' = [y \in rest |-> items[y]] /\ since' = [y \in rest |-> since[y]]
    /\ ran' = [y \in rest |-> ran[y]]
    /\ late' = late \ {x} /\ fields' = fields \ {x}
    /\ UNCHANGED <<cur, end, flags, sigint, pc, prepared, last, asof>>

\* An item gets a fixed period.
SetPeriod(x, period, phase) ==
    LET s == StartStep(period, phase) IN
    /\ pc = "script" /\ Added(x)
    /\ items' = [items EXCEPT ![x].period = period, ![x].next = s, ![x].variable = FALSE]
    /\ since' = [since EXCEPT ![x] = s] /\ ran' = [ran EXCEPT ![x] = {}]
    /\ Touched(x)
    /\ UNCHANGED <<cur, end, flags, sigint, pc, prepared, last, fields, asof>>

\* An item gets a variable period.
SetVariablePeriod(x) ==
    /\ pc = "script" /\ Added(x)
    /\ items' = [items EXCEPT ![x].next = cur, ![x].variable = TRUE]
    /\ since' = [since EXCEPT ![x] = cur] /\ ran' = [ran EXCEPT ![x] = {}]
    /\ Touched(x)
    /\ UNCHANGED <<cur, end, flags, sigint, pc, prepared, last, fields, asof>>

\* The operations of System, for the two kinds of items.
AddAnalyzer == \E x \in Analyzer, p \in Periods, h \in Phases : Add(x, p, h)
AddUpdater == \E x \in Updater, p \in Periods, h \in Phases : Add(x, p, h)
RemoveAnalyzer == \E x \in Analyzer : Remove(x)
RemoveUpdater == \E x \in Updater : Remove(x)
SetAnalyzerPeriod == \E x \in Analyzer, p \in Periods, h \in Phases : SetPeriod(x, p, h)
SetUpdaterPeriod == \E x \in Updater, p \in Periods, h \in Phases : SetPeriod(x, p, h)
SetAnalyzerPeriodVariable == \E x \in Analyzer : SetVariablePeriod(x)
SetUpdaterPeriodVariable == \E x \in Updater : SetVariablePeriod(x)

\* setIntegrator(): the next run prepares again.
SetIntegrator ==
    /\ pc = "script" /\ prepared
    /\ prepared' = FALSE
    /\ UNCHANGED <<schedule, cur, end, flags, sigint, pc, last, fields, late, asof>>

\* The flags are set before the loop for the first step.
PresetFlags == DetermineFlags(cur)

\* A time step behind the present one is not asked for again.
Recent(t) == IF t >= cur' THEN t ELSE -1

\* computeNetForce(ts) with the fields of F.  ForceCompute::compute() evaluates
\* the force if the particles were sorted, which leaves m_last_computed alone, or if
\* the time step is new; the sum asks for the fields in any case.
NetForce(ts, F) == \E sorted \in BOOLEAN :
    IF sorted \/ last # ts
    THEN /\ fields' = F /\ late' = {} /\ asof' = ts
         /\ last' = IF sorted THEN Recent(last) ELSE ts
    ELSE fields' = fields \cap F /\ asof' = Recent(asof) /\ UNCHANGED <<late, last>>

\* prepRun(): only the first run of an integrator computes the net force.
PrepRun(F) ==
    IF prepared THEN UNCHANGED net
    ELSE prepared' = TRUE /\ NetForce(cur, F)

\* run() up to the loop.
Run(nsteps) ==
    /\ pc = "script" /\ cur + nsteps <= MaxStep
    /\ cur' = cur /\ end' = cur + nsteps
    /\ flags' = PresetFlags
    /\ PrepRun(PresetFlags)
    /\ pc' = "head"
    /\ UNCHANGED <<schedule, sigint>>

-----------------------------------------------------------------------------
(* The loop                                                                 *)

Sigint ==
    /\ Signals /\ ~sigint /\ pc # "script"
    /\ sigint' = TRUE
    /\ UNCHANGED <<schedule, net, cur, end, flags, pc>>

\* limit_hours and HOOMD_WALLTIME_STOP end the run only at these steps.
MayTimeOut == cur % LimitMultiple = 0

\* The top of the loop: last step, time limits, python callback.
Continue ==
    /\ pc = "head" /\ cur < end
    /\ pc' = "analyze"
    /\ UNCHANGED <<schedule, net, cur, end, flags, sigint>>

Finish == pc' = "script" /\ UNCHANGED <<schedule, net, cur, end, flags, sigint>>

LastStep == pc = "head" /\ cur = end /\ Finish

TimeOut == pc = "head" /\ cur < end /\ MayTimeOut /\ Finish

CallbackEnds ==
    /\ pc = "head" /\ cur < end
    /\ CallbackPeriod > 0 /\ cur % CallbackPeriod = 0
    /\ Finish

\* The items of one kind execute if it is their step.
Execute(kind) ==
    LET due == {x \in DOMAIN items \cap kind : peekExecute(x, cur)} IN
    /\ items' = [x \in DOMAIN items |-> IF x \in due THEN Executed(items[x], cur) ELSE items[x]]
    /\ ran' = [x \in DOMAIN items |-> IF x \in due THEN ran[x] \cup {cur} ELSE ran[x]]
    /\ UNCHANGED <<cur, end, sigint, since, net>>

Analyze == pc = "analyze" /\ Execute(Analyzer) /\ pc' = "update" /\ UNCHANGED flags

\* Mutation: the fields are requested for the current step.
FlagStepNow == cur

\* The step the flags are determined for after the updaters have run.
FlagStep == cur + 1

Update ==
    /\ pc = "update" /\ Execute(Updater)
    /\ flags' = {x \in DOMAIN items : items'[x].next = FlagStep}
    /\ pc' = "integrate"

\* SIGINT ends the run after the integrator was called; the step is not counted.
Interrupted ==
    /\ sigint /\ sigint' = FALSE /\ pc' = "script" /\ cur' = cur

\* Mutation: the step is not counted.
StepForwardNot == cur

\* The next time step.
StepForward == cur + 1

Integrate ==
    /\ pc = "integrate"
    /\ \/ Interrupted
       \/ ~sigint /\ sigint' = sigint /\ cur' = StepForward /\ pc' = "head"
    /\ NetForce(cur + 1, flags)
    /\ UNCHANGED <<schedule, end, flags, prepared>>

-----------------------------------------------------------------------------
Init ==
    /\ items = [x \in {} |-> 0] /\ since = items /\ ran = items
    /\ cur = 0 /\ end = 0 /\ flags = {} /\ sigint = FALSE
    /\ prepared = FALSE /\ last = -1 /\ fields = {} /\ late = {} /\ asof = -1
    /\ pc = "script"

Next ==
    \/ AddAnalyzer \/ RemoveAnalyzer \/ SetAnalyzerPeriod \/ SetAnalyzerPeriodVariable
    \/ AddUpdater \/ RemoveUpdater \/ SetUpdaterPeriod \/ SetUpdaterPeriodVariable
    \/ SetIntegrator
    \/ \E n \in 0..MaxRun : Run(n)
    \/ Sigint
    \/ Continue \/ LastStep \/ TimeOut \/ CallbackEnds
    \/ Analyze \/ Update \/ Integrate

\* The loop makes progress by itself; the script is not obliged to do anything.
Fairness == WF_vars(Continue \/ LastStep \/ Analyze \/ Update \/ Integrate)

Spec == Init /\ [][Next]_vars /\ Fairness

-----------------------------------------------------------------------------
Schedule ==
    [next : Nat, period : Periods, created : 0..MaxStep, variable : BOOLEAN,
     n : 1..MaxFrames]

\* The fields of the schedules and the counters have their types.
TypeOK ==
    /\ DOMAIN items \subseteq Item
    /\ items \in [DOMAIN items -> Schedule]
    /\ since \in [DOMAIN items -> Nat] /\ ran \in [DOMAIN items -> SUBSET Nat]
    /\ cur \in 0..MaxStep /\ end \in 0..MaxStep
    /\ flags \subseteq Item /\ {sigint, prepared} \subseteq BOOLEAN
    /\ {last, asof} \subseteq Int /\ fields \subseteq Item /\ late \subseteq Item
    /\ pc \in {"script", "head", "analyze", "update", "integrate"}

\* shouldExecute() compares for equality: an item whose next step is behind
\* the current one never executes again.  At the top of the loop none is,
\* whatever was added, changed, interrupted or run before.
NeverMissed ==
    pc = "head" => \A x \in DOMAIN items : items[x].next >= cur

\* An item with a fixed period has executed at exactly the steps of its
\* period, across runs, limits and interrupts.
ExactlyPeriodic ==
    pc = "head" => \A x \in DOMAIN items :
        ~items[x].variable =>
            ran[x] \ {cur} = {s \in 0..(cur - 1) : s >= since[x] /\ (s - since[x]) % items[x].period = 0}

\* If the force was evaluated at the present step, it has the fields of item x, or
\* x was added or rescheduled after that.
Served(x) == asof = cur => x \in fields \cup late

\* When an item executes, the force that it reads was evaluated with its fields, in
\* the first run of an integrator, in later ones and after an interrupt.  The
\* exceptions are an item that the script added or rescheduled since, because
\* prepRun() of a later run computes nothing and the flags that run() presets come
\* after the force of its first step; and a force that compute() took for one of the
\* present step although it is older.
FlagsReady ==
    /\ pc = "analyze" => \A x \in DOMAIN items \cap Analyzer : peekExecute(x, cur) => Served(x)
    /\ pc \in {"analyze", "update"} =>
          \A x \in DOMAIN items \cap Updater : peekExecute(x, cur) => Served(x)

\* A run ends.
RunEnds == (pc # "script") ~> (pc = "script")
=============================================================================
