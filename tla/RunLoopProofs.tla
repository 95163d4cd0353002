--------------------------- MODULE RunLoopProofs ---------------------------
(***************************************************************************)
(* The schedules of System::run(), for any items, periods, phases, period  *)
(* functions and any number of runs and steps: no execution is missed, an  *)
(* item with a fixed period has executed at exactly its steps, and a force *)
(* that was evaluated at the step at which an item reads it has the fields *)
(* of the item, unless the script touched the item after that.             *)
(*                                                                         *)
(* The inductive invariant says where the next step of each item can be    *)
(* while a step is under way (Ahead), what a regular schedule looks like   *)
(* (Periodic), which items the requested fields stand for (Flagged) and    *)
(* which the force serves that was evaluated last (Provided).              *)
(***************************************************************************)
EXTENDS RunLoop, TLAPS

\* Inside a step the run is not at its end.
InLoop ==
    /\ pc \in {"analyze", "update", "integrate"} => cur < end
    /\ pc = "head" => cur <= end

\* The next step is not behind; once its kind has executed it lies ahead.
Ahead ==
    \A x \in DOMAIN items :
        /\ items[x].next >= cur
        /\ pc = "update" /\ x \in Analyzer => items[x].next > cur
        /\ pc = "integrate" => items[x].next > cur

\* A schedule s that began at step b has executed at the steps of its period
\* before the next one.
Regular(s, b, r) ==
    /\ b <= s.next
    /\ (s.next - b) % s.period = 0
    /\ r = {t \in 0..(s.next - 1) : t >= b /\ (t - b) % s.period = 0}

\* The next step is the first one or at most a period away.
Near(s, b) == s.next = b \/ s.next <= cur + s.period

Periodic ==
    \A x \in DOMAIN items :
        ~items[x].variable =>
            Regular(items[x], since[x], ran[x]) /\ Near(items[x], since[x])

\* The items whose step is next are among those the fields were requested for.
Flagged ==
    \A x \in DOMAIN items :
        /\ pc \in {"head", "analyze"} /\ items[x].next = cur => x \in flags
        /\ pc = "update" /\ x \in Updater /\ items[x].next = cur => x \in flags
        /\ pc = "integrate" /\ items[x].next = cur + 1 => x \in flags

\* If the force was evaluated at the present step, it serves the items of that
\* step. It may be one for the next step, that was interrupted: the items of the
\* present one were then scheduled later, and when compute() takes it again it
\* serves those of the next one.
Provided ==
    /\ asof <= cur + 1
    /\ \A x \in DOMAIN items :
          /\ items[x].next = cur => Served(x)
          /\ asof = cur + 1 /\ items[x].next = cur => x \in late
          /\ asof = cur + 1 /\ last = cur + 1 /\ items[x].next = cur + 1 =>
                x \in fields \cup late

IInv == TypeOK /\ InLoop /\ Ahead /\ Periodic /\ Flagged /\ Provided

-----------------------------------------------------------------------------
(* Arithmetic                                                               *)

LEMMA DivMod ==
    ASSUME NEW a \in Int, NEW p \in Nat \ {0}
    PROVE  /\ a \div p \in Int /\ a % p \in 0..(p - 1)
           /\ a = p * (a \div p) + (a % p)
  OBVIOUS

\* A multiple of p between 0 and p is 0.
LEMMA SmallMultiple ==
    ASSUME NEW p \in Nat \ {0}, NEW m \in Int, 0 <= m * p, m * p < p
    PROVE  m = 0
  <1>1. CASE m >= 1
    BY <1>1
  <1>2. CASE m <= -1
    BY <1>2
  <1> QED
    BY <1>1, <1>2

LEMMA Multiple ==
    ASSUME NEW p \in Nat \ {0}, NEW m \in Int, NEW a \in Int, a = m * p
    PROVE  a % p = 0
  <1>1. a = p * (a \div p) + (a % p) /\ a \div p \in Int /\ a % p \in 0..(p - 1)
    BY DivMod
  <1>2. (m - (a \div p)) * p = a % p /\ m - (a \div p) \in Int
    BY <1>1
  <1>3. m - (a \div p) = 0
    BY <1>1, <1>2, SmallMultiple
  <1> QED
    BY <1>2, <1>3

\* Between two multiples of p is at least p.
LEMMA Gap ==
    ASSUME NEW a \in Int, NEW b \in Int, NEW p \in Nat \ {0},
           a % p = 0, b % p = 0, a < b
    PROVE  a + p <= b
  <1> DEFINE i == a \div p
             j == b \div p
  <1>1. a = p * i /\ b = p * j /\ i \in Int /\ j \in Int
    BY DivMod
  <1> HIDE DEF i, j
  <1>2. j - i \in Int /\ (j - i) * p > 0
    BY <1>1
  <1>3. j - i >= 1
    BY <1>2
  <1> QED
    BY <1>1, <1>3

\* The next multiple of p.
LEMMA Shift ==
    ASSUME NEW a \in Int, NEW p \in Nat \ {0}, a % p = 0
    PROVE  (a + p) % p = 0
  <1>1. a = p * (a \div p) /\ a \div p \in Int
    BY DivMod
  <1>2. a + p = (a \div p + 1) * p /\ a + p \in Int /\ a \div p + 1 \in Int
    BY <1>1
  <1> QED
    BY <1>2, Multiple

-----------------------------------------------------------------------------
(* Schedules                                                                *)

\* A schedule that is set never begins in the past.
LEMMA StartLater ==
    ASSUME cur \in Nat, NEW p \in Nat \ {0}, NEW h \in Nat \cup {-1}
    PROVE  StartStep(p, h) \in Nat /\ StartStep(p, h) >= cur
  <1>1. CASE h < 0
    BY <1>1 DEF StartStep
  <1>2. CASE h >= 0
    <2> DEFINE q == cur \div p
               c == IF cur % p # 0 THEN 1 ELSE 0
    <2>1. q \in Int /\ cur % p \in 0..(p - 1) /\ cur = p * q + (cur % p)
      BY DivMod
    <2>2. StartStep(p, h) = (q + c) * p + h
      BY <1>2 DEF StartStep
    <2>4. \/ c = 0 /\ cur % p = 0
          \/ c = 1 /\ cur % p # 0
      OBVIOUS
    <2> HIDE DEF q, c
    <2>5. p * q \in Int /\ cur % p \in Int /\ p \in Int /\ h \in Int
      BY <1>2, <2>1
    <2>6. CASE c = 0
      BY <1>2, <2>1, <2>2, <2>4, <2>5, <2>6
    <2>7. CASE c = 1
      <3>1. (q + c) * p = p * q + p
        BY <2>1, <2>5, <2>7
      <3> QED
        BY <1>2, <2>1, <2>2, <2>5, <3>1
    <2> QED
      BY <2>4, <2>6, <2>7
  <1> QED
    BY <1>1, <1>2

\* A schedule that has just been set is regular: nothing has executed.
LEMMA NewRegular ==
    ASSUME NEW s \in Schedule, cur \in Nat
    PROVE  Regular(s, s.next, {}) /\ Near(s, s.next)
  <1>1. s.period \in Nat \ {0} /\ s.next \in Nat
    BY RunLoopAssumption DEF Schedule
  <1>2. (s.next - s.next) % s.period = 0
    BY <1>1, Multiple
  <1> QED
    BY <1>1, <1>2 DEF Regular, Near

\* An item that executes at step t comes next at a later one.
LEMMA ExecutedLater ==
    ASSUME NEW s \in Schedule, NEW t \in Nat, s.next = t
    PROVE  /\ Executed(s, t) \in Schedule /\ Executed(s, t).next > t
           /\ Executed(s, t).variable = s.variable
           /\ ~s.variable => Executed(s, t) = [s EXCEPT !.next = t + s.period]
  <1>0. /\ s.period \in Nat \ {0} /\ s.period \in Periods /\ s.next \in Nat
        /\ s.created \in 0..MaxStep /\ s.variable \in BOOLEAN /\ s.n \in 1..MaxFrames
    BY RunLoopAssumption DEF Schedule
  <1>1. CASE ~s.variable
    BY <1>0, <1>1 DEF Executed, Schedule
  <1>2. CASE s.variable
    <2>1. Frames[s.n] \in Int /\ MaxFrames \in Nat /\ MaxStep \in Nat
      BY <1>0, RunLoopAssumption
    <2>2. NextStep(s, t) \in Nat /\ NextStep(s, t) > t
      BY <1>0, <2>1 DEF NextStep
    <2>3. NextFrame(s.n) \in 1..MaxFrames
      BY <1>0, <2>1 DEF NextFrame
    <2>4. Executed(s, t) = [s EXCEPT !.next = NextStep(s, t), !.n = NextFrame(s.n)]
      BY <1>2 DEF Executed
    <2> QED
      BY <1>2, <2>2, <2>3, <2>4 DEF Schedule
  <1> QED
    BY <1>0, <1>1, <1>2

\* A regular schedule stays regular when its step executes.
LEMMA ExecutedRegular ==
    ASSUME NEW s \in Schedule, NEW b \in Nat, NEW r, cur \in Nat, s.next = cur,
           ~s.variable, Regular(s, b, r)
    PROVE  /\ Regular(Executed(s, cur), b, r \cup {cur})
           /\ Near(Executed(s, cur), b)
  <1> DEFINE p == s.period
  <1>0. p \in Nat \ {0} /\ s.next \in Nat
    BY RunLoopAssumption DEF Schedule
  <1>1. Executed(s, cur).next = cur + p /\ Executed(s, cur).period = p
    BY ExecutedLater, <1>0 DEF Schedule
  <1>2. b <= cur /\ (cur - b) % p = 0
    BY DEF Regular
  <1>3. (cur + p - b) % p = 0
    <2>1. (cur - b) + p = cur + p - b
      BY <1>0
    <2> QED
      BY <1>0, <1>2, <2>1, Shift
  <1>4. r = {t \in 0..(cur - 1) : t >= b /\ (t - b) % p = 0}
    BY DEF Regular
  <1>5. ASSUME NEW t \in 0..(cur + p - 1), t >= b, (t - b) % p = 0, t > cur
        PROVE  FALSE
    <2>1. (cur - b) + p <= t - b
      BY <1>0, <1>2, <1>5, Gap
    <2> QED
      BY <1>0, <2>1
  <1>6. r \cup {cur} = {t \in 0..(cur + p - 1) : t >= b /\ (t - b) % p = 0}
    <2>1. ASSUME NEW t \in r \cup {cur}
          PROVE  t \in 0..(cur + p - 1) /\ t >= b /\ (t - b) % p = 0
      BY <1>0, <1>2, <1>4, <2>1
    <2>2. ASSUME NEW t \in 0..(cur + p - 1), t >= b, (t - b) % p = 0
          PROVE  t \in r \cup {cur}
      <3>1. t <= cur
        BY <1>0, <1>5, <2>2
      <3> QED
        BY <1>4, <2>2, <3>1
    <2> QED
      BY <2>1, <2>2
  <1> QED
    BY <1>0, <1>1, <1>2, <1>3, <1>6 DEF Regular, Near

\* Of the steps of a regular schedule that is not behind, the present one is
\* the last that can have executed.
LEMMA RegularPast ==
    ASSUME NEW s \in Schedule, NEW b \in Nat, NEW r, cur \in Nat,
           Regular(s, b, r), Near(s, b), s.next >= cur
    PROVE  r \ {cur} = {t \in 0..(cur - 1) : t >= b /\ (t - b) % s.period = 0}
  <1> DEFINE p == s.period
             n == s.next
  <1>0. p \in Nat \ {0} /\ n \in Nat /\ n >= cur
    BY RunLoopAssumption DEF Schedule
  <1>1. b <= n /\ (n - b) % p = 0 /\ (n = b \/ n <= cur + p)
    BY DEF Regular, Near
  <1>2. r = {t \in 0..(n - 1) : t >= b /\ (t - b) % p = 0}
    BY DEF Regular
  <1> HIDE DEF p, n
  <1>3. ASSUME NEW t \in 0..(n - 1), t >= b, (t - b) % p = 0
        PROVE  t <= cur
    <2>1. t \in Int /\ t - b \in Int /\ n - b \in Int /\ t - b < n - b
      BY <1>0, <1>3
    <2>2. (t - b) + p <= n - b
      BY <1>0, <1>1, <1>3, <2>1, Gap
    <2> QED
      BY <1>0, <1>1, <1>3, <2>1, <2>2
  <1>4. r \ {cur} = {t \in 0..(cur - 1) : t >= b /\ (t - b) % p = 0}
    <2>1. ASSUME NEW t \in r \ {cur}
          PROVE  t \in 0..(cur - 1) /\ t >= b /\ (t - b) % p = 0
      <3>1. t \in 0..(n - 1) /\ t >= b /\ (t - b) % p = 0 /\ t # cur
        BY <1>2, <2>1
      <3>2. t <= cur
        BY <1>3, <3>1
      <3> QED
        BY <1>0, <3>1, <3>2
    <2>2. ASSUME NEW t \in 0..(cur - 1), t >= b, (t - b) % p = 0
          PROVE  t \in r \ {cur}
      BY <1>0, <1>2, <2>2
    <2> QED
      BY <2>1, <2>2
  <1> QED
    BY <1>4 DEF p

-----------------------------------------------------------------------------
(* The script                                                               *)

\* The script changes the schedule of one item x, to s that begins at step b;
\* nothing of it has executed.
LEMMA SetStep ==
    ASSUME IInv, pc = "script",
           UNCHANGED <<cur, end, flags, sigint, pc, prepared, last, fields, asof>>,
           NEW x \in Item, Touched(x), NEW s \in Schedule, s.next >= cur,
           DOMAIN items' = DOMAIN items \cup {x},
           items' = [y \in DOMAIN items' |-> IF y = x THEN s ELSE items[y]],
           since' = [y \in DOMAIN items' |-> IF y = x THEN s.next ELSE since[y]],
           ran' = [y \in DOMAIN items' |-> IF y = x THEN {} ELSE ran[y]]
    PROVE  IInv'
  <1>0. cur \in Nat /\ s.next \in Nat
    BY RunLoopAssumption DEF IInv, TypeOK, Schedule
  <1>1. TypeOK'
    <2>1. items' \in [DOMAIN items' -> Schedule]
      BY DEF IInv, TypeOK
    <2>2. since' \in [DOMAIN items' -> Nat] /\ ran' \in [DOMAIN items' -> SUBSET Nat]
      BY <1>0 DEF IInv, TypeOK
    <2>3. DOMAIN items' \subseteq Item /\ late' \subseteq Item
      BY DEF IInv, TypeOK, Touched
    <2> QED
      BY <2>1, <2>2, <2>3 DEF IInv, TypeOK
  <1>2. InLoop' /\ Flagged'
    BY DEF InLoop, Flagged
  <1>3. Ahead'
    BY DEF IInv, Ahead
  <1>4. Periodic'
    <2> SUFFICES ASSUME NEW y \in DOMAIN items', ~items'[y].variable
                 PROVE  (Regular(items[y], since[y], ran[y]) /\ Near(items[y], since[y]))'
      BY DEF Periodic
    <2>1. CASE y = x
      <3>1. items'[y] = s /\ since'[y] = s.next /\ ran'[y] = {}
        BY <2>1
      <3>2. Regular(s, s.next, {}) /\ Near(s, s.next)
        BY <1>0, NewRegular
      <3> QED
        BY <3>1, <3>2 DEF Regular, Near
    <2>2. CASE y # x
      <3>1. y \in DOMAIN items /\ UNCHANGED <<items[y], since[y], ran[y]>>
        BY <2>2
      <3>2. Regular(items[y], since[y], ran[y]) /\ Near(items[y], since[y])
        BY <3>1 DEF IInv, Periodic
      <3> QED
        BY <3>1, <3>2 DEF Regular, Near
    <2> QED
      BY <2>1, <2>2
  <1>5. Provided'
    <2>1. ASSUME NEW y \in DOMAIN items', y # x
          PROVE  /\ y \in DOMAIN items /\ items'[y] = items[y]
                 /\ (Served(y) => Served(y)') /\ (y \in late => y \in late')
      BY <2>1 DEF Served, Touched
    <2>2. x \in late'
      BY DEF Touched
    <2>3. Served(x)'
      BY <2>2 DEF Served
    <2> QED
      BY <2>1, <2>2, <2>3 DEF IInv, Provided
  <1> QED
    BY <1>1, <1>2, <1>3, <1>4, <1>5 DEF IInv

LEMMA AddStep ==
    ASSUME IInv, NEW x \in Item, NEW p \in Periods, NEW h \in Phases, Add(x, p, h)
    PROVE  IInv'
  <1> DEFINE b == StartStep(p, h)
             s == [next |-> b, period |-> p, created |-> cur, variable |-> FALSE, n |-> 1]
  <1>1. cur \in 0..MaxStep /\ cur \in Nat /\ MaxFrames >= 1 /\ MaxFrames \in Nat
    BY RunLoopAssumption DEF IInv, TypeOK
  <1>2. b \in Nat /\ b >= cur
    <2>1. p \in Nat \ {0} /\ h \in Nat \cup {-1}
      BY RunLoopAssumption
    <2> QED
      BY <1>1, <2>1, StartLater
  <1> HIDE DEF b
  <1>3. s \in Schedule /\ s.next = b
    BY <1>1, <1>2 DEF Schedule
  <1>4. DOMAIN since = DOMAIN items /\ DOMAIN ran = DOMAIN items
    BY DEF IInv, TypeOK
  <1>5. /\ items' = Put(items, x, s) /\ since' = Put(since, x, b) /\ ran' = Put(ran, x, {})
        /\ pc = "script" /\ UNCHANGED <<cur, end, flags, sigint, pc, prepared, last, fields, asof>>
        /\ Touched(x)
    BY DEF Add, b
  <1>6. /\ DOMAIN items' = DOMAIN items \cup {x}
        /\ items' = [y \in DOMAIN items' |-> IF y = x THEN s ELSE items[y]]
        /\ since' = [y \in DOMAIN items' |-> IF y = x THEN b ELSE since[y]]
        /\ ran' = [y \in DOMAIN items' |-> IF y = x THEN {} ELSE ran[y]]
    BY <1>4, <1>5 DEF Put
  <1> HIDE DEF s
  <1> QED
    BY <1>2, <1>3, <1>5, <1>6, SetStep

LEMMA SetPeriodStep ==
    ASSUME IInv, NEW x \in Item, NEW p \in Periods, NEW h \in Phases, SetPeriod(x, p, h)
    PROVE  IInv'
  <1> DEFINE b == StartStep(p, h)
             s == [items[x] EXCEPT !.period = p, !.next = b, !.variable = FALSE]
  <1>1. cur \in Nat /\ x \in DOMAIN items
    BY RunLoopAssumption DEF IInv, TypeOK, SetPeriod, Added
  <1>2. b \in Nat /\ b >= cur
    <2>1. p \in Nat \ {0} /\ h \in Nat \cup {-1}
      BY RunLoopAssumption
    <2> QED
      BY <1>1, <2>1, StartLater
  <1>3. /\ items' = [items EXCEPT ![x].period = p, ![x].next = b, ![x].variable = FALSE]
        /\ since' = [since EXCEPT ![x] = b] /\ ran' = [ran EXCEPT ![x] = {}]
        /\ pc = "script" /\ UNCHANGED <<cur, end, flags, sigint, pc, prepared, last, fields, asof>>
        /\ Touched(x)
    BY DEF SetPeriod
  <1> HIDE DEF b
  <1>4. items[x] \in Schedule /\ items \in [DOMAIN items -> Schedule]
    BY <1>1 DEF IInv, TypeOK
  <1>5. s \in Schedule /\ s.next = b
    BY <1>2, <1>4 DEF Schedule
  <1>6. DOMAIN since = DOMAIN items /\ DOMAIN ran = DOMAIN items
    BY DEF IInv, TypeOK
  <1>7. /\ DOMAIN items' = DOMAIN items \cup {x}
        /\ items' = [y \in DOMAIN items' |-> IF y = x THEN s ELSE items[y]]
    BY <1>1, <1>3, <1>4
  <1>8. /\ since' = [y \in DOMAIN items' |-> IF y = x THEN b ELSE since[y]]
        /\ ran' = [y \in DOMAIN items' |-> IF y = x THEN {} ELSE ran[y]]
    BY <1>1, <1>3, <1>6, <1>7
  <1> HIDE DEF s
  <1>9. Touched(x) /\ pc = "script" /\ UNCHANGED <<cur, end, flags, sigint, pc, prepared, last, fields, asof>>
    BY <1>3
  <1> QED
    BY <1>2, <1>5, <1>7, <1>8, <1>9, SetStep

LEMMA SetVariablePeriodStep ==
    ASSUME IInv, NEW x \in Item, SetVariablePeriod(x)
    PROVE  IInv'
  <1> DEFINE s == [items[x] EXCEPT !.next = cur, !.variable = TRUE]
  <1>1. cur \in Nat /\ x \in DOMAIN items
    BY RunLoopAssumption DEF IInv, TypeOK, SetVariablePeriod, Added
  <1>2. /\ items' = [items EXCEPT ![x].next = cur, ![x].variable = TRUE]
        /\ since' = [since EXCEPT ![x] = cur] /\ ran' = [ran EXCEPT ![x] = {}]
        /\ pc = "script" /\ UNCHANGED <<cur, end, flags, sigint, pc, prepared, last, fields, asof>>
        /\ Touched(x)
    BY DEF SetVariablePeriod
  <1>3. items[x] \in Schedule /\ items \in [DOMAIN items -> Schedule]
    BY <1>1 DEF IInv, TypeOK
  <1>4. s \in Schedule /\ s.next = cur
    BY <1>1, <1>3 DEF Schedule
  <1>5. DOMAIN since = DOMAIN items /\ DOMAIN ran = DOMAIN items
    BY DEF IInv, TypeOK
  <1>6. /\ DOMAIN items' = DOMAIN items \cup {x}
        /\ items' = [y \in DOMAIN items' |-> IF y = x THEN s ELSE items[y]]
    BY <1>1, <1>2, <1>3
  <1>7. /\ since' = [y \in DOMAIN items' |-> IF y = x THEN cur ELSE since[y]]
        /\ ran' = [y \in DOMAIN items' |-> IF y = x THEN {} ELSE ran[y]]
    BY <1>1, <1>2, <1>5, <1>6
  <1> HIDE DEF s
  <1>8. Touched(x) /\ pc = "script" /\ UNCHANGED <<cur, end, flags, sigint, pc, prepared, last, fields, asof>>
    BY <1>2
  <1> QED
    BY <1>1, <1>4, <1>6, <1>7, <1>8, SetStep

LEMMA RemoveStep ==
    ASSUME IInv, NEW x \in Item, Remove(x)
    PROVE  IInv'
  <1>1. /\ DOMAIN items' = DOMAIN items \ {x}
        /\ items' = [y \in DOMAIN items' |-> items[y]]
        /\ since' = [y \in DOMAIN items' |-> since[y]]
        /\ ran' = [y \in DOMAIN items' |-> ran[y]]
        /\ pc = "script" /\ UNCHANGED <<cur, end, flags, sigint, pc, prepared, last, asof>>
        /\ late' = late \ {x} /\ fields' = fields \ {x}
    BY DEF Remove
  <1>2. TypeOK'
    BY <1>1 DEF IInv, TypeOK
  <1>3. InLoop' /\ Flagged'
    BY <1>1 DEF InLoop, Flagged
  <1>4. Ahead'
    BY <1>1 DEF IInv, Ahead
  <1>5. Periodic'
    BY <1>1 DEF IInv, Periodic, Regular, Near
  <1>6. Provided'
    <2>1. \A y \in DOMAIN items' :
             /\ y \in DOMAIN items /\ items'[y] = items[y]
             /\ (Served(y) => Served(y)') /\ (y \in late => y \in late')
             /\ (y \in fields \cup late => (y \in fields \cup late)')
      BY <1>1 DEF Served
    <2> QED
      BY <1>1, <2>1 DEF IInv, Provided
  <1> QED
    BY <1>2, <1>3, <1>4, <1>5, <1>6 DEF IInv

\* With a new integrator the forces stay as they are.
LEMMA SetIntegratorStep == ASSUME IInv, SetIntegrator PROVE IInv'
  <1>1. /\ pc = "script" /\ prepared' = FALSE
        /\ UNCHANGED <<items, since, ran, cur, end, flags, sigint, pc, last, fields, late, asof>>
    BY DEF SetIntegrator, schedule
  <1>2. TypeOK'
    BY <1>1 DEF IInv, TypeOK
  <1>3. Periodic'
    BY <1>1 DEF IInv, Periodic, Regular, Near
  <1>4. InLoop' /\ Ahead' /\ Flagged' /\ Provided'
    BY <1>1 DEF IInv, InLoop, Ahead, Flagged, Provided, Served
  <1> QED
    BY <1>2, <1>3, <1>4 DEF IInv

\* Adding, removing and rescheduling between the runs.
LEMMA ScriptStep ==
    ASSUME IInv,
           \/ AddAnalyzer \/ RemoveAnalyzer \/ SetAnalyzerPeriod \/ SetAnalyzerPeriodVariable
           \/ AddUpdater \/ RemoveUpdater \/ SetUpdaterPeriod \/ SetUpdaterPeriodVariable
    PROVE  IInv'
  <1>1. Analyzer \subseteq Item /\ Updater \subseteq Item
    BY DEF Item
  <1>2. CASE AddAnalyzer \/ AddUpdater
    BY <1>1, <1>2, AddStep DEF AddAnalyzer, AddUpdater
  <1>3. CASE RemoveAnalyzer \/ RemoveUpdater
    BY <1>1, <1>3, RemoveStep DEF RemoveAnalyzer, RemoveUpdater
  <1>4. CASE SetAnalyzerPeriod \/ SetUpdaterPeriod
    BY <1>1, <1>4, SetPeriodStep DEF SetAnalyzerPeriod, SetUpdaterPeriod
  <1>5. CASE SetAnalyzerPeriodVariable \/ SetUpdaterPeriodVariable
    BY <1>1, <1>5, SetVariablePeriodStep DEF SetAnalyzerPeriodVariable, SetUpdaterPeriodVariable
  <1> QED
    BY <1>2, <1>3, <1>4, <1>5

-----------------------------------------------------------------------------
(* The loop                                                                 *)

\* Where a run starts, ends or goes on, no schedule changes.
LEMMA HeadStep ==
    ASSUME IInv,
           \/ \E n \in 0..MaxRun : Run(n)
           \/ Sigint \/ Continue \/ LastStep \/ TimeOut \/ CallbackEnds
    PROVE  IInv'
  <1>1. UNCHANGED <<items, since, ran, cur>>
    BY DEF Run, Sigint, Continue, LastStep, TimeOut, CallbackEnds, Finish, schedule
  <1>2. Periodic'
    BY <1>1 DEF IInv, Periodic, Regular, Near
  <1>3. CASE \E n \in 0..MaxRun : Run(n)
    <2>1. PICK n \in 0..MaxRun : Run(n)
      BY <1>3
    <2>0. flags' = PresetFlags /\ PrepRun(flags')
      BY <2>1 DEF Run
    <2>2. /\ pc' = "head" /\ end' = cur + n /\ cur + n <= MaxStep /\ sigint' = sigint
          /\ flags' = {x \in DOMAIN items : items[x].next = cur}
      BY <2>1 DEF Run, PresetFlags, DetermineFlags, peekExecute
    <2>3. cur \in Nat /\ n \in Nat
      BY RunLoopAssumption DEF IInv, TypeOK
    <2>4. TypeOK' /\ InLoop'
      <3>1. /\ last' \in Int /\ asof' \in Int
            /\ fields' \subseteq Item /\ late' \subseteq Item
        <4>1. flags' \subseteq Item /\ cur \in Int /\ cur' \in Int
          BY <1>1, <2>2, <2>3 DEF IInv, TypeOK
        <4>2. last \in Int /\ asof \in Int /\ fields \subseteq Item /\ late \subseteq Item
          BY DEF IInv, TypeOK
        <4>3. CASE UNCHANGED net
          BY <4>2, <4>3 DEF net
        <4>4. CASE NetForce(cur, flags')
          BY <4>1, <4>2, <4>4 DEF NetForce, Recent
        <4> QED
          BY <2>0, <4>3, <4>4 DEF PrepRun
      <3>2. prepared' = prepared \/ prepared' = TRUE
        BY <2>0 DEF PrepRun, net
      <3>3. prepared' \in BOOLEAN
        BY <3>2 DEF IInv, TypeOK
      <3> QED
        BY <1>1, <2>2, <2>3, <3>1, <3>3 DEF IInv, TypeOK, InLoop
    <2>5. Ahead' /\ Flagged'
      BY <1>1, <2>2 DEF IInv, Ahead, Flagged
    <2>6. Provided'
      <3>1. \/ fields' = flags' /\ asof' = cur
            \/ last' = cur /\ fields' = fields \cap flags' /\ late' = late /\ asof' \in {asof, -1}
            \/ UNCHANGED <<last, fields, late, asof>>
        BY <1>1, <2>0, <2>3 DEF PrepRun, NetForce, Recent, net
      <3>2. \A x \in DOMAIN items : items[x].next = cur => x \in flags'
        BY <2>2
      <3>3. asof' <= cur + 1
        BY <2>3, <3>1 DEF IInv, Provided
      <3> QED
        BY <1>1, <2>3, <3>1, <3>2, <3>3 DEF IInv, Provided, Served
    <2> QED
      BY <1>2, <2>4, <2>5, <2>6 DEF IInv
  <1>4. CASE Sigint
    BY <1>1, <1>2, <1>4 DEF Sigint, schedule, net, IInv, TypeOK, InLoop, Ahead, Flagged,
       Provided, Served
  <1>5. CASE Continue
    BY <1>1, <1>2, <1>5 DEF Continue, schedule, net, IInv, TypeOK, InLoop, Ahead, Flagged,
       Provided, Served
  <1>6. CASE LastStep \/ TimeOut \/ CallbackEnds
    BY <1>1, <1>2, <1>6 DEF LastStep, TimeOut, CallbackEnds, Finish, schedule, net, IInv,
       TypeOK, InLoop, Ahead, Flagged, Provided, Served
  <1> QED
    BY <1>3, <1>4, <1>5, <1>6

\* What the execution of the items of one kind does to each of them.
LEMMA ExecuteStep ==
    ASSUME IInv, NEW kind, Execute(kind)
    PROVE  /\ DOMAIN items' = DOMAIN items
           /\ items' \in [DOMAIN items -> Schedule]
           /\ ran' \in [DOMAIN items -> SUBSET Nat]
           /\ \A x \in DOMAIN items :
                 IF x \in kind /\ items[x].next = cur
                 THEN items'[x].next > cur
                 ELSE items'[x] = items[x]
           /\ Periodic'
  <1>0. /\ cur \in Nat /\ items \in [DOMAIN items -> Schedule]
        /\ since \in [DOMAIN items -> Nat] /\ ran \in [DOMAIN items -> SUBSET Nat]
    BY RunLoopAssumption DEF IInv, TypeOK
  <1> DEFINE due == {x \in DOMAIN items \cap kind : items[x].next = cur}
  <1>1. /\ items' = [x \in DOMAIN items |-> IF x \in due THEN Executed(items[x], cur) ELSE items[x]]
        /\ ran' = [x \in DOMAIN items |-> IF x \in due THEN ran[x] \cup {cur} ELSE ran[x]]
        /\ UNCHANGED <<cur, since>>
    BY DEF Execute, peekExecute
  <1>2. ASSUME NEW x \in due
        PROVE  /\ Executed(items[x], cur) \in Schedule /\ Executed(items[x], cur).next > cur
               /\ Executed(items[x], cur).variable = items[x].variable
    BY <1>0, <1>2, ExecutedLater
  <1>3. items' \in [DOMAIN items -> Schedule] /\ ran' \in [DOMAIN items -> SUBSET Nat]
    <2>1. ASSUME NEW x \in DOMAIN items
          PROVE  (IF x \in due THEN Executed(items[x], cur) ELSE items[x]) \in Schedule
      BY <1>0, <1>2
    <2>2. ASSUME NEW x \in DOMAIN items
          PROVE  (IF x \in due THEN ran[x] \cup {cur} ELSE ran[x]) \in SUBSET Nat
      BY <1>0
    <2> HIDE DEF due
    <2> QED
      BY <1>1, <2>1, <2>2
  <1>4. Periodic'
    <2> SUFFICES ASSUME NEW x \in DOMAIN items, ~items'[x].variable
                 PROVE  (Regular(items[x], since[x], ran[x]) /\ Near(items[x], since[x]))'
      BY <1>1 DEF Periodic
    <2>1. CASE x \in due
      <3>1. /\ items'[x] = Executed(items[x], cur) /\ ran'[x] = ran[x] \cup {cur}
            /\ since'[x] = since[x] /\ cur' = cur
        BY <1>1, <2>1
      <3>2. ~items[x].variable /\ items[x].next = cur /\ items[x] \in Schedule
        BY <1>0, <1>2, <2>1, <3>1
      <3>3. Regular(items[x], since[x], ran[x]) /\ since[x] \in Nat
        BY <1>0, <3>2 DEF IInv, Periodic
      <3>4. /\ Regular(Executed(items[x], cur), since[x], ran[x] \cup {cur})
            /\ Near(Executed(items[x], cur), since[x])
        BY <1>0, <3>2, <3>3, ExecutedRegular
      <3> QED
        BY <3>1, <3>4 DEF Regular, Near
    <2>2. CASE x \notin due
      <3>1. UNCHANGED <<items[x], ran[x], since[x], cur>>
        BY <1>1, <2>2
      <3>2. Regular(items[x], since[x], ran[x]) /\ Near(items[x], since[x])
        BY <3>1 DEF IInv, Periodic
      <3> QED
        BY <3>1, <3>2 DEF Regular, Near
    <2> QED
      BY <2>1, <2>2
  <1>5. \A x \in DOMAIN items :
            IF x \in kind /\ items[x].next = cur
            THEN items'[x].next > cur
            ELSE items'[x] = items[x]
    BY <1>1, <1>2
  <1> QED
    BY <1>1, <1>3, <1>4, <1>5

\* Execution leaves the force as it is: an item that comes next at the next step
\* because it has just executed was scheduled after the force for that step.
LEMMA ExecutedServed ==
    ASSUME IInv, NEW kind, Execute(kind)
    PROVE  Provided'
  <1>1. /\ UNCHANGED <<cur, last, fields, late, asof>> /\ cur \in Nat
        /\ asof <= cur + 1
    BY RunLoopAssumption DEF Execute, net, IInv, TypeOK, Provided
  <1>2. ASSUME NEW x \in DOMAIN items'
        PROVE  /\ x \in DOMAIN items
               /\ \/ items[x].next = cur /\ items'[x].next > cur
                  \/ items'[x] = items[x]
    BY ExecuteStep
  <1>3. ASSUME NEW x \in DOMAIN items'
        PROVE  /\ items'[x].next = cur => Served(x)'
               /\ asof = cur + 1 /\ items'[x].next = cur => x \in late
               /\ asof = cur + 1 /\ last = cur + 1 /\ items'[x].next = cur + 1 =>
                     x \in fields \cup late
    BY <1>1, <1>2 DEF IInv, Provided, Served
  <1> QED
    BY <1>1, <1>3 DEF Provided

LEMMA AnalyzeStep == ASSUME IInv, Analyze PROVE IInv'
  <1>1. Execute(Analyzer) /\ pc = "analyze" /\ pc' = "update" /\ flags' = flags
    BY DEF Analyze
  <1>2. UNCHANGED <<cur, end, sigint, since, prepared, last, fields, late, asof>>
    BY <1>1 DEF Execute, net
  <1>3. TypeOK' /\ InLoop'
    BY <1>1, <1>2, ExecuteStep DEF IInv, TypeOK, InLoop
  <1>4. Ahead' /\ Flagged'
    <2> SUFFICES ASSUME NEW x \in DOMAIN items
                 PROVE  /\ items'[x].next >= cur
                        /\ x \in Analyzer => items'[x].next > cur
                        /\ x \in Updater /\ items'[x].next = cur => x \in flags
      BY <1>1, <1>2, ExecuteStep DEF Ahead, Flagged
    <2>1. /\ IF x \in Analyzer /\ items[x].next = cur
             THEN items'[x].next > cur
             ELSE items'[x] = items[x]
          /\ items'[x] \in Schedule
      BY <1>1, ExecuteStep
    <2>2. /\ items[x].next >= cur /\ (items[x].next = cur => x \in flags)
          /\ items[x] \in Schedule
      BY <1>1 DEF IInv, Ahead, Flagged, TypeOK
    <2>3. cur \in Nat /\ items[x].next \in Nat /\ items'[x].next \in Nat
      BY <2>1, <2>2, RunLoopAssumption DEF IInv, TypeOK, Schedule
    <2> QED
      BY <2>1, <2>2, <2>3
  <1>5. Provided'
    BY <1>1, ExecutedServed
  <1> QED
    BY <1>1, <1>3, <1>4, <1>5, ExecuteStep DEF IInv

LEMMA UpdateStep == ASSUME IInv, Update PROVE IInv'
  <1>1. /\ Execute(Updater) /\ pc = "update" /\ pc' = "integrate"
        /\ flags' = {x \in DOMAIN items : items'[x].next = cur + 1}
    BY DEF Update, FlagStep
  <1>2. UNCHANGED <<cur, end, sigint, since, prepared, last, fields, late, asof>>
    BY <1>1 DEF Execute, net
  <1>3. TypeOK' /\ InLoop'
    BY <1>1, <1>2, ExecuteStep DEF IInv, TypeOK, InLoop
  <1>4. Ahead' /\ Flagged'
    <2> SUFFICES ASSUME NEW x \in DOMAIN items
                 PROVE  items'[x].next > cur
      <3>1. \A x \in DOMAIN items : items'[x] \in Schedule
        BY <1>1, ExecuteStep
      <3>2. cur \in Nat /\ \A x \in DOMAIN items : items'[x].next \in Nat
        BY <3>1, RunLoopAssumption DEF IInv, TypeOK, Schedule
      <3> QED
        BY <1>1, <1>2, <3>2, ExecuteStep DEF Ahead, Flagged
    <2>1. IF x \in Updater /\ items[x].next = cur
          THEN items'[x].next > cur
          ELSE items'[x] = items[x]
      BY <1>1, ExecuteStep
    <2>2. items[x].next >= cur /\ (x \in Analyzer => items[x].next > cur)
      BY <1>1 DEF IInv, Ahead
    <2>3. x \in Analyzer \cup Updater /\ items[x] \in Schedule
      BY DEF IInv, TypeOK, Item
    <2>4. cur \in Nat /\ items[x].next \in Nat
      BY <2>3, RunLoopAssumption DEF IInv, TypeOK, Schedule
    <2> QED
      BY <2>1, <2>2, <2>3, <2>4
  <1>5. Provided'
    BY <1>1, ExecutedServed
  <1> QED
    BY <1>1, <1>3, <1>4, <1>5, ExecuteStep DEF IInv

LEMMA IntegrateStep == ASSUME IInv, Integrate PROVE IInv'
  <1>0. /\ pc = "integrate" /\ UNCHANGED <<items, since, ran, end, flags>>
        /\ cur \in Nat /\ cur < end /\ end \in 0..MaxStep
        /\ \A x \in DOMAIN items : items[x].next > cur /\ items[x] \in Schedule
    BY RunLoopAssumption DEF Integrate, schedule, IInv, TypeOK, InLoop, Ahead
  <1>1. \A x \in DOMAIN items : items[x].next \in Nat /\ items[x].period \in Nat
    BY <1>0, RunLoopAssumption DEF Schedule
  <1>2. \/ cur' = cur /\ pc' = "script" /\ sigint' = FALSE
        \/ cur' = cur + 1 /\ pc' = "head" /\ sigint' = sigint
    BY DEF Integrate, Interrupted, StepForward
  <1>20. /\ prepared' = prepared
         /\ \/ fields' = flags /\ late' = {} /\ asof' = cur + 1 /\ last' \in {last, -1, cur + 1}
            \/ /\ last = cur + 1 /\ last' = last /\ asof' \in {asof, -1}
               /\ fields' = fields \cap flags /\ late' = late
    BY DEF Integrate, NetForce, Recent
  <1>3. TypeOK' /\ InLoop'
    <2>1. cur' \in 0..MaxStep /\ (pc' = "head" => cur' <= end)
      BY <1>0, <1>2, RunLoopAssumption
    <2>2. pc' \in {"script", "head"} /\ sigint' \in BOOLEAN
      BY <1>2 DEF IInv, TypeOK
    <2>3. InLoop'
      BY <1>0, <2>1, <2>2 DEF InLoop
    <2>4. TypeOK'
      <3>1. fields' \subseteq Item /\ late' \subseteq Item /\ {last, asof}' \subseteq Int
        BY <1>0, <1>20 DEF IInv, TypeOK
      <3> QED
        BY <1>0, <1>20, <2>1, <2>2, <3>1 DEF IInv, TypeOK
    <2> QED
      BY <2>3, <2>4
  <1>4. Ahead' /\ Flagged'
    BY <1>0, <1>1, <1>2 DEF IInv, Ahead, Flagged
  <1>5. Periodic'
    <2> SUFFICES ASSUME NEW x \in DOMAIN items, ~items[x].variable
                 PROVE  (Regular(items[x], since[x], ran[x]) /\ Near(items[x], since[x]))'
      BY <1>0 DEF Periodic
    <2>1. Regular(items[x], since[x], ran[x]) /\ Near(items[x], since[x])
      BY DEF IInv, Periodic
    <2>2. Near(items[x], since[x])'
      BY <1>0, <1>1, <1>2, <2>1 DEF Near
    <2> QED
      BY <1>0, <2>1, <2>2 DEF Regular
  <1>6. Provided'
    <2>1. ASSUME NEW x \in DOMAIN items, items[x].next = cur + 1, asof' = cur + 1
          PROVE  x \in fields' \cup late'
      <3>1. x \in flags
        BY <1>0, <2>1 DEF IInv, Flagged
      <3>2. CASE fields' = flags
        BY <3>1, <3>2
      <3>3. CASE fields' = fields \cap flags /\ late' = late /\ last = cur + 1 /\ asof' \in {asof, -1}
        <4>1. asof = cur + 1
          BY <1>0, <2>1, <3>3
        <4> QED
          BY <2>1, <3>1, <3>3, <4>1 DEF IInv, Provided
      <3> QED
        BY <1>20, <3>2, <3>3
    <2>2. \A x \in DOMAIN items : items[x].next > cur
      BY <1>0
    <2>3. asof' <= cur + 1
      BY <1>0, <1>20 DEF IInv, Provided
    <2>4. CASE cur' = cur
      BY <1>0, <1>1, <2>1, <2>2, <2>3, <2>4 DEF Provided, Served
    <2>5. CASE cur' = cur + 1
      <3>1. asof' <= cur' + 1 /\ asof' # cur' + 1
        BY <1>0, <1>20, <2>3, <2>5 DEF IInv, TypeOK
      <3> QED
        BY <1>0, <2>1, <2>5, <3>1 DEF Provided, Served
    <2> QED
      BY <1>2, <2>4, <2>5
  <1> QED
    BY <1>3, <1>4, <1>5, <1>6 DEF IInv

LEMMA InitIInv == Init => IInv
  <1> SUFFICES ASSUME Init PROVE IInv
    OBVIOUS
  <1>1. DOMAIN items = {} /\ DOMAIN since = {} /\ DOMAIN ran = {}
    BY DEF Init
  <1>2. /\ items \in [DOMAIN items -> Schedule] /\ since \in [DOMAIN items -> Nat]
        /\ ran \in [DOMAIN items -> SUBSET Nat]
    BY <1>1 DEF Init
  <1>3. TypeOK
    <2>1. cur \in 0..MaxStep /\ end \in 0..MaxStep
      BY RunLoopAssumption DEF Init
    <2>2. /\ flags \subseteq Item /\ {sigint, prepared} \subseteq BOOLEAN /\ pc = "script"
          /\ fields \subseteq Item /\ late \subseteq Item
      BY DEF Init
    <2>3. {last, asof} \subseteq Int
      <3>1. last = -1 /\ asof = -1
        BY DEF Init
      <3> QED
        BY <3>1
    <2> QED
      BY <1>1, <1>2, <2>1, <2>2, <2>3 DEF TypeOK
  <1> QED
    BY <1>1, <1>3 DEF Init, IInv, InLoop, Ahead, Periodic, Flagged, Provided

LEMMA NextIInv == ASSUME IInv, [Next]_vars PROVE IInv'
  <1>1. CASE UNCHANGED vars
    BY <1>1 DEF vars, schedule, net, IInv, TypeOK, InLoop, Ahead, Periodic, Regular, Near,
       Flagged, Provided, Served
  <1> QED
    BY <1>1, ScriptStep, SetIntegratorStep, HeadStep, AnalyzeStep, UpdateStep, IntegrateStep DEF Next

-----------------------------------------------------------------------------
(* Theorems                                                                 *)

\* The schedules and the counters keep their types; the steps that a variable
\* period function names never become negative.
THEOREM TypeCorrect == Spec => []TypeOK
  <1>1. IInv => TypeOK
    BY DEF IInv
  <1> QED
    BY <1>1, InitIInv, NextIInv, PTL DEF Spec

\* No schedule falls behind, so that no analyzer or updater is silent for ever,
\* whatever the script does between runs and however they end.
THEOREM NothingMissed == Spec => []NeverMissed
  <1>1. IInv => NeverMissed
    BY DEF IInv, Ahead, NeverMissed
  <1> QED
    BY <1>1, InitIInv, NextIInv, PTL DEF Spec

\* A fixed period is kept to the step, through runs, limits and interrupts.
THEOREM PeriodsKept == Spec => []ExactlyPeriodic
  <1>1. ASSUME IInv, NEW x \in DOMAIN items, ~items[x].variable
        PROVE  ran[x] \ {cur} = {s \in 0..(cur - 1) : s >= since[x] /\ (s - since[x]) % items[x].period = 0}
    <2>1. items[x] \in Schedule /\ since[x] \in Nat /\ cur \in Nat
      BY <1>1, RunLoopAssumption DEF IInv, TypeOK
    <2>2. /\ Regular(items[x], since[x], ran[x]) /\ Near(items[x], since[x])
          /\ items[x].next >= cur
      BY <1>1 DEF IInv, Periodic, Ahead
    <2> QED
      BY <2>1, <2>2, RegularPast
  <1>2. IInv => ExactlyPeriodic
    BY <1>1 DEF ExactlyPeriodic
  <1> QED
    BY <1>2, InitIInv, NextIInv, PTL DEF Spec

\* An item that executes reads a force that was evaluated with the fields it
\* needs. The exceptions are an item that was added or rescheduled after that
\* evaluation, in a run whose prepRun() computes nothing, and a force that
\* compute() took for one of the step although it was evaluated at another.
THEOREM FieldsRequested == Spec => []FlagsReady
  <1>1. IInv => FlagsReady
    BY DEF IInv, Provided, FlagsReady, peekExecute
  <1> QED
    BY <1>1, InitIInv, NextIInv, PTL DEF Spec
=============================================================================
