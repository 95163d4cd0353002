----------------------------- MODULE Autotuner -----------------------------
(***************************************************************************)
(* Autotuner on the ranks of a job.  A call is getParam(), begin(), the    *)
(* kernel and end(); while sampling, end() stores the time of the kernel.  *)
(* With m_sync, as Communicator sets it for its precompute switch, the     *)
(* optimum is found on rank 0 from the samples of all ranks.               *)
(*                                                                         *)
(* All ranks execute the same operations in the same order; a rank may be  *)
(* up to Lead operations ahead of another.  Times are small integers; 0 is *)
(* the value a sample has before it is taken.                              *)
(***************************************************************************)
EXTENDS Integers, Sequences, SequencesExt

CONSTANTS
    Rank,       \* the MPI ranks
    NParams,    \* number of valid parameters; a parameter is its index
    nsamples,   \* samples asked for
    Periods,    \* periods the script may set
    Times,      \* times a kernel may take
    Sync,       \* m_sync
    Mode,       \* m_mode: "median", "avg" or "max"
    Lead        \* how far ranks may be apart

AutotunerAssumption ==
    /\ NParams \in Nat \ {0} /\ nsamples \in Nat /\ Lead \in Nat \ {0}
    /\ Periods \subseteq Nat /\ Periods # {} /\ Times \subseteq Nat \ {0}
    /\ Sync \in BOOLEAN /\ Mode \in {"median", "avg", "max"}

\* The constructor makes the number of samples odd.
m_nsamples == IF nsamples % 2 = 0 THEN nsamples + 1 ELSE nsamples

Element == 0..(NParams - 1)
Sample == 0..(m_nsamples - 1)

VARIABLES
    tun,    \* the tuner of each rank
    todo,   \* operations the rank has still to execute
    pc,     \* "ready", "compute": in computeOptimalParameter(), "result"
    opt     \* the optimum on its way to a rank

vars == <<tun, todo, pc, opt>>

Op == {<<"call">>, <<"enable">>, <<"disable">>} \cup {<<"period", p>> : p \in Periods}

-----------------------------------------------------------------------------
(* computeOptimalParameter()                                                *)

\* The ranks whose samples are combined for rank r.
Peers(r) == IF Sync THEN Rank ELSE {r}

\* The samples of element i that are combined, in ascending order.
Combined(r, i) ==
    LET of == SetToSeq(Peers(r) \X Sample)
        time(x) == tun[x[1]].samples[i, x[2]]
    IN SortSeq([k \in DOMAIN of |-> time(of[k])], <)

SumOf(s) == FoldLeft(+, 0, s)

\* What stands for an element: average (times the number of samples, which all
\* elements share), maximum, or the median of the code.
Statistic(r, i) ==
    LET v == Combined(r, i) IN
    CASE Mode = "avg" -> SumOf(v)
      [] Mode = "max" -> v[Len(v)]
      [] OTHER -> v[(Len(v) \div 2) + 1]

\* The first element with the smallest statistic.
Optimal(r) ==
    LET value == [i \in Element |-> Statistic(r, i)]
    IN CHOOSE i \in Element : \A j \in Element :
           IF j < i THEN value[i] < value[j] ELSE value[i] <= value[j]

\* Mutation: each rank takes the optimum of its own samples.
DecideAlone(r) ==
    /\ \A q \in Peers(r) : pc[q] = "compute"
    /\ opt' = [q \in Rank |-> IF q \in Peers(r)
                 THEN (CHOOSE i \in Element : \A j \in Element :
                          tun[q].samples[i, 0] <= tun[q].samples[j, 0])
                 ELSE opt[q]]
    /\ pc' = [q \in Rank |-> IF q \in Peers(r) THEN "result" ELSE pc[q]]
    /\ UNCHANGED <<tun, todo>>

\* The barrier and the gathers end when all ranks are there; the optimum is
\* broadcast.
Decide(r) ==
    /\ \A q \in Peers(r) : pc[q] = "compute"
    /\ opt' = [q \in Rank |-> IF q \in Peers(r) THEN Optimal(r) ELSE opt[q]]
    /\ pc' = [q \in Rank |-> IF q \in Peers(r) THEN "result" ELSE pc[q]]
    /\ UNCHANGED <<tun, todo>>

Take(r) ==
    /\ pc[r] = "result"
    /\ tun' = [tun EXCEPT ![r].param = opt[r]]
    /\ pc' = [pc EXCEPT ![r] = "ready"]
    /\ UNCHANGED <<todo, opt>>

-----------------------------------------------------------------------------
(* The state machine                                                        *)

isComplete(t) == t.state # "STARTUP"

\* end() in the state STARTUP: all samples of an element, then the next one.
AfterStartup(t) ==
    IF t.sample + 1 < m_nsamples THEN [t EXCEPT !.sample = @ + 1]
    ELSE IF t.element + 1 < NParams
    THEN [t EXCEPT !.sample = 0, !.element = @ + 1, !.param = t.element + 1]
    ELSE [t EXCEPT !.sample = 0, !.element = 0, !.state = "IDLE"]

\* end() in the state SCANNING: one sample of each element.
AfterScanning(t) ==
    IF t.element + 1 < NParams
    THEN [t EXCEPT !.element = @ + 1, !.param = t.element + 1]
    ELSE [t EXCEPT !.element = 0, !.state = "IDLE", !.sample = (@ + 1) % m_nsamples]

\* Mutation: the counter starts again, the state stays as it is.
AfterIdleStays(t) ==
    IF t.calls + 1 > t.period THEN [t EXCEPT !.calls = 0] ELSE [t EXCEPT !.calls = @ + 1]

\* end() in the state IDLE: a new scan after the period.
AfterIdle(t) ==
    IF t.calls + 1 > t.period
    THEN [t EXCEPT !.calls = 0, !.param = t.element, !.state = "SCANNING"]
    ELSE [t EXCEPT !.calls = @ + 1]

\* begin() and end() store the time only while sampling.
Sampling(t) == t.state \in {"STARTUP", "SCANNING"}

Timed(t, time) ==
    IF Sampling(t) THEN [t EXCEPT !.samples[<<t.element, t.sample>>] = time] ELSE t

After(t) ==
    CASE t.state = "STARTUP" -> AfterStartup(t)
      [] t.state = "SCANNING" -> AfterScanning(t)
      [] t.state = "IDLE" -> AfterIdle(t)

\* The next operation of rank r is done; its tuner becomes t.  It goes into
\* computeOptimalParameter() if compute holds.
Done(r, t, compute) ==
    /\ tun' = [tun EXCEPT ![r] = t]
    /\ todo' = [todo EXCEPT ![r] = Tail(@)]
    /\ pc' = [pc EXCEPT ![r] = IF compute THEN "compute" ELSE "ready"]
    /\ UNCHANGED opt

Turn(r, op) == pc[r] = "ready" /\ todo[r] # <<>> /\ Head(todo[r])[1] = op

\* A call on a tuner that is not disabled.
Call(r) ==
    /\ Turn(r, "call") /\ tun[r].enabled
    /\ \E time \in Times :
          LET t == After(Timed(tun[r], time))
          IN Done(r, t, Sampling(tun[r]) /\ t.state = "IDLE")

CallDisabled(r) == Turn(r, "call") /\ ~tun[r].enabled /\ Done(r, tun[r], FALSE)

Enable(r) == Turn(r, "enable") /\ Done(r, [tun[r] EXCEPT !.enabled = TRUE], FALSE)

\* setEnabled(false)
Disable(r) ==
    /\ Turn(r, "disable")
    /\ LET t == [tun[r] EXCEPT !.enabled = FALSE] IN
       IF isComplete(t) THEN Done(r, [t EXCEPT !.element = 0, !.state = "IDLE"], TRUE)
                        ELSE Done(r, t, FALSE)

SetPeriod(r) ==
    Turn(r, "period") /\ Done(r, [tun[r] EXCEPT !.period = Head(todo[r])[2]], FALSE)

\* The script and the run go on: an operation for all ranks.
Issue(op) ==
    /\ \A r \in Rank : Len(todo[r]) < Lead
    /\ todo' = [r \in Rank |-> Append(todo[r], op)]
    /\ UNCHANGED <<tun, pc, opt>>

-----------------------------------------------------------------------------
Init ==
    /\ \E p \in Periods :
          tun = [r \in Rank |->
            [state |-> "STARTUP", sample |-> 0, element |-> 0, calls |-> 0, param |-> 0,
             enabled |-> TRUE, period |-> p, samples |-> [x \in Element \X Sample |-> 0]]]
    /\ todo = [r \in Rank |-> <<>>]
    /\ pc = [r \in Rank |-> "ready"]
    /\ opt = [r \in Rank |-> 0]

RankNext(r) ==
    \/ Call(r) \/ CallDisabled(r) \/ Enable(r) \/ Disable(r) \/ SetPeriod(r)
    \/ Decide(r) \/ Take(r)

Next == (\E op \in Op : Issue(op)) \/ (\E r \in Rank : RankNext(r))

\* Ranks execute what they are given, and a run calls the kernel again and again.
Fairness == SF_vars(Issue(<<"call">>)) /\ \A r \in Rank : WF_vars(RankNext(r))

Spec == Init /\ [][Next]_vars /\ Fairness

-----------------------------------------------------------------------------
\* Indices stay inside m_parameters and m_samples.
TypeOK ==
    /\ \A r \in Rank :
          /\ tun[r].state \in {"STARTUP", "IDLE", "SCANNING"}
          /\ tun[r].sample \in Sample /\ tun[r].element \in Element
          /\ tun[r].param \in Element /\ tun[r].enabled \in BOOLEAN
          /\ tun[r].period \in Periods /\ tun[r].calls \in Nat
          /\ \A x \in Element \X Sample : tun[r].samples[x] \in Times \cup {0}
    /\ pc \in [Rank -> {"ready", "compute", "result"}]
    /\ opt \in [Rank -> Element]

\* Two ranks that executed the same operations launch with the same parameter:
\* the precompute switch of Communicator is the same on all ranks.
ParamsAgree ==
    Sync => \A r, q \in Rank :
        pc[r] = "ready" /\ pc[q] = "ready" /\ todo[r] = todo[q] => tun[r].param = tun[q].param

\* A rank waits at the barrier only for ranks that are there or have operations
\* left that bring them there.
BarrierFills ==
    Sync => \A r, q \in Rank :
        pc[r] = "compute" /\ pc[q] # "compute" => todo[q] # <<>>

\* No optimum is computed from a sample that was never taken (its time, 0,
\* would win).
SamplesTaken ==
    \A r \in Rank : pc[r] = "compute" =>
        \A x \in Element \X Sample : tun[r].samples[x] # 0

\* m is a median of the times of element i on the ranks P.
IsMedian(m, P, i) ==
    LET all == P \X Sample
        below(t) == Cardinality({x \in all : tun[x[1]].samples[i, x[2]] < t})
    IN below(m) <= Cardinality(all) \div 2 /\ below(m + 1) > Cardinality(all) \div 2

\* While no rank samples, the parameter in use is the first of those with the
\* smallest median of the times that are stored, also after a scan was cut
\* short by setEnabled(false).
BestInUse ==
    Mode = "median" => \A r \in Rank :
        (\A q \in Peers(r) : tun[q].state = "IDLE" /\ pc[q] = "ready") =>
            \A i \in Element : \E m, n \in Times :
                /\ IsMedian(m, Peers(r), tun[r].param) /\ IsMedian(n, Peers(r), i)
                /\ IF i < tun[r].param THEN m < n ELSE m <= n

\* A tuner that stays enabled samples again and again, and comes to a result
\* again and again: no rank is left in the barrier.
KeepsTuning ==
    \A r \in Rank :
        <>[](tun[r].enabled) => []<>(tun[r].state = "SCANNING") /\ []<>(tun[r].state = "IDLE")
=============================================================================
