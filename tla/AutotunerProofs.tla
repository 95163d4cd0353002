-------------------------- MODULE AutotunerProofs --------------------------
(***************************************************************************)
(* ParamsAgree, BarrierFills and SamplesTaken of Autotuner for any number  *)
(* of ranks, parameters and samples, any periods, and ranks any number of  *)
(* operations apart.                                                       *)
(***************************************************************************)
EXTENDS Autotuner, SequenceTheorems, TLAPS

-----------------------------------------------------------------------------
(* The tables have their types.  What the optimum is found from is outside *)
(* of this proof: P is a set that holds the parameters in use.             *)

Tuner(P) ==
    [state : {"STARTUP", "IDLE", "SCANNING"}, sample : Sample, element : Element,
     calls : Nat, param : P, enabled : BOOLEAN, period : Periods,
     samples : [Element \X Sample -> Times \cup {0}]]

Typed(P) ==
    /\ Element \subseteq P
    /\ tun \in [Rank -> Tuner(P)] /\ opt \in [Rank -> P]
    /\ todo \in [Rank -> Seq(Op)]
    /\ pc \in [Rank -> {"ready", "compute", "result"}]

LEMMA SampleType ==
    ASSUME AutotunerAssumption
    PROVE  /\ m_nsamples \in Nat \ {0}
           /\ Sample = 0..(m_nsamples - 1) /\ Element = 0..(NParams - 1)
           /\ NParams \in Nat \ {0}
           /\ 0 \in Sample /\ 0 \in Element
  <1>1. nsamples \in Nat /\ NParams \in Nat \ {0}
    BY DEF AutotunerAssumption
  <1>2. nsamples % 2 # 0 => nsamples # 0
    BY <1>1
  <1>3. m_nsamples \in Nat \ {0}
    BY <1>1, <1>2 DEF m_nsamples
  <1>. QED
    BY <1>1, <1>3 DEF Sample, Element

LEMMA OpType ==
    ASSUME NEW op \in Op
    PROVE  op[1] = "period" => op[2] \in Periods
  BY DEF Op

-----------------------------------------------------------------------------
(* The part of a tuner that depends on the operations only.                *)

Control ==
    [state : {"STARTUP", "IDLE", "SCANNING"}, sample : Sample, element : Element,
     calls : Nat, enabled : BOOLEAN, period : Periods]

Ctl(t) ==
    [state |-> t.state, sample |-> t.sample, element |-> t.element,
     calls |-> t.calls, enabled |-> t.enabled, period |-> t.period]

\* A call ends the last sample of a scan.
EndsScan(c) ==
    /\ c.element + 1 >= NParams
    /\ c.state = "STARTUP" => c.sample + 1 >= m_nsamples
    /\ c.state # "IDLE"

\* An operation that leads into computeOptimalParameter().
Computes(c, op) ==
    \/ op[1] = "call" /\ c.enabled /\ EndsScan(c)
    \/ op[1] = "disable" /\ c.state # "STARTUP"

With(c, state, sample, element, calls) ==
    [state |-> state, sample |-> sample, element |-> element, calls |-> calls,
     enabled |-> c.enabled, period |-> c.period]

\* What a call makes of it.
Called(c) ==
    IF c.state = "IDLE"
    THEN IF c.calls + 1 > c.period THEN With(c, "SCANNING", c.sample, c.element, 0)
                                   ELSE [c EXCEPT !.calls = @ + 1]
    ELSE IF c.state = "SCANNING"
    THEN IF c.element + 1 < NParams THEN [c EXCEPT !.element = @ + 1]
         ELSE With(c, "IDLE", (c.sample + 1) % m_nsamples, 0, c.calls)
    ELSE IF c.sample + 1 < m_nsamples THEN [c EXCEPT !.sample = @ + 1]
    ELSE IF c.element + 1 < NParams THEN With(c, c.state, 0, c.element + 1, c.calls)
         ELSE With(c, "IDLE", 0, 0, c.calls)

Enabled(c, e) == [c EXCEPT !.enabled = e]

\* What an operation makes of it.
Ran(c, op) ==
    IF op[1] = "call" THEN IF c.enabled THEN Called(c) ELSE c
    ELSE IF op[1] = "enable" THEN Enabled(c, TRUE)
    ELSE IF op[1] = "period" THEN [c EXCEPT !.period = op[2]]
    ELSE IF c.state = "STARTUP" THEN Enabled(c, FALSE)
    ELSE Enabled(With(c, "IDLE", c.sample, 0, c.calls), FALSE)

\* The parameter after an operation without an optimum.
NextParam(c, p, op) ==
    IF op[1] # "call" \/ ~c.enabled THEN p
    ELSE IF c.state = "IDLE" THEN IF c.calls + 1 > c.period THEN c.element ELSE p
    ELSE IF c.state = "STARTUP" /\ c.sample + 1 < m_nsamples THEN p
    ELSE IF c.element + 1 < NParams THEN c.element + 1 ELSE p

\* The samples up to the one that comes next were taken.
Started(t) ==
    \A e \in Element, s \in Sample :
        t.state # "STARTUP" \/ e < t.element \/ (e = t.element /\ s < t.sample)
            => t.samples[<<e, s>>] # 0

-----------------------------------------------------------------------------
(* One operation on one tuner.                                             *)

\* Storing the time of the kernel.
LEMMA TimedTuner ==
    ASSUME AutotunerAssumption, NEW P, NEW t \in Tuner(P), NEW time \in Times
    PROVE  LET u == Timed(t, time) IN
           /\ u \in Tuner(P) /\ Ctl(u) = Ctl(t) /\ u.param = t.param
           /\ Started(t) => Started(u)
           /\ Started(t) /\ Sampling(t) => u.samples[<<t.element, t.sample>>] # 0
  <1>. DEFINE u == Timed(t, time)
              x == <<t.element, t.sample>>
  <1>1. time \in Times \cup {0} /\ time # 0
    BY DEF AutotunerAssumption
  <1>2. x \in Element \X Sample
    BY DEF Tuner
  <1>3. CASE ~Sampling(t)
    <2>1. u = t
      BY <1>3 DEF Timed
    <2>. QED
      BY <1>3, <2>1
  <1>4. CASE Sampling(t)
    <2>1. u = [t EXCEPT !.samples = [t.samples EXCEPT ![x] = time]]
      BY <1>4 DEF Timed
    <2>2. /\ u \in Tuner(P) /\ u.samples = [t.samples EXCEPT ![x] = time]
          /\ u.state = t.state /\ u.sample = t.sample /\ u.element = t.element
          /\ u.calls = t.calls /\ u.enabled = t.enabled /\ u.period = t.period
          /\ u.param = t.param
      <3>1. t.samples \in [Element \X Sample -> Times \cup {0}]
        BY DEF Tuner
      <3>2. [t.samples EXCEPT ![x] = time] \in [Element \X Sample -> Times \cup {0}]
        BY <1>1, <3>1
      <3>. HIDE DEF x
      <3>. QED
        BY <2>1, <3>2 DEF Tuner
    <2>3. t.samples \in [Element \X Sample -> Times \cup {0}]
      BY DEF Tuner
    <2>4. u.samples[x] = time
      BY <1>2, <2>2, <2>3
    <2>5. \A y \in Element \X Sample : u.samples[y] = time \/ u.samples[y] = t.samples[y]
      BY <2>2, <2>3
    <2>6. ASSUME Started(t) PROVE Started(u)
      <3>. SUFFICES ASSUME NEW e \in Element, NEW s \in Sample,
                           t.state # "STARTUP" \/ e < t.element \/ (e = t.element /\ s < t.sample)
                    PROVE  u.samples[<<e, s>>] # 0
        BY <2>2 DEF Started
      <3>1. t.samples[<<e, s>>] # 0
        BY <2>6 DEF Started
      <3>2. <<e, s>> \in Element \X Sample
        OBVIOUS
      <3>. QED
        BY <1>1, <2>5, <3>1, <3>2
    <2>7. Ctl(u) = Ctl(t)
      BY <2>2 DEF Ctl
    <2>. QED
      BY <1>1, <2>2, <2>4, <2>6, <2>7
  <1>. QED
    BY <1>3, <1>4

\* end(): the next state of the machine.
LEMMA AfterTuner ==
    ASSUME AutotunerAssumption, NEW P, Element \subseteq P, NEW t \in Tuner(P)
    PROVE  LET u == After(t)  c == Ctl(t) IN
           /\ u \in Tuner(P) /\ Ctl(u) = Called(c)
           /\ Sampling(t) /\ u.state = "IDLE" <=> EndsScan(c)
           /\ t.enabled /\ ~EndsScan(c) => u.param = NextParam(c, t.param, <<"call">>)
           /\ u.samples = t.samples
  <1>. DEFINE u == After(t)
              c == Ctl(t)
  <1>0. /\ m_nsamples \in Nat \ {0} /\ NParams \in Nat \ {0}
        /\ Sample = 0..(m_nsamples - 1) /\ Element = 0..(NParams - 1)
    BY SampleType
  <1>1. /\ t.sample \in 0..(m_nsamples - 1) /\ t.element \in 0..(NParams - 1)
        /\ t.calls \in Nat /\ t.state \in {"STARTUP", "IDLE", "SCANNING"}
        /\ t.param \in P /\ 0 \in P /\ t.element \in P
        /\ t.element + 1 < NParams => t.element + 1 \in Element /\ t.element + 1 \in P
        /\ t.sample + 1 < m_nsamples => t.sample + 1 \in Sample
        /\ 0 \in Sample /\ 0 \in Element /\ t.calls + 1 \in Nat
    BY <1>0 DEF Tuner
  <1>2. /\ c.state = t.state /\ c.sample = t.sample /\ c.element = t.element
        /\ c.calls = t.calls /\ c.enabled = t.enabled /\ c.period = t.period
    BY DEF Ctl
  <1>3. CASE t.state = "STARTUP"
    <2>1. u = AfterStartup(t)
      BY <1>3 DEF After
    <2>2. CASE t.sample + 1 < m_nsamples
      <3>1. u = [t EXCEPT !.sample = t.sample + 1]
        BY <2>1, <2>2 DEF AfterStartup
      <3>2. u \in Tuner(P) /\ u.param = t.param /\ u.samples = t.samples /\ u.state = t.state
        BY <1>1, <2>2, <3>1 DEF Tuner
      <3>3. Ctl(u) = [c EXCEPT !.sample = c.sample + 1]
        BY <3>1 DEF Tuner, Ctl
      <3>. QED
        BY <1>0, <1>1, <1>2, <1>3, <2>2, <3>2, <3>3 DEF Called, EndsScan, NextParam, Sampling
    <2>3. CASE ~(t.sample + 1 < m_nsamples) /\ t.element + 1 < NParams
      <3>1. u = [t EXCEPT !.sample = 0, !.element = t.element + 1, !.param = t.element + 1]
        BY <2>1, <2>3 DEF AfterStartup
      <3>2. /\ u \in Tuner(P) /\ u.param = t.element + 1 /\ u.samples = t.samples
            /\ u.state = t.state
        BY <1>1, <2>3, <3>1 DEF Tuner
      <3>4. /\ u.state = t.state /\ u.sample = 0 /\ u.element = t.element + 1
            /\ u.calls = t.calls /\ u.enabled = t.enabled /\ u.period = t.period
        BY <3>1 DEF Tuner
      <3>3. Ctl(u) = With(c, c.state, 0, c.element + 1, c.calls)
        BY <3>4 DEF Ctl, With
      <3>. QED
        BY <1>0, <1>1, <1>2, <1>3, <2>3, <3>2, <3>3 DEF Called, EndsScan, NextParam, Sampling
    <2>4. CASE ~(t.sample + 1 < m_nsamples) /\ ~(t.element + 1 < NParams)
      <3>1. u = [t EXCEPT !.sample = 0, !.element = 0, !.state = "IDLE"]
        BY <2>1, <2>4 DEF AfterStartup
      <3>2. u \in Tuner(P) /\ u.samples = t.samples /\ u.state = "IDLE"
        BY <1>1, <3>1 DEF Tuner
      <3>4. /\ u.state = "IDLE" /\ u.sample = 0 /\ u.element = 0
            /\ u.calls = t.calls /\ u.enabled = t.enabled /\ u.period = t.period
        BY <3>1 DEF Tuner
      <3>3. Ctl(u) = With(c, "IDLE", 0, 0, c.calls)
        BY <3>4 DEF Ctl, With
      <3>. QED
        BY <1>0, <1>1, <1>2, <1>3, <2>4, <3>2, <3>3 DEF Called, EndsScan, NextParam, Sampling
    <2>. QED
      BY <2>2, <2>3, <2>4
  <1>4. CASE t.state = "SCANNING"
    <2>1. u = AfterScanning(t)
      BY <1>4 DEF After
    <2>2. CASE t.element + 1 < NParams
      <3>1. u = [t EXCEPT !.element = t.element + 1, !.param = t.element + 1]
        BY <2>1, <2>2 DEF AfterScanning
      <3>2. /\ u \in Tuner(P) /\ u.param = t.element + 1 /\ u.samples = t.samples
            /\ u.state = t.state
        BY <1>1, <2>2, <3>1 DEF Tuner
      <3>3. Ctl(u) = [c EXCEPT !.element = c.element + 1]
        BY <3>1 DEF Tuner, Ctl
      <3>. QED
        BY <1>0, <1>1, <1>2, <1>4, <2>2, <3>2, <3>3 DEF Called, EndsScan, NextParam, Sampling
    <2>3. CASE ~(t.element + 1 < NParams)
      <3>1. u = [t EXCEPT !.element = 0, !.state = "IDLE", !.sample = (t.sample + 1) % m_nsamples]
        BY <2>1, <2>3 DEF AfterScanning
      <3>0. (t.sample + 1) % m_nsamples \in Sample
        BY <1>0, <1>1
      <3>2. u \in Tuner(P) /\ u.samples = t.samples /\ u.state = "IDLE"
        BY <1>1, <3>0, <3>1 DEF Tuner
      <3>4. /\ u.state = "IDLE" /\ u.sample = (t.sample + 1) % m_nsamples /\ u.element = 0
            /\ u.calls = t.calls /\ u.enabled = t.enabled /\ u.period = t.period
        BY <3>1 DEF Tuner
      <3>3. Ctl(u) = With(c, "IDLE", (c.sample + 1) % m_nsamples, 0, c.calls)
        BY <3>4 DEF Ctl, With
      <3>. QED
        BY <1>0, <1>1, <1>2, <1>4, <2>3, <3>2, <3>3 DEF Called, EndsScan, NextParam, Sampling
    <2>. QED
      BY <2>2, <2>3
  <1>5. CASE t.state = "IDLE"
    <2>1. u = AfterIdle(t)
      BY <1>5 DEF After
    <2>2. CASE t.calls + 1 > t.period
      <3>1. u = [t EXCEPT !.calls = 0, !.param = t.element, !.state = "SCANNING"]
        BY <2>1, <2>2 DEF AfterIdle
      <3>2. u \in Tuner(P) /\ u.param = t.element /\ u.samples = t.samples
        <4>1. t.element \in P /\ 0 \in Nat
          BY <1>1
        <4>. QED
          BY <3>1, <4>1 DEF Tuner
      <3>4. /\ u.state = "SCANNING" /\ u.sample = t.sample /\ u.element = t.element
            /\ u.calls = 0 /\ u.enabled = t.enabled /\ u.period = t.period
        BY <3>1 DEF Tuner
      <3>3. Ctl(u) = With(c, "SCANNING", c.sample, c.element, 0)
        BY <3>4 DEF Ctl, With
      <3>. QED
        BY <1>2, <1>5, <2>2, <3>2, <3>3 DEF Called, EndsScan, NextParam, Sampling
    <2>3. CASE ~(t.calls + 1 > t.period)
      <3>1. u = [t EXCEPT !.calls = t.calls + 1]
        BY <2>1, <2>3 DEF AfterIdle
      <3>2. u \in Tuner(P) /\ u.param = t.param /\ u.samples = t.samples
        BY <1>1, <3>1 DEF Tuner
      <3>3. Ctl(u) = [c EXCEPT !.calls = c.calls + 1]
        BY <3>1 DEF Tuner, Ctl
      <3>. QED
        BY <1>2, <1>5, <2>3, <3>2, <3>3 DEF Called, EndsScan, NextParam, Sampling
    <2>. QED
      BY <2>2, <2>3
  <1>. QED
    BY <1>1, <1>3, <1>4, <1>5

LEMMA AfterStarted ==
    ASSUME AutotunerAssumption, NEW P, Element \subseteq P, NEW t \in Tuner(P), Started(t),
           Sampling(t) => t.samples[<<t.element, t.sample>>] # 0
    PROVE  Started(After(t))
  <1>. DEFINE u == After(t)
  <1>0. /\ m_nsamples \in Nat \ {0} /\ NParams \in Nat \ {0}
        /\ Sample = 0..(m_nsamples - 1) /\ Element = 0..(NParams - 1)
    BY SampleType
  <1>1. u.samples = t.samples /\ Ctl(u) = Called(Ctl(t))
    BY AfterTuner
  <1>2. /\ u.state = Called(Ctl(t)).state /\ u.sample = Called(Ctl(t)).sample
        /\ u.element = Called(Ctl(t)).element
    BY <1>1 DEF Ctl
  <1>3. t.sample \in Sample /\ t.element \in Element
    BY DEF Tuner
  <1>4. CASE t.state # "STARTUP"
    BY <1>1, <1>4 DEF Started
  <1>5. CASE t.state = "STARTUP"
    <2>1. \A e \in Element, s \in Sample :
             e < t.element \/ (e = t.element /\ s <= t.sample) => t.samples[<<e, s>>] # 0
      BY <1>0, <1>3, <1>5 DEF Started, Sampling
    <2>2. \/ u.state = "STARTUP" /\ u.element = t.element /\ u.sample = t.sample + 1
          \/ /\ u.state = "STARTUP" /\ u.element = t.element + 1 /\ u.sample = 0
             /\ t.sample = m_nsamples - 1
          \/ t.sample = m_nsamples - 1 /\ t.element = NParams - 1
      BY <1>0, <1>2, <1>3, <1>5 DEF Called, Ctl, With
    <2>3. ASSUME NEW e \in Element, NEW s \in Sample,
                 u.state # "STARTUP" \/ e < u.element \/ (e = u.element /\ s < u.sample)
          PROVE  e < t.element \/ (e = t.element /\ s <= t.sample)
      BY <1>0, <1>3, <2>2, <2>3
    <2>. QED
      BY <1>1, <2>1, <2>3 DEF Started
  <1>. QED
    BY <1>4, <1>5

-----------------------------------------------------------------------------
(* One operation on one rank.                                              *)

Operates(r) == Call(r) \/ CallDisabled(r) \/ Enable(r) \/ Disable(r) \/ SetPeriod(r)

LEMMA NextOp ==
    ASSUME NEW P, Typed(P), NEW r \in Rank, todo[r] # <<>>
    PROVE  Head(todo[r]) \in Op /\ tun[r] \in Tuner(P)
  BY HeadTailProperties DEF Typed

\* Whatever the operation is, the tuner, and whether it leads into
\* computeOptimalParameter(), depend on Ctl(tun[r]) and the operation.
LEMMA OperationStep ==
    ASSUME AutotunerAssumption, NEW P, Typed(P), NEW r \in Rank, Operates(r)
    PROVE  LET c == Ctl(tun[r])  op == Head(todo[r]) IN
           /\ pc[r] = "ready" /\ todo[r] # <<>>
           /\ \E t \in Tuner(P) :
                 /\ Done(r, t, Computes(c, op))
                 /\ Ctl(t) = Ran(c, op)
                 /\ ~Computes(c, op) => t.param = NextParam(c, tun[r].param, op)
                 /\ Started(tun[r]) => Started(t)
                 /\ Computes(c, op) => t.state # "STARTUP"
  <1>. DEFINE c == Ctl(tun[r])
              op == Head(todo[r])
  <1>1. pc[r] = "ready" /\ todo[r] # <<>>
    BY DEF Operates, Call, CallDisabled, Enable, Disable, SetPeriod, Turn
  <1>2. op \in Op /\ tun[r] \in Tuner(P)
    BY <1>1, NextOp
  <1>3. Element \subseteq P
    BY DEF Typed
  <1>4. /\ c.state = tun[r].state /\ c.sample = tun[r].sample /\ c.element = tun[r].element
        /\ c.calls = tun[r].calls /\ c.enabled = tun[r].enabled /\ c.period = tun[r].period
    BY DEF Ctl
  <1>. HIDE DEF c, op
  <1>5. CASE Call(r)
    <2>1. op[1] = "call" /\ tun[r].enabled
      BY <1>5 DEF Call, Turn, op
    <2>2. PICK time \in Times :
             LET t == After(Timed(tun[r], time))
             IN Done(r, t, Sampling(tun[r]) /\ t.state = "IDLE")
      BY <1>5 DEF Call
    <2>. DEFINE v == Timed(tun[r], time)
                t == After(v)
    <2>3. /\ v \in Tuner(P) /\ Ctl(v) = c /\ v.param = tun[r].param
          /\ Started(tun[r]) => Started(v)
          /\ Started(tun[r]) /\ Sampling(tun[r]) => v.samples[<<tun[r].element, tun[r].sample>>] # 0
      BY <1>2, TimedTuner DEF c
    <2>. HIDE DEF v
    <2>4. /\ v.state = tun[r].state /\ v.element = tun[r].element /\ v.sample = tun[r].sample
          /\ v.enabled = tun[r].enabled
      BY <1>4, <2>3 DEF Ctl
    <2>5. Sampling(v) <=> Sampling(tun[r])
      BY <2>4 DEF Sampling
    <2>6. /\ t \in Tuner(P) /\ Ctl(t) = Called(c)
          /\ Sampling(v) /\ t.state = "IDLE" <=> EndsScan(c)
          /\ v.enabled /\ ~EndsScan(c) => t.param = NextParam(c, v.param, <<"call">>)
      BY <1>3, <2>3, AfterTuner
    <2>7. ASSUME Started(tun[r]) PROVE Started(t)
      BY <1>3, <2>3, <2>4, <2>5, <2>7, AfterStarted
    <2>8. Done(r, t, Sampling(tun[r]) /\ t.state = "IDLE")
      BY <2>2 DEF v
    <2>. HIDE DEF t
    <2>9. Computes(c, op) <=> Sampling(tun[r]) /\ t.state = "IDLE"
      BY <1>4, <2>1, <2>5, <2>6 DEF Computes
    <2>10. Done(r, t, Computes(c, op))
      BY <2>8, <2>9 DEF Done
    <2>11. Ctl(t) = Ran(c, op)
      BY <1>4, <2>1, <2>6 DEF Ran
    <2>12. ~Computes(c, op) => t.param = NextParam(c, tun[r].param, op)
      <3>1. NextParam(c, tun[r].param, op) = NextParam(c, tun[r].param, <<"call">>)
        BY <2>1 DEF NextParam
      <3>. QED
        BY <1>4, <2>1, <2>3, <2>4, <2>6, <3>1 DEF Computes
    <2>. QED
      BY <1>1, <2>6, <2>7, <2>9, <2>10, <2>11, <2>12 DEF c, op
  <1>6. CASE CallDisabled(r)
    <2>1. op[1] = "call" /\ ~tun[r].enabled /\ Done(r, tun[r], FALSE)
      BY <1>6 DEF CallDisabled, Turn, op
    <2>2. ~Computes(c, op)
      BY <1>4, <2>1 DEF Computes
    <2>3. Done(r, tun[r], Computes(c, op))
      BY <2>1, <2>2 DEF Done
    <2>4. Ctl(tun[r]) = Ran(c, op)
      BY <1>4, <2>1 DEF Ran, c
    <2>5. tun[r].param = NextParam(c, tun[r].param, op)
      BY <1>4, <2>1 DEF NextParam
    <2>. QED
      BY <1>1, <1>2, <2>2, <2>3, <2>4, <2>5 DEF c, op
  <1>7. CASE Enable(r)
    <2>. DEFINE t == [tun[r] EXCEPT !.enabled = TRUE]
    <2>1. op[1] = "enable" /\ Done(r, t, FALSE)
      BY <1>7 DEF Enable, Turn, op
    <2>2. /\ t \in Tuner(P) /\ t.state = tun[r].state /\ t.sample = tun[r].sample
          /\ t.element = tun[r].element /\ t.calls = tun[r].calls /\ t.enabled = TRUE
          /\ t.period = tun[r].period /\ t.param = tun[r].param /\ t.samples = tun[r].samples
      BY <1>2 DEF Tuner
    <2>. HIDE DEF t
    <2>3. ~Computes(c, op)
      BY <2>1 DEF Computes
    <2>4. Done(r, t, Computes(c, op))
      BY <2>1, <2>3 DEF Done
    <2>5. Ctl(t) = Ran(c, op)
      BY <2>1, <2>2 DEF Ran, Ctl, Enabled, c
    <2>6. t.param = NextParam(c, tun[r].param, op)
      BY <2>1, <2>2 DEF NextParam
    <2>7. Started(tun[r]) => Started(t)
      BY <2>2 DEF Started
    <2>. QED
      BY <1>1, <2>2, <2>3, <2>4, <2>5, <2>6, <2>7 DEF c, op
  <1>8. CASE Disable(r)
    <2>1. op[1] = "disable"
      BY <1>8 DEF Disable, Turn, op
    <2>2. CASE tun[r].state = "STARTUP"
      <3>. DEFINE t == [tun[r] EXCEPT !.enabled = FALSE]
      <3>2. /\ t \in Tuner(P) /\ t.state = tun[r].state /\ t.sample = tun[r].sample
            /\ t.element = tun[r].element /\ t.calls = tun[r].calls /\ t.enabled = FALSE
            /\ t.period = tun[r].period /\ t.param = tun[r].param /\ t.samples = tun[r].samples
        BY <1>2 DEF Tuner
      <3>1. Done(r, t, FALSE)
        BY <1>8, <2>2, <3>2 DEF Disable, isComplete
      <3>. HIDE DEF t
      <3>3. ~Computes(c, op)
        BY <1>4, <2>1, <2>2 DEF Computes
      <3>4. Done(r, t, Computes(c, op))
        BY <3>1, <3>3 DEF Done
      <3>5. Ctl(t) = Ran(c, op)
        BY <2>1, <2>2, <3>2 DEF Ran, Ctl, Enabled, c
      <3>6. t.param = NextParam(c, tun[r].param, op)
        BY <2>1, <3>2 DEF NextParam
      <3>7. Started(tun[r]) => Started(t)
        BY <3>2 DEF Started
      <3>. QED
        BY <1>1, <3>2, <3>3, <3>4, <3>5, <3>6, <3>7 DEF c, op
    <2>3. CASE tun[r].state # "STARTUP"
      <3>. DEFINE b == [tun[r] EXCEPT !.enabled = FALSE]
                  t == [b EXCEPT !.element = 0, !.state = "IDLE"]
      <3>0. 0 \in Element
        BY SampleType
      <3>1. /\ b \in Tuner(P) /\ b.state = tun[r].state /\ b.sample = tun[r].sample
            /\ b.calls = tun[r].calls /\ b.enabled = FALSE
            /\ b.period = tun[r].period /\ b.param = tun[r].param /\ b.samples = tun[r].samples
        BY <1>2 DEF Tuner
      <3>2. Done(r, t, TRUE)
        BY <1>8, <2>3, <3>1 DEF Disable, isComplete
      <3>. HIDE DEF b
      <3>3. /\ t \in Tuner(P) /\ t.state = "IDLE" /\ t.sample = b.sample
            /\ t.element = 0 /\ t.calls = b.calls /\ t.enabled = b.enabled
            /\ t.period = b.period /\ t.samples = b.samples
        BY <3>0, <3>1 DEF Tuner
      <3>. HIDE DEF t
      <3>4. Computes(c, op)
        BY <1>4, <2>1, <2>3 DEF Computes
      <3>5. Done(r, t, Computes(c, op))
        BY <3>2, <3>4 DEF Done
      <3>6. Ctl(t) = Ran(c, op)
        BY <2>1, <2>3, <3>1, <3>3 DEF Ran, Ctl, Enabled, With, c
      <3>7. Started(tun[r]) => Started(t)
        BY <2>3, <3>1, <3>3 DEF Started
      <3>8. t.state # "STARTUP"
        BY <3>3
      <3>. QED
        BY <1>1, <3>3, <3>4, <3>5, <3>6, <3>7, <3>8 DEF c, op
    <2>. QED
      BY <2>2, <2>3
  <1>9. CASE SetPeriod(r)
    <2>. DEFINE t == [tun[r] EXCEPT !.period = op[2]]
    <2>1. op[1] = "period" /\ Done(r, t, FALSE)
      BY <1>9 DEF SetPeriod, Turn, op
    <2>0. op[2] \in Periods
      BY <1>2, <2>1, OpType
    <2>2. /\ t \in Tuner(P) /\ t.state = tun[r].state /\ t.sample = tun[r].sample
          /\ t.element = tun[r].element /\ t.calls = tun[r].calls /\ t.enabled = tun[r].enabled
          /\ t.period = op[2] /\ t.param = tun[r].param /\ t.samples = tun[r].samples
      BY <1>2, <2>0 DEF Tuner
    <2>. HIDE DEF t
    <2>3. ~Computes(c, op)
      BY <2>1 DEF Computes
    <2>4. Done(r, t, Computes(c, op))
      BY <2>1, <2>3 DEF Done
    <2>5. Ctl(t) = Ran(c, op)
      BY <2>1, <2>2 DEF Ran, Ctl, c
    <2>6. t.param = NextParam(c, tun[r].param, op)
      BY <2>1, <2>2 DEF NextParam
    <2>7. Started(tun[r]) => Started(t)
      BY <2>2 DEF Started
    <2>. QED
      BY <1>1, <2>2, <2>3, <2>4, <2>5, <2>6, <2>7 DEF c, op
  <1>. QED
    BY <1>5, <1>6, <1>7, <1>8, <1>9 DEF Operates

-----------------------------------------------------------------------------
(* Ranks that combine their samples.  L holds the m operations that were   *)
(* issued so far, of which rank r has executed k[r]; ctl[i] is what they   *)
(* make of a tuner, on whatever rank, and par[i] the parameter after i of  *)
(* them, as far as a rank has come.                                        *)

Past(r, k, i) == k[r] > i \/ (k[r] = i /\ pc[r] # "compute")

Lockstep(m, L, ctl, k, par) ==
    /\ m \in Nat /\ k \in [Rank -> 0..m]
    /\ \A i \in 1..m : ctl[i] = Ran(ctl[i - 1], L[i])
    /\ \A r \in Rank :
          /\ Len(todo[r]) = m - k[r]
          /\ \A i \in 1..(m - k[r]) : todo[r][i] = L[k[r] + i]
          /\ Ctl(tun[r]) = ctl[k[r]]
          /\ pc[r] # "ready" => k[r] > 0 /\ Computes(ctl[k[r] - 1], L[k[r]])
          /\ pc[r] = "ready" => tun[r].param = par[k[r]]
          /\ pc[r] = "result" => opt[r] = par[k[r]]
    /\ \A i \in 1..m : Computes(ctl[i - 1], L[i]) =>
          \A q, r \in Rank : Past(q, k, i) => Past(r, k, i)
    /\ \A i \in 1..m : ~Computes(ctl[i - 1], L[i]) /\ (\E r \in Rank : k[r] >= i) =>
          par[i] = NextParam(ctl[i - 1], par[i - 1], L[i])

InStep == \E m, L, ctl, k, par : Lockstep(m, L, ctl, k, par)

\* No rank has passed a computation that another one is still to reach.
LEMMA NobodyPast ==
    ASSUME NEW m, NEW L, NEW ctl, NEW k, NEW par, Lockstep(m, L, ctl, k, par),
           NEW r \in Rank, NEW i \in 1..m, Computes(ctl[i - 1], L[i]), ~Past(r, k, i),
           NEW q \in Rank
    PROVE  k[q] <= i /\ (k[q] = i => pc[q] = "compute")
  <1>1. ~Past(q, k, i)
    BY DEF Lockstep
  <1>2. k[q] \in Nat /\ i \in Nat
    BY DEF Lockstep
  <1>. QED
    BY <1>1, <1>2 DEF Past

LEMMA LockstepOperation ==
    ASSUME AutotunerAssumption, NEW P, Typed(P), NEW r \in Rank, Operates(r),
           NEW m, NEW L, NEW ctl, NEW k, NEW par, Lockstep(m, L, ctl, k, par)
    PROVE  InStep'
  <1>. DEFINE n == k[r] + 1
              j == [q \in Rank |-> IF q = r THEN n ELSE k[q]]
              op == Head(todo[r])
              c == Ctl(tun[r])
  <1>1. pc[r] = "ready" /\ todo[r] # <<>>
    BY OperationStep
  <1>2. PICK t \in Tuner(P) :
             /\ Done(r, t, Computes(c, op))
             /\ Ctl(t) = Ran(c, op)
             /\ ~Computes(c, op) => t.param = NextParam(c, tun[r].param, op)
    BY OperationStep
  <1>3. /\ Len(todo[r]) \in Nat /\ Len(todo[r]) > 0 /\ op = todo[r][1]
        /\ Len(Tail(todo[r])) = Len(todo[r]) - 1
        /\ \A i \in 1..(Len(todo[r]) - 1) : Tail(todo[r])[i] = todo[r][i + 1]
    <2>1. todo[r] \in Seq(Op)
      BY DEF Typed
    <2>2. Len(todo[r]) \in Nat /\ Len(todo[r]) > 0
      BY <1>1, <2>1, EmptySeq, LenProperties
    <2>. QED
      BY <1>1, <2>1, <2>2, HeadTailProperties
  <1>4. /\ m \in Nat /\ k \in [Rank -> 0..m] /\ Len(todo[r]) = m - k[r]
        /\ \A i \in 1..(m - k[r]) : todo[r][i] = L[k[r] + i]
        /\ c = ctl[k[r]] /\ tun[r].param = par[k[r]]
    BY <1>1 DEF Lockstep
  <1>5. /\ k[r] \in 0..m /\ n \in 1..m /\ n - 1 = k[r] /\ op = L[n]
        /\ j \in [Rank -> 0..m] /\ j[r] = n /\ \A q \in Rank : q # r => j[q] = k[q]
    <2>1. k[r] \in 0..m /\ n \in 1..m /\ n - 1 = k[r]
      BY <1>3, <1>4
    <2>2. 1 \in 1..(m - k[r])
      BY <1>4, <2>1
    <2>3. op = L[n]
      BY <1>3, <1>4, <2>2
    <2>4. n \in 0..m
      BY <2>1
    <2>. HIDE DEF n
    <2>5. j \in [Rank -> 0..m] /\ j[r] = n /\ \A q \in Rank : q # r => j[q] = k[q]
      BY <1>4, <2>4
    <2>. QED
      BY <2>1, <2>3, <2>5
  <1>6. /\ tun' = [tun EXCEPT ![r] = t] /\ todo' = [todo EXCEPT ![r] = Tail(todo[r])]
        /\ pc' = [pc EXCEPT ![r] = IF Computes(c, op) THEN "compute" ELSE "ready"]
        /\ opt' = opt
    BY <1>2 DEF Done
  <1>7. /\ tun'[r] = t /\ todo'[r] = Tail(todo[r])
        /\ pc'[r] = IF Computes(c, op) THEN "compute" ELSE "ready"
        /\ \A q \in Rank : q # r => tun'[q] = tun[q] /\ todo'[q] = todo[q] /\ pc'[q] = pc[q]
    BY <1>6 DEF Typed
  <1>. DEFINE C(i) == Computes(ctl[i - 1], L[i])
  <1>8. C(n) <=> Computes(c, op)
    BY <1>4, <1>5
  <1>9. ctl[n] = Ran(c, op)
    BY <1>4, <1>5 DEF Lockstep
  <1>10. \A i \in 1..m, q \in Rank : C(i) => (Past(q, j, i)' <=> Past(q, k, i))
    <2>. SUFFICES ASSUME NEW i \in 1..m, NEW q \in Rank, C(i)
                  PROVE  Past(q, j, i)' <=> Past(q, k, i)
      OBVIOUS
    <2>1. CASE q # r
      BY <1>5, <1>7, <2>1 DEF Past
    <2>2. CASE q = r
      <3>1. Past(r, k, i) <=> k[r] >= i
        BY <1>1, <1>5 DEF Past
      <3>2. Past(r, j, i)' <=> n > i \/ (n = i /\ pc'[r] # "compute")
        BY <1>5 DEF Past
      <3>3. n = i => pc'[r] = "compute"
        BY <1>7, <1>8
      <3>4. n > i <=> k[r] >= i
        BY <1>5
      <3>. QED
        BY <2>2, <3>1, <3>2, <3>3, <3>4
    <2>. QED
      BY <2>1, <2>2
  <1>. DEFINE ahead == \E q \in Rank : k[q] >= n
              v == IF ahead THEN par[n] ELSE t.param
              e == [i \in 0..m |-> IF i = n THEN v ELSE par[i]]
  <1>11. \A i \in 0..m : e[i] = IF i = n THEN v ELSE par[i]
    OBVIOUS
  <1>. HIDE DEF e, C, j, n, c, op
  <1>12. ~C(n) => t.param = v
    <2>1. CASE ahead /\ ~C(n)
      <3>1. par[n] = NextParam(ctl[n - 1], par[n - 1], L[n])
        BY <1>5, <2>1 DEF Lockstep, C
      <3>. QED
        BY <1>2, <1>4, <1>5, <1>8, <2>1, <3>1
    <2>2. CASE ~ahead
      BY <2>2
    <2>. QED
      BY <2>1, <2>2
  <1>13. \A q \in Rank : k[q] # n \/ ahead
    BY <1>4, <1>5
  <1>14. \A q \in Rank : q # r => e[k[q]] = par[k[q]]
    BY <1>4, <1>11, <1>13
  <1>. HIDE DEF v, ahead
  <1>15. ASSUME NEW q \in Rank
         PROVE  /\ Len(todo'[q]) = m - j[q]
                /\ \A i \in 1..(m - j[q]) : todo'[q][i] = L[j[q] + i]
                /\ Ctl(tun'[q]) = ctl[j[q]]
                /\ pc'[q] # "ready" => j[q] > 0 /\ Computes(ctl[j[q] - 1], L[j[q]])
                /\ pc'[q] = "ready" => tun'[q].param = e[j[q]]
                /\ pc'[q] = "result" => opt'[q] = e[j[q]]
    <2>1. CASE q # r
      <3>1. /\ Len(todo[q]) = m - k[q]
            /\ \A i \in 1..(m - k[q]) : todo[q][i] = L[k[q] + i]
            /\ Ctl(tun[q]) = ctl[k[q]]
            /\ pc[q] # "ready" => k[q] > 0 /\ Computes(ctl[k[q] - 1], L[k[q]])
            /\ pc[q] = "ready" => tun[q].param = par[k[q]]
            /\ pc[q] = "result" => opt[q] = par[k[q]]
        BY DEF Lockstep
      <3>2. /\ j[q] = k[q] /\ tun'[q] = tun[q] /\ todo'[q] = todo[q] /\ pc'[q] = pc[q]
            /\ opt' = opt /\ e[k[q]] = par[k[q]]
        BY <1>5, <1>6, <1>7, <1>14, <2>1
      <3>3. Len(todo'[q]) = m - j[q] /\ \A i \in 1..(m - j[q]) : todo'[q][i] = L[j[q] + i]
        BY <3>1, <3>2
      <3>4. Ctl(tun'[q]) = ctl[j[q]]
        BY <3>1, <3>2
      <3>5. pc'[q] # "ready" => j[q] > 0 /\ Computes(ctl[j[q] - 1], L[j[q]])
        BY <3>1, <3>2
      <3>6. pc'[q] = "ready" => tun'[q].param = e[j[q]]
        BY <3>1, <3>2
      <3>7. pc'[q] = "result" => opt'[q] = e[j[q]]
        BY <3>1, <3>2
      <3>. QED
        BY <3>3, <3>4, <3>5, <3>6, <3>7
    <2>2. CASE q = r
      <3>1. Len(todo'[r]) = m - n
        <4>1. Len(todo'[r]) = (m - k[r]) - 1
          BY <1>3, <1>4, <1>7
        <4>2. m \in Int /\ k[r] \in Int /\ n \in Int /\ n - 1 = k[r]
          BY <1>4, <1>5
        <4>. QED
          BY <4>1, <4>2
      <3>2. \A i \in 1..(m - n) : todo'[r][i] = L[n + i]
        <4>. SUFFICES ASSUME NEW i \in 1..(m - n) PROVE todo'[r][i] = L[n + i]
          OBVIOUS
        <4>1. /\ i \in 1..(Len(todo[r]) - 1) /\ i + 1 \in 1..(m - k[r])
              /\ k[r] + (i + 1) = n + i
          <5>1. n \in Int /\ k[r] \in Int /\ m \in Int /\ k[r] = n - 1 /\ Len(todo[r]) = m - k[r]
            BY <1>4, <1>5
          <5>2. i \in Int /\ 1 <= i /\ i <= m - n
            BY <5>1
          <5>. QED
            BY ONLY <5>1, <5>2
        <4>2. todo'[r][i] = todo[r][i + 1]
          BY <1>3, <1>7, <4>1
        <4>3. todo[r][i + 1] = L[k[r] + (i + 1)]
          BY <1>4, <4>1
        <4>. QED
          BY <4>1, <4>2, <4>3
      <3>3. Ctl(tun'[r]) = ctl[n]
        BY <1>2, <1>7, <1>9 DEF c, op
      <3>4. pc'[r] # "ready" => n > 0 /\ Computes(ctl[n - 1], L[n])
        BY <1>5, <1>7, <1>8 DEF C
      <3>5. pc'[r] = "ready" => tun'[r].param = e[n]
        BY <1>5, <1>7, <1>8, <1>11, <1>12
      <3>6. pc'[r] # "result"
        BY <1>7
      <3>. QED
        BY <1>5, <2>2, <3>1, <3>2, <3>3, <3>4, <3>5, <3>6
    <2>. QED
      BY <2>1, <2>2
  <1>16. \A i \in 1..m : Computes(ctl[i - 1], L[i]) =>
            \A q, s \in Rank : Past(q, j, i)' => Past(s, j, i)'
    <2>1. \A i \in 1..m : C(i) => \A q, s \in Rank : Past(q, k, i) => Past(s, k, i)
      BY DEF Lockstep, C
    <2>. QED
      BY <1>10, <2>1 DEF C
  <1>17. ASSUME NEW i \in 1..m, ~C(i), NEW q \in Rank, j[q] >= i
         PROVE  e[i] = NextParam(ctl[i - 1], e[i - 1], L[i])
    <2>1. i - 1 \in 0..m /\ i \in 0..m
      BY <1>4
    <2>2. CASE i = n
      <3>1. t.param = NextParam(ctl[n - 1], par[n - 1], L[n])
        BY <1>2, <1>4, <1>5, <1>8, <1>17, <2>2
      <3>2. e[n] = t.param
        BY <1>11, <1>12, <1>17, <2>1, <2>2
      <3>3. e[n - 1] = par[n - 1]
        BY <1>5, <1>11, <2>1, <2>2
      <3>. QED
        BY <2>2, <3>1, <3>2, <3>3
    <2>3. CASE i # n
      <3>1. \E s \in Rank : k[s] >= i
        <4>1. CASE q # r
          BY <1>5, <1>17, <4>1
        <4>2. CASE q = r
          BY <1>5, <1>17, <2>1, <2>3, <4>2
        <4>. QED
          BY <4>1, <4>2
      <3>2. par[i] = NextParam(ctl[i - 1], par[i - 1], L[i])
        BY <1>17, <3>1 DEF Lockstep, C
      <3>3. e[i] = par[i]
        BY <1>11, <2>1, <2>3
      <3>4. e[i - 1] = par[i - 1]
        <4>1. i - 1 = n => ahead
          BY <1>4, <1>5, <2>1, <3>1 DEF ahead
        <4>. QED
          BY <1>11, <2>1, <4>1 DEF v
      <3>. QED
        BY <3>2, <3>3, <3>4
    <2>. QED
      BY <2>2, <2>3
  <1>18. Lockstep(m, L, ctl, j, e)'
    BY <1>4, <1>5, <1>15, <1>16, <1>17 DEF Lockstep, C
  <1>. QED
    BY <1>18 DEF InStep

LEMMA LockstepIssue ==
    ASSUME NEW P, Typed(P), NEW op \in Op, Issue(op),
           NEW m, NEW L, NEW ctl, NEW k, NEW par, Lockstep(m, L, ctl, k, par)
    PROVE  InStep'
  <1>. DEFINE n == m + 1
              M == [i \in 1..n |-> IF i = n THEN op ELSE L[i]]
              d == [i \in 0..n |-> IF i = n THEN Ran(ctl[m], op) ELSE ctl[i]]
  <1>1. m \in Nat /\ k \in [Rank -> 0..m]
    BY DEF Lockstep
  <1>2. /\ n \in Nat /\ n \in 1..n /\ k \in [Rank -> 0..n] /\ n - 1 = m
        /\ \A r \in Rank : k[r] \in 0..m /\ k[r] \in 0..n /\ k[r] # n /\ ~(k[r] > n)
        /\ \A i \in 1..m : i \in 1..n /\ i # n /\ i - 1 # n /\ i \in 0..n /\ i - 1 \in 0..n
        /\ \A i \in 1..n : i = n \/ i \in 1..m
        /\ n \in 0..n /\ m \in 0..n /\ m # n
    BY <1>1
  <1>3. M[n] = op /\ \A i \in 1..m : M[i] = L[i]
    BY <1>2
  <1>4. /\ d[n] = Ran(ctl[m], op) /\ \A i \in 1..m : d[i] = ctl[i] /\ d[i - 1] = ctl[i - 1]
        /\ \A i \in 0..m : d[i] = ctl[i]
    <2>1. \A i \in 0..m : i \in 0..n /\ i # n
      BY <1>1
    <2>. QED
      BY <1>2, <2>1
  <1>5. d[m] = ctl[m]
    BY <1>2
  <1>. HIDE DEF M, d, n
  <1>6. \A i \in 1..n : d[i] = Ran(d[i - 1], M[i])
    <2>. SUFFICES ASSUME NEW i \in 1..n PROVE d[i] = Ran(d[i - 1], M[i])
      OBVIOUS
    <2>1. CASE i = n
      BY <1>2, <1>3, <1>4, <1>5, <2>1
    <2>2. CASE i \in 1..m
      <3>1. ctl[i] = Ran(ctl[i - 1], L[i])
        BY <2>2 DEF Lockstep
      <3>. QED
        BY <1>3, <1>4, <2>2, <3>1
    <2>. QED
      BY <1>2, <2>1, <2>2
  <1>7. /\ tun' = tun /\ pc' = pc /\ opt' = opt
        /\ todo' = [r \in Rank |-> Append(todo[r], op)]
    BY DEF Issue
  <1>8. ASSUME NEW r \in Rank
        PROVE  /\ Len(todo'[r]) = n - k[r]
               /\ \A i \in 1..(n - k[r]) : todo'[r][i] = M[k[r] + i]
    <2>1. todo[r] \in Seq(Op) /\ todo'[r] = Append(todo[r], op)
      BY <1>7 DEF Typed
    <2>2. /\ Len(todo[r]) = m - k[r]
          /\ \A i \in 1..(m - k[r]) : todo[r][i] = L[k[r] + i]
      BY DEF Lockstep
    <2>3. /\ Len(todo'[r]) = Len(todo[r]) + 1
          /\ \A i \in 1..Len(todo[r]) : todo'[r][i] = todo[r][i]
          /\ todo'[r][Len(todo[r]) + 1] = op
      BY <2>1, AppendProperties
    <2>4. m \in Int /\ k[r] \in Int /\ n = m + 1 /\ k[r] >= 0 /\ k[r] <= m
      BY <1>1, <1>2
    <2>5. Len(todo'[r]) = n - k[r]
      BY <2>2, <2>3, <2>4
    <2>6. ASSUME NEW i \in 1..(n - k[r]) PROVE todo'[r][i] = M[k[r] + i]
      <3>1. CASE i = n - k[r]
        <4>1. k[r] + i = n /\ i = Len(todo[r]) + 1
          BY <2>2, <2>4, <3>1
        <4>. QED
          BY <1>3, <2>3, <4>1
      <3>2. CASE i # n - k[r]
        <4>1. i \in 1..(m - k[r]) /\ k[r] + i \in 1..m
          BY <2>4, <3>2
        <4>. QED
          BY <1>3, <2>2, <2>3, <4>1
      <3>. QED
        BY <3>1, <3>2
    <2>. QED
      BY <2>5, <2>6
  <1>9. ASSUME NEW r \in Rank
        PROVE  /\ Ctl(tun'[r]) = d[k[r]]
               /\ pc'[r] # "ready" => k[r] > 0 /\ Computes(d[k[r] - 1], M[k[r]])
               /\ pc'[r] = "ready" => tun'[r].param = par[k[r]]
               /\ pc'[r] = "result" => opt'[r] = par[k[r]]
    <2>1. /\ Ctl(tun[r]) = ctl[k[r]]
          /\ pc[r] # "ready" => k[r] > 0 /\ Computes(ctl[k[r] - 1], L[k[r]])
          /\ pc[r] = "ready" => tun[r].param = par[k[r]]
          /\ pc[r] = "result" => opt[r] = par[k[r]]
      BY DEF Lockstep
    <2>2. k[r] \in 0..m /\ (k[r] > 0 => k[r] \in 1..m)
      BY <1>1
    <2>3. Ctl(tun'[r]) = d[k[r]]
      BY <1>4, <1>7, <2>1, <2>2
    <2>4. pc'[r] # "ready" => k[r] > 0 /\ Computes(d[k[r] - 1], M[k[r]])
      BY <1>3, <1>4, <1>7, <2>1, <2>2
    <2>. QED
      BY <1>7, <2>1, <2>3, <2>4
  <1>10. ASSUME NEW i \in 1..n, Computes(d[i - 1], M[i]), NEW q \in Rank, NEW r \in Rank,
                Past(q, k, i)'
         PROVE  Past(r, k, i)'
    <2>1. Past(q, k, i)
      BY <1>7, <1>10 DEF Past
    <2>2. i # n
      BY <1>2, <2>1 DEF Past
    <2>3. i \in 1..m
      BY <1>2, <2>2
    <2>4. Computes(ctl[i - 1], L[i])
      BY <1>3, <1>4, <1>10, <2>3
    <2>5. Past(r, k, i)
      BY <2>1, <2>3, <2>4 DEF Lockstep
    <2>. QED
      BY <1>7, <2>5 DEF Past
  <1>11. ASSUME NEW i \in 1..n, ~Computes(d[i - 1], M[i]), NEW r \in Rank, k[r] >= i
         PROVE  par[i] = NextParam(d[i - 1], par[i - 1], M[i])
    <2>1. i # n
      BY <1>2, <1>11
    <2>2. i \in 1..m
      BY <1>2, <2>1
    <2>3. ~Computes(ctl[i - 1], L[i])
      BY <1>3, <1>4, <1>11, <2>2
    <2>4. par[i] = NextParam(ctl[i - 1], par[i - 1], L[i])
      BY <1>11, <2>2, <2>3 DEF Lockstep
    <2>. QED
      BY <1>3, <1>4, <2>2, <2>4
  <1>12. Lockstep(n, M, d, k, par)'
    BY <1>2, <1>6, <1>8, <1>9, <1>10, <1>11 DEF Lockstep
  <1>. QED
    BY <1>12 DEF InStep

LEMMA LockstepDecide ==
    ASSUME Sync, NEW P, Typed(P), NEW r \in Rank, Decide(r),
           NEW m, NEW L, NEW ctl, NEW k, NEW par, Lockstep(m, L, ctl, k, par)
    PROVE  InStep'
  <1>0. PICK v : v = Optimal(r)
    OBVIOUS
  <1>. DEFINE n == k[r]
              e == [i \in 0..m |-> IF i = n THEN v ELSE par[i]]
  <1>1. /\ \A q \in Rank : pc[q] = "compute"
        /\ opt' = [q \in Rank |-> v] /\ pc' = [q \in Rank |-> "result"]
        /\ tun' = tun /\ todo' = todo
    BY <1>0 DEF Decide, Peers
  <1>2. m \in Nat /\ k \in [Rank -> 0..m]
    BY DEF Lockstep
  <1>3. \A q \in Rank : k[q] \in 1..m /\ Computes(ctl[k[q] - 1], L[k[q]]) /\ ~Past(q, k, k[q])
    <2>. SUFFICES ASSUME NEW q \in Rank
                  PROVE  k[q] \in 1..m /\ Computes(ctl[k[q] - 1], L[k[q]]) /\ ~Past(q, k, k[q])
      OBVIOUS
    <2>1. k[q] \in 0..m /\ k[q] > 0 /\ Computes(ctl[k[q] - 1], L[k[q]])
      BY <1>1, <1>2 DEF Lockstep
    <2>. QED
      BY <1>1, <1>2, <2>1 DEF Past
  <1>4. \A q \in Rank : k[q] = n
    <2>. SUFFICES ASSUME NEW q \in Rank PROVE k[q] = n
      OBVIOUS
    <2>1. k[q] <= k[r]
      BY <1>3, NobodyPast
    <2>2. k[r] <= k[q]
      BY <1>3, NobodyPast
    <2>. QED
      BY <1>2, <2>1, <2>2
  <1>5. n \in 1..m /\ n \in 0..m /\ Computes(ctl[n - 1], L[n])
    BY <1>3
  <1>6. \A i \in 0..m : e[i] = IF i = n THEN v ELSE par[i]
    OBVIOUS
  <1>. HIDE DEF n, e
  <1>7. ASSUME NEW q \in Rank
        PROVE  /\ Len(todo'[q]) = m - k[q]
               /\ \A i \in 1..(m - k[q]) : todo'[q][i] = L[k[q] + i]
               /\ Ctl(tun'[q]) = ctl[k[q]]
               /\ pc'[q] # "ready" => k[q] > 0 /\ Computes(ctl[k[q] - 1], L[k[q]])
               /\ pc'[q] = "ready" => tun'[q].param = e[k[q]]
               /\ pc'[q] = "result" => opt'[q] = e[k[q]]
    <2>1. Len(todo'[q]) = m - k[q] /\ \A i \in 1..(m - k[q]) : todo'[q][i] = L[k[q] + i]
      BY <1>1 DEF Lockstep
    <2>2. Ctl(tun'[q]) = ctl[k[q]]
      BY <1>1 DEF Lockstep
    <2>3. k[q] > 0 /\ Computes(ctl[k[q] - 1], L[k[q]])
      BY <1>3
    <2>4. pc'[q] = "result" /\ opt'[q] = v
      BY <1>1
    <2>5. e[k[q]] = v
      BY <1>4, <1>5, <1>6
    <2>. QED
      BY <2>1, <2>2, <2>3, <2>4, <2>5
  <1>8. ASSUME NEW i \in 1..m, NEW q \in Rank, NEW s \in Rank, Past(q, k, i)'
        PROVE  Past(s, k, i)'
    <2>1. n > i \/ n = i
      BY <1>4, <1>8 DEF Past
    <2>2. pc'[s] # "compute" /\ k[s] = n
      BY <1>1, <1>4
    <2>. QED
      BY <2>1, <2>2 DEF Past
  <1>9. ASSUME NEW i \in 1..m, ~Computes(ctl[i - 1], L[i]), NEW q \in Rank, k[q] >= i
        PROVE  e[i] = NextParam(ctl[i - 1], e[i - 1], L[i])
    <2>1. i # n /\ k[q] = n
      BY <1>4, <1>5, <1>9
    <2>2. i - 1 # n /\ i \in 0..m /\ i - 1 \in 0..m
      BY <1>2, <1>5, <1>9, <2>1
    <2>3. par[i] = NextParam(ctl[i - 1], par[i - 1], L[i])
      BY <1>9 DEF Lockstep
    <2>. QED
      BY <1>6, <2>1, <2>2, <2>3
  <1>10. Lockstep(m, L, ctl, k, e)'
    <2>1. \A i \in 1..m : ctl[i] = Ran(ctl[i - 1], L[i])
      BY DEF Lockstep
    <2>2. \A i \in 1..m : Computes(ctl[i - 1], L[i]) =>
             \A q, s \in Rank : Past(q, k, i)' => Past(s, k, i)'
      BY <1>8
    <2>3. \A i \in 1..m : ~Computes(ctl[i - 1], L[i]) /\ (\E q \in Rank : k[q] >= i) =>
             e[i] = NextParam(ctl[i - 1], e[i - 1], L[i])
      BY <1>9
    <2>4. \A q \in Rank :
             /\ Len(todo'[q]) = m - k[q]
             /\ \A i \in 1..(m - k[q]) : todo'[q][i] = L[k[q] + i]
             /\ Ctl(tun'[q]) = ctl[k[q]]
             /\ pc'[q] # "ready" => k[q] > 0 /\ Computes(ctl[k[q] - 1], L[k[q]])
             /\ pc'[q] = "ready" => tun'[q].param = e[k[q]]
             /\ pc'[q] = "result" => opt'[q] = e[k[q]]
      BY <1>7
    <2>. QED
      BY ONLY <1>2, <2>1, <2>2, <2>3, <2>4 DEF Lockstep
  <1>. QED
    BY <1>10 DEF InStep

LEMMA LockstepTake ==
    ASSUME NEW P, Typed(P), NEW r \in Rank, Take(r),
           NEW m, NEW L, NEW ctl, NEW k, NEW par, Lockstep(m, L, ctl, k, par)
    PROVE  InStep'
  <1>1. /\ pc[r] = "result" /\ tun' = [tun EXCEPT ![r].param = opt[r]]
        /\ pc' = [pc EXCEPT ![r] = "ready"] /\ todo' = todo /\ opt' = opt
    BY DEF Take
  <1>2. /\ pc'[r] = "ready" /\ tun'[r].param = opt[r] /\ Ctl(tun'[r]) = Ctl(tun[r])
        /\ \A q \in Rank : q # r => pc'[q] = pc[q] /\ tun'[q] = tun[q]
    <2>1. tun[r] \in Tuner(P) /\ tun \in [Rank -> Tuner(P)] /\ pc'[r] = "ready"
      BY <1>1 DEF Typed
    <2>2. tun'[r] = [tun[r] EXCEPT !.param = opt[r]]
      BY <1>1, <2>1
    <2>3. /\ tun'[r].param = opt[r] /\ tun'[r].state = tun[r].state
          /\ tun'[r].sample = tun[r].sample /\ tun'[r].element = tun[r].element
          /\ tun'[r].calls = tun[r].calls /\ tun'[r].enabled = tun[r].enabled
          /\ tun'[r].period = tun[r].period
      BY <2>1, <2>2 DEF Tuner
    <2>4. Ctl(tun'[r]) = Ctl(tun[r])
      BY <2>3 DEF Ctl
    <2>5. \A q \in Rank : q # r => pc'[q] = pc[q] /\ tun'[q] = tun[q]
      BY <1>1 DEF Typed
    <2>. QED
      BY <2>1, <2>3, <2>4, <2>5
  <1>3. \A q \in Rank : pc'[q] = "compute" <=> pc[q] = "compute"
    BY <1>1, <1>2
  <1>4. ASSUME NEW q \in Rank
        PROVE  /\ Len(todo'[q]) = m - k[q]
               /\ \A i \in 1..(m - k[q]) : todo'[q][i] = L[k[q] + i]
               /\ Ctl(tun'[q]) = ctl[k[q]]
               /\ pc'[q] # "ready" => k[q] > 0 /\ Computes(ctl[k[q] - 1], L[k[q]])
               /\ pc'[q] = "ready" => tun'[q].param = par[k[q]]
               /\ pc'[q] = "result" => opt'[q] = par[k[q]]
    <2>1. Len(todo'[q]) = m - k[q] /\ \A i \in 1..(m - k[q]) : todo'[q][i] = L[k[q] + i]
      BY <1>1 DEF Lockstep
    <2>2. Ctl(tun'[q]) = ctl[k[q]]
      BY <1>2 DEF Lockstep
    <2>3. CASE q = r
      BY <1>1, <1>2, <2>1, <2>2, <2>3 DEF Lockstep
    <2>4. CASE q # r
      BY <1>1, <1>2, <2>1, <2>2, <2>4 DEF Lockstep
    <2>. QED
      BY <2>3, <2>4
  <1>5. ASSUME NEW i, NEW q \in Rank PROVE Past(q, k, i)' <=> Past(q, k, i)
    BY <1>3 DEF Past
  <1>6. Lockstep(m, L, ctl, k, par)'
    BY <1>4, <1>5 DEF Lockstep
  <1>. QED
    BY <1>6 DEF InStep

-----------------------------------------------------------------------------
(* The invariant.                                                          *)

\* A rank that looks for the optimum has all of its samples.
Sampled ==
    \A r \in Rank : Started(tun[r]) /\ (pc[r] = "compute" => tun[r].state # "STARTUP")

IInv ==
    /\ \E P : Typed(P)
    /\ Sampled
    /\ Sync => InStep

LEMMA InitInv == AutotunerAssumption /\ Init => IInv
  <1>. SUFFICES ASSUME AutotunerAssumption, Init PROVE IInv
    OBVIOUS
  <1>1. 0 \in Sample /\ 0 \in Element
    BY SampleType
  <1>2. PICK p \in Periods :
          tun = [r \in Rank |->
            [state |-> "STARTUP", sample |-> 0, element |-> 0, calls |-> 0, param |-> 0,
             enabled |-> TRUE, period |-> p, samples |-> [x \in Element \X Sample |-> 0]]]
    BY DEF Init
  <1>3. /\ todo = [r \in Rank |-> <<>>] /\ pc = [r \in Rank |-> "ready"]
        /\ opt = [r \in Rank |-> 0]
    BY DEF Init
  <1>4. Typed(Element)
    <2>. DEFINE f == [x \in Element \X Sample |-> 0]
                t == [state |-> "STARTUP", sample |-> 0, element |-> 0, calls |-> 0,
                      param |-> 0, enabled |-> TRUE, period |-> p, samples |-> f]
    <2>1. f \in [Element \X Sample -> Times \cup {0}]
      OBVIOUS
    <2>. HIDE DEF f
    <2>2. t \in Tuner(Element)
      BY <1>1, <2>1 DEF Tuner
    <2>3. tun = [r \in Rank |-> t]
      BY <1>2 DEF f
    <2>. HIDE DEF t
    <2>4. tun \in [Rank -> Tuner(Element)]
      BY <2>2, <2>3
    <2>5. opt \in [Rank -> Element] /\ pc \in [Rank -> {"ready", "compute", "result"}]
      BY <1>1, <1>3
    <2>6. todo \in [Rank -> Seq(Op)]
      BY <1>3
    <2>. QED
      BY <2>4, <2>5, <2>6 DEF Typed
  <1>5. Sampled
    <2>. SUFFICES ASSUME NEW r \in Rank
                  PROVE  Started(tun[r]) /\ (pc[r] = "compute" => tun[r].state # "STARTUP")
      BY DEF Sampled
    <2>1. tun[r].state = "STARTUP" /\ tun[r].element = 0 /\ tun[r].sample = 0 /\ pc[r] = "ready"
      BY <1>2, <1>3
    <2>2. \A e \in Element, s \in Sample : ~(e < 0) /\ ~(s < 0)
      BY SampleType
    <2>. QED
      BY <2>1, <2>2 DEF Started
  <1>6. InStep
    <2>. DEFINE t == [state |-> "STARTUP", sample |-> 0, element |-> 0, calls |-> 0,
                      enabled |-> TRUE, period |-> p]
                k == [r \in Rank |-> 0]
    <2>1. \A r \in Rank : Ctl(tun[r]) = t
      BY <1>2 DEF Ctl
    <2>2. \A r \in Rank : tun[r].param = 0
      BY <1>2
    <2>3. \A r \in Rank : pc[r] = "ready" /\ todo[r] = <<>> /\ Len(todo[r]) = 0
      BY <1>3
    <2>. HIDE DEF t
    <2>4. \A r \in Rank : k[r] = 0
      OBVIOUS
    <2>5. k \in [Rank -> 0..0]
      OBVIOUS
    <2>. HIDE DEF k
    <2>6. \A r \in Rank :
            /\ Len(todo[r]) = 0 - k[r]
            /\ \A i \in 1..(0 - k[r]) : todo[r][i] = t[k[r] + i]
      BY <2>3, <2>4
    <2>7. Lockstep(0, t, [i \in 0..0 |-> t], k, [i \in 0..0 |-> 0])
      <3>1. 0 \in Nat /\ \A i \in 1..0 : FALSE
        OBVIOUS
      <3>2. [i \in 0..0 |-> t][0] = t /\ [i \in 0..0 |-> 0][0] = 0
        OBVIOUS
      <3>. QED
        BY <2>1, <2>2, <2>3, <2>4, <2>5, <2>6, <3>1, <3>2 DEF Lockstep
    <2>. QED
      BY <2>7 DEF InStep
  <1>. QED
    BY <1>4, <1>5, <1>6 DEF IInv

LEMMA TypedStep ==
    ASSUME AutotunerAssumption, NEW P, Typed(P), Sampled, [Next]_vars
    PROVE  (\E Q : Typed(Q))' /\ Sampled'
  <1>1. ASSUME NEW op \in Op, Issue(op) PROVE (\E Q : Typed(Q))' /\ Sampled'
    <2>1. tun' = tun /\ pc' = pc /\ opt' = opt /\ todo' \in [Rank -> Seq(Op)]
      BY <1>1 DEF Issue, Typed
    <2>2. Typed(P)'
      BY <2>1 DEF Typed
    <2>. QED
      BY <2>1, <2>2 DEF Sampled
  <1>2. ASSUME NEW r \in Rank, Operates(r) PROVE (\E Q : Typed(Q))' /\ Sampled'
    <2>. DEFINE c == Ctl(tun[r])
                op == Head(todo[r])
    <2>1. todo[r] # <<>>
      BY <1>2, OperationStep
    <2>2. PICK t \in Tuner(P) :
             /\ Done(r, t, Computes(c, op))
             /\ Started(tun[r]) => Started(t)
             /\ Computes(c, op) => t.state # "STARTUP"
      BY <1>2, OperationStep
    <2>. HIDE DEF c, op
    <2>3. /\ tun' = [tun EXCEPT ![r] = t] /\ todo' = [todo EXCEPT ![r] = Tail(todo[r])]
          /\ pc' = [pc EXCEPT ![r] = IF Computes(c, op) THEN "compute" ELSE "ready"]
          /\ opt' = opt
      BY <2>2 DEF Done
    <2>4. Tail(todo[r]) \in Seq(Op)
      BY <2>1, HeadTailProperties DEF Typed
    <2>5. /\ tun' \in [Rank -> Tuner(P)] /\ todo' \in [Rank -> Seq(Op)]
          /\ pc' \in [Rank -> {"ready", "compute", "result"}]
      BY <2>3, <2>4 DEF Typed
    <2>6. Typed(P)'
      BY <2>3, <2>5 DEF Typed
    <2>7. /\ tun'[r] = t /\ (pc'[r] = "compute" => Computes(c, op))
          /\ \A q \in Rank : q # r => tun'[q] = tun[q] /\ pc'[q] = pc[q]
      BY <2>3 DEF Typed
    <2>8. Sampled'
      BY <2>2, <2>7 DEF Sampled
    <2>. QED
      BY <2>6, <2>8
  <1>3. ASSUME NEW r \in Rank, Decide(r) PROVE (\E Q : Typed(Q))' /\ Sampled'
    <2>1. PICK v : v = Optimal(r)
      OBVIOUS
    <2>2. /\ opt' = [q \in Rank |-> IF q \in Peers(r) THEN v ELSE opt[q]]
          /\ pc' = [q \in Rank |-> IF q \in Peers(r) THEN "result" ELSE pc[q]]
          /\ tun' = tun /\ todo' = todo
      BY <1>3, <2>1 DEF Decide
    <2>. DEFINE Q == P \cup {v}
    <2>3. P \subseteq Q /\ v \in Q
      OBVIOUS
    <2>. HIDE DEF Q
    <2>4. Tuner(P) \subseteq Tuner(Q)
      BY <2>3 DEF Tuner
    <2>5. opt' \in [Rank -> Q] /\ pc' \in [Rank -> {"ready", "compute", "result"}]
      BY <2>2, <2>3 DEF Typed
    <2>6. tun \in [Rank -> Tuner(Q)]
      BY <2>4 DEF Typed
    <2>7. Typed(Q)'
      BY <2>2, <2>3, <2>5, <2>6 DEF Typed
    <2>8. \A q \in Rank : pc'[q] = "compute" => pc[q] = "compute"
      BY <2>2
    <2>9. Sampled'
      BY <2>2, <2>8 DEF Sampled
    <2>. QED
      BY <2>7, <2>9
  <1>4. ASSUME NEW r \in Rank, Take(r) PROVE (\E Q : Typed(Q))' /\ Sampled'
    <2>1. /\ tun' = [tun EXCEPT ![r].param = opt[r]]
          /\ pc' = [pc EXCEPT ![r] = "ready"] /\ todo' = todo /\ opt' = opt
      BY <1>4 DEF Take
    <2>2. tun[r] \in Tuner(P) /\ tun \in [Rank -> Tuner(P)] /\ opt[r] \in P
      BY DEF Typed
    <2>3. PICK t : t = [tun[r] EXCEPT !.param = opt[r]]
      OBVIOUS
    <2>4. /\ t \in Tuner(P) /\ t.samples = tun[r].samples /\ t.state = tun[r].state
          /\ t.element = tun[r].element /\ t.sample = tun[r].sample
      BY <2>2, <2>3 DEF Tuner
    <2>5. tun' = [tun EXCEPT ![r] = t]
      BY <2>1, <2>2, <2>3
    <2>6. Typed(P)'
      BY <2>1, <2>4, <2>5 DEF Typed
    <2>7. Started(tun[r]) => Started(t)
      BY <2>4 DEF Started
    <2>8. /\ tun'[r] = t /\ pc'[r] = "ready"
          /\ \A q \in Rank : q # r => tun'[q] = tun[q] /\ pc'[q] = pc[q]
      BY <2>1, <2>2, <2>5 DEF Typed
    <2>9. Sampled'
      BY <2>4, <2>7, <2>8 DEF Sampled
    <2>. QED
      BY <2>6, <2>9
  <1>5. CASE UNCHANGED vars
    <2>1. tun' = tun /\ todo' = todo /\ pc' = pc /\ opt' = opt
      BY <1>5 DEF vars
    <2>2. Typed(P)'
      BY <2>1 DEF Typed
    <2>. QED
      BY <2>1, <2>2 DEF Sampled
  <1>. QED
    BY <1>1, <1>2, <1>3, <1>4, <1>5 DEF Next, RankNext, Operates

LEMMA InStepStep ==
    ASSUME AutotunerAssumption, NEW P, Typed(P), Sync, InStep, [Next]_vars
    PROVE  InStep'
  <1>1. PICK m, L, ctl, k, par : Lockstep(m, L, ctl, k, par)
    BY DEF InStep
  <1>2. ASSUME NEW op \in Op, Issue(op) PROVE InStep'
    BY <1>1, <1>2, LockstepIssue
  <1>3. ASSUME NEW r \in Rank, Operates(r) PROVE InStep'
    BY <1>1, <1>3, LockstepOperation
  <1>4. ASSUME NEW r \in Rank, Decide(r) PROVE InStep'
    BY <1>1, <1>4, LockstepDecide
  <1>5. ASSUME NEW r \in Rank, Take(r) PROVE InStep'
    BY <1>1, <1>5, LockstepTake
  <1>6. CASE UNCHANGED vars
    <2>1. tun' = tun /\ todo' = todo /\ pc' = pc /\ opt' = opt
      BY <1>6 DEF vars
    <2>2. ASSUME NEW r, NEW i PROVE Past(r, k, i)' <=> Past(r, k, i)
      BY <2>1 DEF Past
    <2>3. Lockstep(m, L, ctl, k, par)'
      BY <1>1, <2>1, <2>2 DEF Lockstep
    <2>. QED
      BY <2>3 DEF InStep
  <1>. QED
    BY <1>2, <1>3, <1>4, <1>5, <1>6 DEF Next, RankNext, Operates

LEMMA StepInv == AutotunerAssumption /\ IInv /\ [Next]_vars => IInv'
  <1>. SUFFICES ASSUME AutotunerAssumption, IInv, [Next]_vars PROVE IInv'
    OBVIOUS
  <1>1. PICK P : Typed(P)
    BY DEF IInv
  <1>2. (\E Q : Typed(Q))' /\ Sampled'
    BY <1>1, TypedStep DEF IInv
  <1>3. Sync => InStep'
    BY <1>1, InStepStep DEF IInv
  <1>. QED
    BY <1>2, <1>3 DEF IInv

-----------------------------------------------------------------------------
(* What follows from it.                                                   *)

LEMMA Agreement ==
    ASSUME NEW P, Typed(P), Sync => InStep
    PROVE  ParamsAgree
  <1>. SUFFICES ASSUME Sync, NEW r \in Rank, NEW q \in Rank, pc[r] = "ready", pc[q] = "ready",
                       todo[r] = todo[q]
                PROVE  tun[r].param = tun[q].param
    BY DEF ParamsAgree
  <1>1. PICK m, L, ctl, k, par : Lockstep(m, L, ctl, k, par)
    BY DEF InStep
  <1>2. /\ m \in Nat /\ k[r] \in 0..m /\ k[q] \in 0..m
        /\ Len(todo[r]) = m - k[r] /\ Len(todo[q]) = m - k[q]
        /\ tun[r].param = par[k[r]] /\ tun[q].param = par[k[q]]
    BY <1>1 DEF Lockstep
  <1>3. k[r] = k[q]
    BY <1>2
  <1>. QED
    BY <1>2, <1>3

LEMMA Barrier ==
    ASSUME NEW P, Typed(P), Sync => InStep
    PROVE  BarrierFills
  <1>. SUFFICES ASSUME Sync, NEW r \in Rank, NEW q \in Rank, pc[r] = "compute",
                       pc[q] # "compute"
                PROVE  todo[q] # <<>>
    BY DEF BarrierFills
  <1>1. PICK m, L, ctl, k, par : Lockstep(m, L, ctl, k, par)
    BY DEF InStep
  <1>2. /\ m \in Nat /\ k[r] \in 0..m /\ k[q] \in 0..m /\ Len(todo[q]) = m - k[q]
        /\ k[r] > 0 /\ Computes(ctl[k[r] - 1], L[k[r]])
    BY <1>1 DEF Lockstep
  <1>3. k[r] \in 1..m /\ ~Past(r, k, k[r])
    BY <1>2 DEF Past
  <1>4. k[q] <= k[r] /\ k[q] # k[r]
    BY <1>1, <1>2, <1>3, NobodyPast
  <1>5. Len(todo[q]) > 0
    BY <1>2, <1>4
  <1>6. Len(<<>>) = 0
    OBVIOUS
  <1>. QED
    BY <1>5, <1>6

LEMMA AllTaken == Sampled => SamplesTaken
  <1>. SUFFICES ASSUME Sampled, NEW r \in Rank, pc[r] = "compute", NEW x \in Element \X Sample
                PROVE  tun[r].samples[x] # 0
    BY DEF SamplesTaken
  <1>1. PICK e \in Element, s \in Sample : x = <<e, s>>
    OBVIOUS
  <1>2. Started(tun[r]) /\ tun[r].state # "STARTUP"
    BY DEF Sampled
  <1>. QED
    BY <1>1, <1>2 DEF Started

\* Ranks that combine their samples launch with the same parameter whenever
\* they have executed the same operations, however far apart they run and
\* whatever the script enables, disables and sets in between.
THEOREM TunersAgree == ASSUME AutotunerAssumption PROVE Spec => []ParamsAgree
  <1>1. Init => IInv
    BY InitInv
  <1>2. IInv /\ [Next]_vars => IInv'
    BY StepInv
  <1>3. IInv => ParamsAgree
    BY Agreement DEF IInv
  <1>. QED
    BY <1>1, <1>2, <1>3, PTL DEF Spec

\* No rank waits in the barrier of computeOptimalParameter() for one that has
\* nothing left to execute.
THEOREM TunersMeet == ASSUME AutotunerAssumption PROVE Spec => []BarrierFills
  <1>1. Init => IInv
    BY InitInv
  <1>2. IInv /\ [Next]_vars => IInv'
    BY StepInv
  <1>3. IInv => BarrierFills
    BY Barrier DEF IInv
  <1>. QED
    BY <1>1, <1>2, <1>3, PTL DEF Spec

\* Every sample an optimum is computed from was taken, with and without m_sync.
THEOREM TunersSampled == ASSUME AutotunerAssumption PROVE Spec => []SamplesTaken
  <1>1. Init => IInv
    BY InitInv
  <1>2. IInv /\ [Next]_vars => IInv'
    BY StepInv
  <1>3. IInv => SamplesTaken
    BY AllTaken DEF IInv
  <1>. QED
    BY <1>1, <1>2, <1>3, PTL DEF Spec
=============================================================================
