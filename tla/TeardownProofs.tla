--------------------------- MODULE TeardownProofs ---------------------------
(***************************************************************************)
(* The error lock of Messenger for any number of ranks and steps, in       *)
(* whatever order MPI performs the two accesses of error().                *)
(***************************************************************************)
EXTENDS Teardown, TLAPS

\* The counter says which of the first two calls were made.
CallsInv ==
    /\ flag = 0 => first = {}
    /\ flag \in {0, 1} => second = {}

\* A rank that may still do a step has not done them all.
StepInv == \A r \in Rank : pc[r] \in {"script", "raise", "work", "comm"} => step[r] < NSteps

LockInv == FewVoices /\ FirstSpeaks /\ CallsInv

IInv == TypeOK /\ LockInv /\ WaitsAfterError /\ StepInv

\* The actions that do not call error() leave the lock alone.
LEMMA QuietLock ==
    ASSUME LockInv, UNCHANGED calls
    PROVE  LockInv'
  BY DEF LockInv, FewVoices, FirstSpeaks, CallsInv, calls

\* error() gives the stream to ranks of the first two calls only: the second sees
\* the 1 of the first if its MPI_Get is performed before its MPI_Accumulate.
LEMMA ErrorStep ==
    ASSUME TypeOK, LockInv, NEW r \in Rank, Error(r)
    PROVE  /\ LockInv' /\ flag' # 0
           /\ flag' \in Nat /\ lock' \in [Rank -> BOOLEAN]
           /\ first' \subseteq Rank /\ second' \subseteq Rank /\ swapped' \in BOOLEAN
  <1>1. flag' = flag + 1 /\ flag \in Nat /\ flag' \in Nat /\ flag' # 0
    BY DEF Error, TypeOK
  <1>2. PICK seen \in {flag, flag + 1} :
              /\ lock' = [lock EXCEPT ![r] = TakesLock(r, seen)]
              /\ swapped' = (swapped \/ seen = flag)
    <2>1. (IF Reordered THEN {flag, flag + 1} ELSE {flag + 1}) \subseteq {flag, flag + 1}
      OBVIOUS
    <2>. QED
      BY <2>1 DEF Error
  <1>3. /\ first' = IF flag = 0 THEN {r} ELSE first
        /\ second' = IF flag = 1 THEN {r} ELSE second
    BY DEF Error
  <1>4. /\ lock \in [Rank -> BOOLEAN] /\ first \subseteq Rank /\ second \subseteq Rank
        /\ swapped \in BOOLEAN
    BY DEF TypeOK
  <1>5. /\ lock' \in [Rank -> BOOLEAN] /\ first' \subseteq Rank /\ second' \subseteq Rank
        /\ swapped' \in BOOLEAN
    <2>1. TakesLock(r, seen) \in BOOLEAN
      BY <1>4 DEF TakesLock
    <2>2. (swapped \/ seen = flag) \in BOOLEAN
      BY <1>4
    <2>. QED
      BY <1>2, <1>3, <1>4, <2>1, <2>2
  <1>6. \A q \in Rank : lock'[q] <=> IF q = r THEN lock[r] \/ seen = 1 ELSE lock[q]
    BY <1>2, <1>4 DEF TakesLock
  <1>7. CallsInv'
    BY <1>1, <1>3 DEF CallsInv, LockInv
  <1>8. FewVoices'
    <2>. SUFFICES ASSUME NEW q \in Rank, lock'[q] PROVE q \in first' \union second'
      BY DEF FewVoices
    <2>1. CASE flag = 0
      <3>1. \A x \in Rank : ~lock[x]
        BY <2>1 DEF LockInv, FewVoices, CallsInv
      <3>. QED
        BY <1>3, <1>6, <2>1, <3>1
    <2>2. CASE flag = 1
      <3>1. second' = {r} /\ first' = first /\ second = {}
        BY <1>3, <2>2 DEF LockInv, CallsInv
      <3>. QED
        BY <1>6, <3>1 DEF LockInv, FewVoices
    <2>3. CASE flag # 0 /\ flag # 1
      <3>1. seen # 1 /\ first' = first /\ second' = second
        BY <1>1, <1>3, <2>3
      <3>2. lock[q]
        BY <1>6, <3>1
      <3>. QED
        BY <3>1, <3>2 DEF LockInv, FewVoices
    <2>. QED
      BY <2>1, <2>2, <2>3
  <1>9. FirstSpeaks'
    <2>. SUFFICES ASSUME ~swapped', NEW q \in Rank PROVE lock'[q] <=> q \in first'
      BY DEF FirstSpeaks
    <2>1. ~swapped /\ seen = flag + 1
      BY <1>2
    <2>2. \A x \in Rank : lock[x] <=> x \in first
      BY <2>1 DEF LockInv, FirstSpeaks
    <2>3. CASE flag = 0
      <3>1. first = {} /\ first' = {r} /\ seen = 1
        BY <1>3, <2>1, <2>3 DEF LockInv, CallsInv
      <3>. QED
        BY <1>6, <2>2, <3>1
    <2>4. CASE flag # 0
      <3>1. seen # 1 /\ first' = first
        BY <1>1, <1>3, <2>1, <2>4
      <3>. QED
        BY <1>6, <2>2, <3>1
    <2>. QED
      BY <2>3, <2>4
  <1>. QED
    BY <1>1, <1>5, <1>7, <1>8, <1>9 DEF LockInv

\* Every step of a rank, of the script or of a failure preserves the invariant.
LEMMA StepIInv == IInv /\ [Next]_vars => IInv'
  <1>. SUFFICES ASSUME IInv, [Next]_vars PROVE IInv'
    OBVIOUS
  <1>. USE DEF IInv
  <1>0. NSteps \in Nat /\ NSteps > 0
    BY TeardownAssumption
  <1>1. CASE ScriptFails
    <2>1. UNCHANGED calls
      BY <1>1 DEF ScriptFails
    <2>2. TypeOK' /\ WaitsAfterError' /\ StepInv'
      BY <1>1 DEF ScriptFails, TypeOK, WaitsAfterError, calls, StepInv, PC
    <2>. QED
      BY <2>1, <2>2, QuietLock
  <1>2. ASSUME NEW r \in Rank, ScriptCatches(r) PROVE IInv'
    <2>1. Error(r) /\ pc' = [pc EXCEPT ![r] = "script"] /\ step' = step /\ pc[r] = "raise"
      BY <1>2 DEF ScriptCatches
    <2>2. LockInv' /\ flag' # 0
      BY <2>1, ErrorStep
    <2>3. pc' \in [Rank -> PC] /\ StepInv'
      BY <2>1 DEF TypeOK, StepInv, PC
    <2>. QED
      BY <2>1, <2>2, <2>3, ErrorStep DEF TypeOK, WaitsAfterError
  <1>3. ASSUME NEW r \in Rank, Fail(r) PROVE IInv'
    <2>1. Error(r) /\ pc' = [pc EXCEPT ![r] = "thrown"] /\ step' = step
      BY <1>3 DEF Fail
    <2>2. LockInv' /\ flag' # 0
      BY <2>1, ErrorStep
    <2>3. pc' \in [Rank -> PC] /\ StepInv'
      BY <2>1 DEF TypeOK, StepInv, PC
    <2>. QED
      BY <2>1, <2>2, <2>3, ErrorStep DEF TypeOK, WaitsAfterError
  <1>4. ASSUME NEW r \in Rank, Communicate(r) PROVE IInv'
    <2>1. /\ pc[r] = "comm" /\ step' = [step EXCEPT ![r] = step[r] + 1]
          /\ pc' = [pc EXCEPT ![r] = IF step[r] + 1 = NSteps THEN "done" ELSE "work"]
          /\ UNCHANGED calls
      BY <1>4 DEF Communicate
    <2>2. step[r] \in 0..NSteps /\ step[r] < NSteps
      BY <2>1 DEF TypeOK, StepInv
    <2>3. step[r] + 1 \in 0..NSteps /\ (step[r] + 1 # NSteps => step[r] + 1 < NSteps)
      BY <1>0, <2>2
    <2>4. TypeOK' /\ WaitsAfterError'
      BY <2>1, <2>3 DEF TypeOK, WaitsAfterError, calls, PC
    <2>5. StepInv'
      BY <2>1, <2>3 DEF TypeOK, StepInv
    <2>. QED
      BY <2>1, <2>4, <2>5, QuietLock
  <1>5. ASSUME NEW r \in Rank, NEW p \in {"comm", "thrown", "uncaught", "barrier"}, Go(r, p),
               p = "comm" => pc[r] = "work", p = "barrier" => flag # 0
        PROVE  IInv'
    <2>1. pc' = [pc EXCEPT ![r] = p] /\ step' = step /\ UNCHANGED calls
      BY <1>5 DEF Go
    <2>2. TypeOK' /\ WaitsAfterError' /\ StepInv'
      BY <1>5, <2>1 DEF TypeOK, WaitsAfterError, calls, StepInv, PC
    <2>. QED
      BY <2>1, <2>2, QuietLock
  <1>6. ASSUME Abort PROVE IInv'
    <2>1. pc' = [q \in Rank |-> "aborted"] /\ step' = step /\ UNCHANGED calls
      BY <1>6 DEF Abort
    <2>2. TypeOK' /\ WaitsAfterError' /\ StepInv'
      BY <2>1 DEF TypeOK, WaitsAfterError, calls, StepInv, PC
    <2>. QED
      BY <2>1, <2>2, QuietLock
  <1>7. ASSUME NEW r \in Rank, Run(r) PROVE IInv'
    <2>1. /\ pc[r] = "script" /\ pc' = [pc EXCEPT ![r] = "work"] /\ step' = step
          /\ UNCHANGED calls
      BY <1>7 DEF Run
    <2>2. TypeOK' /\ WaitsAfterError' /\ StepInv'
      BY <2>1 DEF TypeOK, WaitsAfterError, calls, StepInv, PC
    <2>. QED
      BY <2>1, <2>2, QuietLock
  <1>8. ASSUME NEW r \in Rank, Work(r) \/ FailSilently(r) \/ Interrupt(r) PROVE IInv'
    BY <1>8, <1>5 DEF Work, FailSilently, Interrupt
  <1>9. ASSUME NEW r \in Rank, Handle(r) \/ Hook(r) PROVE IInv'
    BY <1>9, <1>5, <1>6 DEF Handle, Hook, isLocked
  <1>10. CASE Leave
    <2>1. TypeOK' /\ WaitsAfterError' /\ StepInv' /\ UNCHANGED calls
      BY <1>10 DEF Leave, TypeOK, WaitsAfterError, calls, StepInv, PC
    <2>. QED
      BY <2>1, QuietLock
  <1>11. CASE UNCHANGED vars
    <2>1. TypeOK' /\ WaitsAfterError' /\ StepInv'
      BY <1>11 DEF vars, TypeOK, WaitsAfterError, calls, StepInv
    <2>. QED
      BY <1>11, <2>1, QuietLock DEF vars
  <1>. QED
    BY <1>1, <1>2, <1>3, <1>4, <1>7, <1>8, <1>9, <1>10, <1>11 DEF Next, RankNext

\* However many ranks fail, in whatever order they come to the counter and in
\* whatever order MPI performs their accesses, only ranks of the first two calls
\* of error() display a message; it is exactly the first one as long as no MPI_Get
\* was performed before its MPI_Accumulate; and no rank waits in the catch clause
\* without an error.
THEOREM ErrorStream == Spec => []ErrorLock
  <1>1. Init => IInv
    <2>. SUFFICES ASSUME Init PROVE IInv
      OBVIOUS
    <2>1. NSteps \in Nat /\ NSteps > 0
      BY TeardownAssumption
    <2>2. /\ pc \in [Rank -> PC] /\ step \in [Rank -> 0..NSteps] /\ flag \in Nat
          /\ first \subseteq Rank /\ second \subseteq Rank /\ StepInv
      BY <2>1 DEF Init, PC, StepInv
    <2>3. lock \in [Rank -> BOOLEAN] /\ swapped \in BOOLEAN
      BY DEF Init
    <2>4. LockInv
      BY DEF Init, LockInv, FewVoices, FirstSpeaks, CallsInv
    <2>5. WaitsAfterError
      BY DEF Init, WaitsAfterError
    <2>. QED
      BY <2>2, <2>3, <2>4, <2>5 DEF IInv, TypeOK
  <1>2. IInv /\ [Next]_vars => IInv'
    BY StepIInv
  <1>3. IInv => ErrorLock
    BY DEF IInv, LockInv, ErrorLock
  <1>. QED
    BY <1>1, <1>2, <1>3, PTL DEF Spec
=============================================================================
