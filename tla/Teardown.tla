------------------------------ MODULE Teardown ------------------------------
(***************************************************************************)
(* How a parallel job ends when a rank fails: the error lock of Messenger, *)
(* the catch clause of System::run(), and the exception hook of the python *)
(* module.                                                                 *)
(*                                                                         *)
(* Every rank executes the same script: it calls run(), and before that it *)
(* may call an operation that fails on all ranks in the same way and catch *)
(* the exception.  In run() each step needs messages of all ranks; a rank  *)
(* fails while it works on a step, with or without an error message, or    *)
(* receives SIGINT.                                                        *)
(***************************************************************************)
EXTENDS Integers, FiniteSets

CONSTANTS
    Rank,       \* the MPI ranks
    NSteps,     \* steps of the run
    Caught,     \* the script may catch an error before the run
    Reordered   \* MPI_Get of error() may return the value from before its own
                \* MPI_Accumulate: both are in one epoch, on one location, and
                \* MPI orders them only if the implementation does

ASSUME TeardownAssumption ==
    /\ NSteps \in Nat \ {0} /\ Caught \in BOOLEAN /\ Reordered \in BOOLEAN
    /\ IsFiniteSet(Rank)

VARIABLES
    pc,         \* where each rank is
    step,       \* the step each rank is in
    flag,       \* *m_error_flag on rank 0
    lock,       \* m_has_lock of each rank
    first,      \* the rank that called error() first, as a set (not in the code)
    second,     \* the rank of the second call (not in the code)
    swapped     \* an MPI_Get came before its MPI_Accumulate (not in the code)

calls == <<flag, lock, first, second, swapped>>
vars == <<pc, step, calls>>

PC == {"script", "raise", "work", "thrown", "comm", "barrier", "uncaught",
       "done", "aborted"}

-----------------------------------------------------------------------------
(* Messenger                                                                *)

\* Mutation: the lock is taken by every rank that finds the counter raised.
TakesLockAny(r, seen) == lock[r] \/ seen >= 1

\* The rank has the stream if it had it or was the first at the counter.
TakesLock(r, seen) == lock[r] \/ seen = 1

\* error(): increments the counter and reads it back.
Error(r) ==
    /\ flag' = flag + 1
    /\ \E seen \in IF Reordered THEN {flag, flag + 1} ELSE {flag + 1} :
          /\ lock' = [lock EXCEPT ![r] = TakesLock(r, seen)]
          /\ swapped' = (swapped \/ seen = flag)
    /\ first' = IF flag = 0 THEN {r} ELSE first
    /\ second' = IF flag = 1 THEN {r} ELSE second

isLocked == flag # 0

-----------------------------------------------------------------------------
(* The script, on every rank                                                *)

\* All ranks call the operation that fails, or none of them does.
ScriptFails ==
    /\ Caught /\ \A r \in Rank : pc[r] = "script" /\ step[r] = 0
    /\ flag = 0
    /\ pc' = [r \in Rank |-> "raise"]
    /\ UNCHANGED <<step, calls>>

\* The rank reports the error; the script catches the exception.
ScriptCatches(r) ==
    /\ pc[r] = "raise" /\ Error(r)
    /\ pc' = [pc EXCEPT ![r] = "script"]
    /\ UNCHANGED step

Run(r) ==
    /\ pc[r] = "script"
    /\ \A q \in Rank : pc[q] # "raise"
    /\ pc' = [pc EXCEPT ![r] = "work"]
    /\ UNCHANGED <<step, calls>>

-----------------------------------------------------------------------------
(* A step of run()                                                          *)

Go(r, p) == pc' = [pc EXCEPT ![r] = p] /\ UNCHANGED <<step, calls>>

Work(r) == pc[r] = "work" /\ Go(r, "comm")

\* The rank finds an error, reports it and throws.
Fail(r) ==
    /\ pc[r] = "work" /\ Error(r)
    /\ pc' = [pc EXCEPT ![r] = "thrown"]
    /\ UNCHANGED step

\* An exception without a message, as from the standard library.
FailSilently(r) == pc[r] = "work" /\ Go(r, "thrown")

\* SIGINT: run() returns on this rank; python raises KeyboardInterrupt there.
Interrupt(r) == pc[r] = "work" /\ Go(r, "uncaught")

\* The messages of the step: a rank goes on when all ranks have sent theirs.
Communicate(r) ==
    /\ pc[r] = "comm"
    /\ \A q \in Rank : step[q] > step[r] \/ (step[q] = step[r] /\ pc[q] \in {"comm", "done"})
    /\ step' = [step EXCEPT ![r] = @ + 1]
    /\ pc' = [pc EXCEPT ![r] = IF step[r] + 1 = NSteps THEN "done" ELSE "work"]
    /\ UNCHANGED calls

\* MPI_Abort() ends the processes of all ranks.
Abort == pc' = [q \in Rank |-> "aborted"] /\ UNCHANGED <<step, calls>>

\* The catch clause.  The rank that has the lock never comes to the barrier.
Handle(r) ==
    /\ pc[r] = "thrown"
    /\ IF ~isLocked THEN Go(r, "uncaught")
       ELSE IF lock[r] THEN Abort ELSE Go(r, "barrier")

\* The barrier ends when all ranks came to it, and run() returns.
Leave ==
    /\ \A r \in Rank : pc[r] = "barrier"
    /\ pc' = [r \in Rank |-> "done"]
    /\ UNCHANGED <<step, calls>>

\* An exception the script does not catch: the hook aborts the job.
Hook(r) == pc[r] = "uncaught" /\ Abort

-----------------------------------------------------------------------------
Init ==
    /\ pc = [r \in Rank |-> "script"] /\ step = [r \in Rank |-> 0]
    /\ flag = 0 /\ lock = [r \in Rank |-> FALSE]
    /\ first = {} /\ second = {} /\ swapped = FALSE

RankNext(r) ==
    \/ ScriptCatches(r) \/ Run(r) \/ Work(r) \/ Communicate(r)
    \/ Handle(r) \/ Hook(r)

Next ==
    \/ ScriptFails \/ Leave
    \/ \E r \in Rank : RankNext(r) \/ Fail(r) \/ FailSilently(r) \/ Interrupt(r)

\* Ranks do not stop by themselves; they need not fail.
Fairness == \A r \in Rank : WF_vars(RankNext(r))

Spec == Init /\ [][Next]_vars /\ Fairness

-----------------------------------------------------------------------------
\* The fields have their types.
TypeOK ==
    /\ pc \in [Rank -> PC] /\ step \in [Rank -> 0..NSteps]
    /\ flag \in Nat /\ lock \in [Rank -> BOOLEAN]
    /\ first \subseteq Rank /\ second \subseteq Rank /\ swapped \in BOOLEAN

\* In whatever order MPI performs the accesses and however the calls of error()
\* meet, only the ranks of the first two calls can have the error stream.
FewVoices == \A r \in Rank : lock[r] => r \in first \union second

\* As long as no MPI_Get came before its MPI_Accumulate, exactly the rank that came
\* first to the counter has the stream.
FirstSpeaks == ~swapped => \A r \in Rank : lock[r] <=> r \in first

\* A rank waits in the barrier of the catch clause only after a call of error().
WaitsAfterError == \A r \in Rank : pc[r] = "barrier" => flag # 0

\* After an error at most two ranks speak, and exactly the first one if MPI kept
\* the order of the accesses; no rank waits in the catch clause without an error.
ErrorLock == TypeOK /\ FewVoices /\ FirstSpeaks /\ WaitsAfterError
=============================================================================
