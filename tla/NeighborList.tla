---------------------------- MODULE NeighborList ----------------------------
(***************************************************************************)
(* When neighbor lists are rebuilt and when pair forces are recomputed, on *)
(* every rank of a run: NeighborList::needsUpdating() and compute(),       *)
(* ForceCompute::compute(), PotentialPairGPU::computeForces(), driven by   *)
(* the order of one iteration of System::run() and by                      *)
(* Communicator::communicate().                                            *)
(*                                                                         *)
(* Positions are abstracted to how far the fastest particle of a rank has  *)
(* moved since a list last stored its positions; a list is good for the    *)
(* forces while no particle of any rank has moved by Reach (half of the    *)
(* buffer).  Every rank runs by itself; the calls that need all of them    *)
(* (allreduce, ghost exchange, migration) fire when all ranks are in them. *)
(***************************************************************************)
EXTENDS Integers, FiniteSets

CONSTANTS
    Rank,       \* the MPI ranks
    NList,      \* number of neighbor lists, each asked in this order
    Pot,        \* 1..n, the pair potentials in the integrator's order
    ListOf,     \* potential -> the list it uses
    Every,      \* list -> m_every
    DistCheck,  \* list -> m_dist_check
    Reach,      \* list -> displacement that spoils it (0: no buffer)
    GPU,        \* the potentials are PotentialPairGPUs
    SortSteps,  \* steps at which SFCPackUpdater runs
    LogSteps,   \* steps at which an analyzer asks for the energies
    EndSteps,   \* steps at which run() ends and is called again
    MaxStep,    \* last step of the model
    MaxMove     \* cap on a displacement

List == 1..NList
Decomposed == Cardinality(Rank) > 1

NeighborListAssumption ==
    /\ NList \in Nat /\ MaxStep \in Nat /\ MaxMove \in Nat
    /\ Pot = 1..Cardinality(Pot)
    /\ ListOf \in [Pot -> List]
    /\ Every \in [List -> Nat] /\ Reach \in [List -> Nat]
    /\ DistCheck \in [List -> BOOLEAN] /\ GPU \in BOOLEAN

VARIABLES
    pc, at,     \* where each rank is, and the list or potential it is at
    step,       \* the time step each rank is computing
    nl,         \* fields of each list on each rank
    seen,       \* what is true of each list on each rank (not in the code)
    pot,        \* fields of each potential on each rank
    forces,     \* what the force array of each potential holds
    migrate,    \* a migration has been requested in this communicate()
    forced,     \* m_force_migrate || m_is_first_step of the Communicator
    overlap     \* m_tuner_precompute->getParam(), the same on all ranks

vars == <<pc, at, step, nl, seen, pot, forces, migrate, forced, overlap>>

-----------------------------------------------------------------------------
(* needsUpdating() on the fields n of list l at step t.                     *)

\* The rank has to look at the displacements and to ask the other ranks.
MustCheck(l, n, t) ==
    /\ n.checked # t
    /\ ~n.force
    /\ t >= n.updated + Every[l]
    /\ Reach[l] # 0
    /\ DistCheck[l] \/ (Every[l] # 0 /\ ~(Every[l] > 1 /\ t = n.updated + Every[l]))

\* far is what distanceCheck() answers, when it is called.
needsUpdating(l, n, t, far) ==
    IF n.checked = t
    THEN [list |-> [n EXCEPT !.force = FALSE], result |-> n.force \/ n.result]
    ELSE IF ~n.force /\ t < n.updated + Every[l]
    THEN [list |-> [n EXCEPT !.checked = t, !.result = FALSE], result |-> FALSE]
    ELSE LET result    == n.force \/ ~MustCheck(l, n, t) \/ far
             dangerous == /\ result /\ ~n.force
                          /\ DistCheck[l] /\ Every[l] > 1
                          /\ t = n.updated + Every[l]
         IN  [list |-> [n EXCEPT !.checked = t, !.force = FALSE, !.result = result,
                                 !.updated = IF result THEN t ELSE @,
                                 !.dangerous = @ \/ dangerous],
              result |-> result]

hasBeenUpdated(n, t) == n.updated = t /\ n.once

-----------------------------------------------------------------------------
(* One rank's lists and potentials.                                         *)

\* The displacement of s is within what the list was built for.
Near(l, s) == s.moved = 0 \/ s.moved < Reach[l]
NearGhosts(l, s) == s.ghosts = 0 \/ s.ghosts < Reach[l]

\* compute() enters the update only once per step unless it is forced.
ListEnters(n, t) == n.computed # t \/ n.force
\* NeighborList::compute() on the fields n and the facts s of a list: the head
\* list and the exclusions are redone for a forced update only, and a rebuilt
\* list describes the present particles only if its head list does.
ListCompute(l, n, s, t, far) ==
    LET head  == s.head \/ n.force
        ans   == needsUpdating(l, n, t, far)
    IN  IF ~ListEnters(n, t) THEN [list |-> n, facts |-> s]
        ELSE IF ans.result
        THEN [list  |-> [ans.list EXCEPT !.computed = t, !.once = TRUE, !.dangerous = FALSE],
              facts |-> [moved |-> 0, ghosts |-> 0, current |-> head,
                         head |-> head, unsafe |-> FALSE]]
        ELSE [list  |-> [ans.list EXCEPT !.computed = t],
              facts |-> [s EXCEPT !.head = head]]

\* What a force kernel leaves in the force array.
Kernel(l, s) ==
    CASE ~s.current                         -> "stale"
      [] Near(l, s) /\ NearGhosts(l, s)     -> "good"
      [] OTHER                              -> "unsafe"

\* Mutation: the precomputed forces are kept without asking the neighbor list.
KeepsPrecomputedAlways(p, q, n, t) == GPU /\ q.pre

\* The forces of potential p are taken from what was precomputed.
KeepsPrecomputed(p, q, n, t) == GPU /\ q.pre /\ ~hasBeenUpdated(n, t)

\* ForceCompute::compute() does something.
PotEnters(p, r) == pot[p][r].sorted \/ pot[p][r].computed # step[r]

\* ForceCompute::compute() and computeForces() of potential p on rank r.
PotCompute(p, r, far) ==
    LET l    == ListOf[p]
        t    == step[r]
        done == ListCompute(l, nl[l][r], seen[l][r], t, far)
        q    == pot[p][r]
        keep == KeepsPrecomputed(p, q, done.list, t)
        q1   == [q EXCEPT !.computed = IF q.sorted THEN @ ELSE t, !.sorted = FALSE,
                          !.pre = keep /\ @]
        f    == Kernel(l, done.facts)
    IN  /\ nl' = [nl EXCEPT ![l][r] = done.list]
        /\ pot' = [pot EXCEPT ![p][r] = q1]
        /\ forces' = [forces EXCEPT ![p][r] = IF keep THEN @ ELSE f]
        /\ seen' = [seen EXCEPT ![l][r] =
                      [done.facts EXCEPT !.unsafe = @ \/ (~keep /\ f = "unsafe")]]

\* preCompute() of all potentials of a rank, with the present lists.
PreCompute(R) ==
    IF GPU
    THEN /\ pot' = [p \in Pot |-> [r \in Rank |->
                      IF r \in R THEN [pot[p][r] EXCEPT !.pre = TRUE, !.sorted = FALSE]
                      ELSE pot[p][r]]]
         /\ forces' = [p \in Pot |-> [r \in Rank |->
                      IF r \in R THEN Kernel(ListOf[p], seen'[ListOf[p]][r])
                      ELSE forces[p][r]]]
    ELSE UNCHANGED <<pot, forces>>

\* notifyParticleSort(): the particles of the ranks R are in a new order.
\* It reaches the lists, the potentials and (unless it is communicating) the
\* Communicator.
Reordered(R) ==
    /\ nl' = [l \in List |-> [r \in Rank |->
                IF r \in R THEN [nl[l][r] EXCEPT !.force = TRUE] ELSE nl[l][r]]]
    /\ seen' = [l \in List |-> [r \in Rank |->
                IF r \in R THEN [seen[l][r] EXCEPT !.current = FALSE, !.head = FALSE]
                ELSE seen[l][r]]]
    /\ pot' = [p \in Pot |-> [r \in Rank |->
                IF r \in R THEN [pot[p][r] EXCEPT !.sorted = TRUE] ELSE pot[p][r]]]
    /\ forces' = [p \in Pot |-> [r \in Rank |->
                IF r \in R THEN "stale" ELSE forces[p][r]]]

-----------------------------------------------------------------------------
Init ==
    /\ pc = [r \in Rank |-> IF Decomposed THEN "comm" ELSE "compute"]
    /\ at = [r \in Rank |-> 1]
    /\ step = [r \in Rank |-> 0]
    /\ nl = [l \in List |-> [r \in Rank |->
               [force |-> TRUE, checked |-> 0, result |-> FALSE, updated |-> 0,
                once |-> FALSE, computed |-> -1, dangerous |-> FALSE]]]
    /\ seen = [l \in List |-> [r \in Rank |->
               [moved |-> 0, ghosts |-> 0, current |-> FALSE, head |-> FALSE,
                unsafe |-> FALSE]]]
    /\ pot = [p \in Pot |-> [r \in Rank |->
               [pre |-> FALSE, sorted |-> FALSE, computed |-> -1]]]
    /\ forces = [p \in Pot |-> [r \in Rank |-> "stale"]]
    /\ migrate = [r \in Rank |-> FALSE]
    /\ forced = [r \in Rank |-> TRUE]
    /\ overlap \in IF GPU /\ Decomposed THEN BOOLEAN ELSE {FALSE}

Goto(r, where) == pc' = [pc EXCEPT ![r] = where] /\ at' = [at EXCEPT ![r] = 1]

\* The step of rank r is complete: run() ends here, or goes on.
Boundary(r) ==
    /\ pc[r] = "boundary"
    /\ Goto(r, CASE step[r] \in EndSteps /\ Decomposed -> "endrun"
                 [] step[r] \in LogSteps -> "log"
                 [] OTHER -> "sort")
    /\ UNCHANGED <<step, nl, seen, pot, forces, migrate, forced, overlap>>

\* SFCPackUpdater::update() on its steps, then System goes to the integrator.
\* With a decomposition the updater migrates first, with all other ranks.
SortOrNot(r) ==
    LET next == IF step[r] = MaxStep THEN "done" ELSE "move"
    IN  /\ pc[r] = "sort"
        /\ Goto(r, IF step[r] \in SortSteps /\ Decomposed THEN "sortmigrate" ELSE next)
        /\ IF step[r] \in SortSteps /\ ~Decomposed
           THEN Reordered({r}) /\ forced' = [forced EXCEPT ![r] = TRUE]
           ELSE UNCHANGED <<nl, seen, pot, forces, forced>>
        /\ UNCHANGED <<step, migrate, overlap>>

\* integrateStepOne(): the fastest particle of the rank gets farther from
\* where the lists were built, or comes back.
StepOne(r) ==
    /\ pc[r] = "move"
    /\ \E d \in {-1, 0, 1} :
         seen' = [l \in List |-> [seen[l] EXCEPT ![r].moved =
                    IF @ + d \in 0..MaxMove THEN @ + d ELSE @]]
    /\ forces' = [p \in Pot |-> [forces[p] EXCEPT ![r] = "stale"]]
    /\ step' = [step EXCEPT ![r] = @ + 1]
    /\ Goto(r, IF Decomposed THEN "comm" ELSE "compute")
    /\ UNCHANGED <<nl, pot, migrate, forced, overlap>>

\* communicate() up to the first call that needs other ranks.
Communicate(r) ==
    /\ pc[r] = "comm"
    /\ migrate' = [migrate EXCEPT ![r] = forced[r]]
    /\ Goto(r, CASE ~forced[r] /\ overlap -> "update"
                 [] forced[r] -> "migrate"
                 [] OTHER -> "ask")
    /\ UNCHANGED <<step, nl, seen, pot, forces, forced, overlap>>

\* One migrate request (peekUpdate) that is answered without communication.
Ask(r) ==
    /\ pc[r] = "ask" /\ at[r] <= NList
    /\ LET l   == at[r]
           ans == needsUpdating(l, nl[l][r], step[r], FALSE)
       IN  IF MustCheck(l, nl[l][r], step[r])
           THEN /\ pc' = [pc EXCEPT ![r] = "askdist"]
                /\ UNCHANGED <<at, nl, migrate>>
           ELSE /\ nl' = [nl EXCEPT ![l][r] = ans.list]
                /\ migrate' = [migrate EXCEPT ![r] = @ \/ ans.result]
                /\ at' = [at EXCEPT ![r] = @ + 1]
                /\ UNCHANGED pc
    /\ UNCHANGED <<step, seen, pot, forces, forced, overlap>>

\* All requests are answered.
Decide(r) ==
    /\ pc[r] = "ask" /\ at[r] = NList + 1
    /\ Goto(r, CASE migrate[r] -> "migrate"
                 [] ~migrate[r] /\ ~overlap -> "lateupdate"
                 [] OTHER -> "compute")
    /\ UNCHANGED <<step, nl, seen, pot, forces, migrate, forced, overlap>>

\* Potential at[r] of computeNetForce(), or of the analyzer.
Compute(r) ==
    /\ pc[r] \in {"compute", "log"} /\ at[r] \in Pot
    /\ LET l == ListOf[at[r]]
           n == nl[l][r]
           t == step[r]
       IN  IF ~PotEnters(at[r], r)
           THEN /\ at' = [at EXCEPT ![r] = @ + 1]
                /\ UNCHANGED <<pc, nl, seen, pot, forces>>
           ELSE IF ListEnters(n, t) /\ MustCheck(l, n, t)
           THEN /\ pc' = [pc EXCEPT ![r] = IF @ = "log" THEN "logdist" ELSE "computedist"]
                /\ UNCHANGED <<at, nl, seen, pot, forces>>
           ELSE /\ PotCompute(at[r], r, FALSE)
                /\ at' = [at EXCEPT ![r] = @ + 1]
                /\ UNCHANGED pc
    /\ UNCHANGED <<step, migrate, forced, overlap>>

\* Mutation: the forces are started over while a list says it was rebuilt.
ComputedAgain(r) ==
    /\ pc[r] \in {"compute", "log"} /\ at[r] \notin Pot
    /\ Goto(r, IF \E l \in List : hasBeenUpdated(nl[l][r], step[r]) THEN "compute" ELSE "boundary")
    /\ UNCHANGED <<step, nl, seen, pot, forces, migrate, forced, overlap>>

\* All potentials are computed.
Computed(r) ==
    /\ pc[r] \in {"compute", "log"} /\ at[r] \notin Pot
    /\ Goto(r, IF pc[r] = "log" THEN "sort" ELSE "boundary")
    /\ UNCHANGED <<step, nl, seen, pot, forces, migrate, forced, overlap>>

-----------------------------------------------------------------------------
(* What needs every rank.                                                   *)

\* Mutation: every rank uses its own answer.
FarOwn(l, r) == seen[l][r].moved >= Reach[l]

\* distanceCheck() on rank r: the allreduce is true if a particle of any rank
\* has moved too far.
Far(l, r) == \E s \in Rank : seen[l][s].moved >= Reach[l]

AskDistance ==
    /\ \A r \in Rank : pc[r] = "askdist"
    /\ \E l \in List :
         /\ \A r \in Rank : at[r] = l
         /\ nl' = [nl EXCEPT ![l] = [r \in Rank |->
                     needsUpdating(l, nl[l][r], step[r], Far(l, r)).list]]
         /\ migrate' = [r \in Rank |-> migrate[r] \/
                     needsUpdating(l, nl[l][r], step[r], Far(l, r)).result]
    /\ pc' = [r \in Rank |-> "ask"]
    /\ at' = [r \in Rank |-> at[r] + 1]
    /\ UNCHANGED <<step, seen, pot, forces, forced, overlap>>

\* The distance check of a list that no migrate request has asked.
ComputeDistance(r) ==
    /\ ~Decomposed
    /\ pc[r] \in {"computedist", "logdist"}
    /\ PotCompute(at[r], r, Far(ListOf[at[r]], r))
    /\ pc' = [pc EXCEPT ![r] = IF @ = "logdist" THEN "log" ELSE "compute"]
    /\ at' = [at EXCEPT ![r] = @ + 1]
    /\ UNCHANGED <<step, migrate, forced, overlap>>

Farthest(l, r) ==
    LET others == {seen[l][s].moved : s \in Rank \ {r}} \cup {0}
    IN  CHOOSE m \in others : \A x \in others : x <= m

\* updateGhosts() on all ranks, and the compute callbacks after it.
UpdateGhosts ==
    /\ \/ \A r \in Rank : pc[r] = "update"
       \/ \A r \in Rank : pc[r] = "lateupdate"
    /\ seen' = [l \in List |-> [r \in Rank |->
                  [seen[l][r] EXCEPT !.ghosts = Farthest(l, r)]]]
    /\ PreCompute(Rank)
    /\ pc' = [r \in Rank |-> IF pc[r] = "update" THEN "ask" ELSE "compute"]
    /\ at' = [r \in Rank |-> 1]
    /\ UNCHANGED <<step, nl, migrate, forced, overlap>>

\* migrateParticles() and exchangeGhosts() on all ranks.
Migrate ==
    /\ \A r \in Rank : pc[r] = "migrate"
    /\ Reordered(Rank)
    /\ forced' = [r \in Rank |-> FALSE]
    /\ migrate' = [r \in Rank |-> FALSE]
    /\ pc' = [r \in Rank |-> "compute"] /\ at' = [r \in Rank |-> 1]
    /\ UNCHANGED <<step, overlap>>

\* SFCPackUpdater::update() migrates particles, drops all ghosts and sorts.
SortMigrate ==
    /\ \A r \in Rank : pc[r] = "sortmigrate"
    /\ Reordered(Rank)
    /\ forced' = [r \in Rank |-> TRUE]
    /\ pc' = [r \in Rank |-> IF step[r] = MaxStep THEN "done" ELSE "move"]
    /\ UNCHANGED <<at, step, migrate, overlap>>

\* The end of run() migrates once more, and the next run() forces a migration.
EndRun ==
    /\ \A r \in Rank : pc[r] = "endrun"
    /\ Reordered(Rank)
    /\ forced' = [r \in Rank |-> TRUE]
    /\ pc' = [r \in Rank |-> IF step[r] \in LogSteps THEN "log" ELSE "sort"]
    /\ at' = [r \in Rank |-> 1]
    /\ UNCHANGED <<step, migrate, overlap>>

Done ==
    /\ \A r \in Rank : pc[r] = "done"
    /\ UNCHANGED vars

RankStep(r) ==
    \/ Boundary(r) \/ SortOrNot(r) \/ StepOne(r) \/ Communicate(r) \/ Ask(r)
    \/ Decide(r) \/ Compute(r) \/ Computed(r) \/ ComputeDistance(r)

Next ==
    \/ \E r \in Rank : RankStep(r)
    \/ AskDistance \/ UpdateGhosts \/ Migrate \/ SortMigrate \/ EndRun
    \/ Done

\* Every rank is a process that keeps running, and a collective call that all
\* ranks have entered completes.
Spec ==
    /\ Init /\ [][Next]_vars
    /\ \A r \in Rank : WF_vars(RankStep(r))
    /\ WF_vars(AskDistance) /\ WF_vars(UpdateGhosts) /\ WF_vars(Migrate)
    /\ WF_vars(SortMigrate) /\ WF_vars(EndRun)

-----------------------------------------------------------------------------
Where == {"boundary", "endrun", "log", "logdist", "sort", "move", "comm", "update",
          "ask", "askdist", "lateupdate", "migrate", "sortmigrate", "compute", "computedist", "done"}

\* Every field has its type.
TypeOK ==
    /\ pc \in [Rank -> Where] /\ at \in [Rank -> Nat]
    /\ step \in [Rank -> 0..MaxStep]
    /\ nl \in [List -> [Rank -> [force : BOOLEAN, checked : Nat, result : BOOLEAN,
                 updated : Nat, once : BOOLEAN, computed : Nat \cup {-1}, dangerous : BOOLEAN]]]
    /\ seen \in [List -> [Rank -> [moved : 0..MaxMove, ghosts : 0..MaxMove,
                 current : BOOLEAN, head : BOOLEAN, unsafe : BOOLEAN]]]
    /\ pot \in [Pot -> [Rank -> [pre : BOOLEAN, sorted : BOOLEAN, computed : Nat \cup {-1}]]]
    /\ forces \in [Pot -> [Rank -> {"good", "unsafe", "stale"}]]
    /\ migrate \in [Rank -> BOOLEAN] /\ forced \in [Rank -> BOOLEAN] /\ overlap \in BOOLEAN

\* The forces of a rank are in use: for the second half step, or for the log.
InUse(r) == pc[r] = "boundary" \/ (pc[r] = "sort" /\ step[r] \in LogSteps)

\* Forces that are used belong to the present particles at their present
\* positions, whoever asked for a migration, sorted, or precomputed them.
ForcesFresh ==
    \A r \in Rank, p \in Pot : InUse(r) => forces[p][r] # "stale"

\* A list is used beyond the displacement it was built for only before the
\* first check that setEvery() allows; with a period of 0 or 1, never.  The
\* particle that moved may be a ghost, whose owner notices.
UnsafeOnlyBetweenChecks ==
    \A r \in Rank, p \in Pot :
        InUse(r) /\ forces[p][r] = "unsafe" =>
            /\ Every[ListOf[p]] > 1
            /\ step[r] < nl[ListOf[p]][r].updated + Every[ListOf[p]]

\* Ranks that have completed the same step have rebuilt each list at the same
\* step, so that the next check finds all of them in or all out of the allreduce.
RebuildsAgree ==
    \A r, s \in Rank, l \in List :
        pc[r] = "boundary" /\ pc[s] = "boundary" /\ step[r] = step[s] =>
            /\ nl[l][r].updated = nl[l][s].updated
            /\ nl[l][r].checked = nl[l][s].checked
            /\ nl[l][r].force = nl[l][s].force

Collective == {"update", "askdist", "lateupdate", "migrate", "sortmigrate", "endrun"}
\* Ranks that wait for the others wait in the same call, and for the same list.
Matched ==
    \A r, s \in Rank : pc[r] \in Collective /\ pc[s] \in Collective =>
        /\ pc[r] = pc[s]
        /\ step[r] = step[s]
        /\ pc[r] = "askdist" => at[r] = at[s]

\* Every rank completes the run.
AllDone == \A r \in Rank : pc[r] = "done"
Completes == <>AllDone
=============================================================================
