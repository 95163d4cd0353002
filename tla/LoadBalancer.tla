---------------------------- MODULE LoadBalancer ----------------------------
(***************************************************************************)
(* LoadBalancer::update() on a two-dimensional grid of W x H domains.      *)
(*                                                                         *)
(* Every rank has its own copy of the cumulative fractions, its own local  *)
(* box and its own flags, and decides for itself which collective call     *)
(* comes next.  A collective call is one step of all ranks, taken when all *)
(* of them have arrived; what a rank does on its own between two calls is  *)
(* a step of that rank.                                                    *)
(*                                                                         *)
(* Lengths are integers; a cumulative fraction is given as a position in   *)
(* the box.  The least-squares solver is external: it returns some point   *)
(* that satisfies the constraints the code sets up, or does not converge.  *)
(* Between two updates particles move; they may have left the domain of    *)
(* their owner by up to Drift since the last migration.                    *)
(***************************************************************************)
EXTENDS Integers, FiniteSets, FiniteSetsExt

CONSTANTS
    W, H,           \* domains along x and y
    Lx, Ly,         \* size of the global box
    Ghost,          \* Communicator::getGhostLayerMaxWidth()
    Drift,          \* how far a particle may leave its domain unnoticed
    Particles,      \* the particles
    Spots,          \* coordinates at which they may be
    CartRanks,      \* m_cart_ranks: the rank at a grid position
    StartX, StartY, \* cumulative fractions of the script
    Tolerances,     \* m_tolerance in percent, as the script may set it
    MaxIters,       \* m_maxiter, as the script may set it
    Calls           \* bound on the number of updates

Dims == {0, 1}
Grid == (0..(W - 1)) \X (0..(H - 1))
Ranks == {CartRanks[g] : g \in Grid}
NumDom(d) == IF d = 0 THEN W ELSE H
Length(d) == IF d = 0 THEN Lx ELSE Ly
At(g, d) == g[d + 1]

LoadBalancerAssumption ==
    /\ W \in Nat \ {0} /\ H \in Nat \ {0} /\ Lx \in Nat /\ Ly \in Nat
    /\ Ghost \in Nat /\ Drift \in Nat /\ Calls \in Nat
    /\ Cardinality(Ranks) = W * H
    /\ Tolerances \subseteq Nat /\ MaxIters \subseteq Nat

VARIABLES
    lb,     \* the load balancer of each rank, and where it is in update()
    cum,    \* m_cum_frac_x and m_cum_frac_y of each rank
    box,    \* ParticleData::m_box of each rank
    owner,  \* the rank that has the particle
    pos,    \* its position
    N_i,    \* particles per slice, on the reduction root
    conf,   \* the parameters the script has set
    calls   \* updates so far

vars == <<lb, cum, box, owner, pos, N_i, conf, calls>>

GridPos(r) == CHOOSE g \in Grid : CartRanks[g] = r
reduce_root == CartRanks[<<0, 0>>]

Wrap(i, n) == IF i = n THEN 0 ELSE IF i < 0 THEN i + n ELSE i
RankAt(i, j) == CartRanks[<<Wrap(i, W), Wrap(j, H)>>]

\* Mutation: no corners.
UniqueNeighborsFaces(r) ==
    LET g == GridPos(r)
        along(n) == IF n = 1 THEN {0} ELSE -1..1
    IN  ({RankAt(g[1] + i, g[2]) : i \in along(W)}
         \cup {RankAt(g[1], g[2] + j) : j \in along(H)}) \ {r}

\* Communicator's unique neighbors, along the axes that are decomposed.
UniqueNeighbors(r) ==
    LET g == GridPos(r)
        along(n) == IF n = 1 THEN {0} ELSE -1..1
    IN  {RankAt(g[1] + i, g[2] + j) : i \in along(W), j \in along(H)} \ {r}

\* DomainDecomposition::calculateLocalBox()
calculateLocalBox(c, r) ==
    [d \in Dims |-> [lo |-> c[d][At(GridPos(r), d)], hi |-> c[d][At(GridPos(r), d) + 1]]]

Owned(r) == {p \in Particles : owner[p] = r}

-----------------------------------------------------------------------------
(* countParticlesOffRank() and computeOwnedParticles()                      *)

\* How a particle of rank r lies with respect to the local box along d.
Crossed(r, p, d) == IF pos[p][d] >= box[r][d].hi THEN 1
                ELSE IF pos[p][d] < box[r][d].lo THEN -1 ELSE 0

OffRank(r, p) ==
    LET g == GridPos(r) IN RankAt(g[1] + Crossed(r, p, 0), g[2] + Crossed(r, p, 1))

countParticlesOffRank(r, s) == Cardinality({p \in Owned(r) : OffRank(r, p) = s})

OwnedAfter(r) ==
    Cardinality(Owned(r))
    + MapThenSumSet(LAMBDA s : countParticlesOffRank(s, r), UniqueNeighbors(r))
    - MapThenSumSet(LAMBDA s : countParticlesOffRank(r, s), UniqueNeighbors(r))

-----------------------------------------------------------------------------
(* The state of a load balancer.                                            *)

resetNOwn(s, n) == [s EXCEPT !.m_N_own = n, !.m_recompute = TRUE, !.m_needs_recount = FALSE]

signalResize(s) ==
    [s EXCEPT !.m_recompute = TRUE, !.m_needs_migrate = TRUE, !.m_needs_recount = TRUE]

\* getMaxImbalance() > m_tolerance.  m_max_imbalance is the largest number of
\* particles on a rank; the imbalance is its ratio to the average.
Imbalanced(s) ==
    s.m_max_imbalance * Cardinality(Ranks) * 100 > conf.m_tolerance * Cardinality(Particles)

\* getMaxImbalance() has to communicate first, and returns to where it was.
Ask(s, back) ==
    [s EXCEPT !.at = IF s.m_needs_recount THEN "recount" ELSE "imbalance", !.back = back]

Idle == \A r \in Ranks : lb[r].at = "idle"
AllAt(label) == \A r \in Ranks : lb[r].at = label

\* What update() does on one rank without the others.
OuterTest(s) ==
    IF s.iter >= conf.m_maxiter THEN [s EXCEPT !.at = "idle"]
    ELSE IF s.m_recompute THEN Ask(s, "outer")
    ELSE IF Imbalanced(s) THEN [s EXCEPT !.at = "inner", !.dim = 0]
    ELSE [s EXCEPT !.at = "idle"]

InnerTest(s) ==
    IF s.dim \notin Dims THEN [s EXCEPT !.at = "end"]
    ELSE IF s.m_recompute THEN Ask(s, "inner")
    ELSE IF ~Imbalanced(s) THEN [s EXCEPT !.at = "end"]
    ELSE IF s.dim \notin conf.m_enable \/ NumDom(s.dim) = 1 THEN [s EXCEPT !.dim = @ + 1]
    ELSE [s EXCEPT !.at = "gather"]

EndOfDims(s) ==
    IF s.m_needs_migrate THEN [s EXCEPT !.at = "migrate"]
    ELSE [s EXCEPT !.at = "outer", !.iter = @ + 1]

\* Such a step reads and changes nothing of another rank, so that its place
\* among those of the others does not matter: the lowest rank goes first.
Alone(r) == lb[r].at \in {"outer", "inner", "end"}

Local(r) ==
    /\ Alone(r) /\ \A s \in Ranks : Alone(s) => r <= s
    /\ lb' = [lb EXCEPT ![r] = CASE @.at = "outer" -> OuterTest(@)
                                 [] @.at = "inner" -> InnerTest(@)
                                 [] OTHER -> EndOfDims(@)]
    /\ UNCHANGED <<cum, box, owner, pos, N_i, conf, calls>>

-----------------------------------------------------------------------------
(* The collective calls.                                                    *)

\* update() is called: the first thing it does is to compute the imbalance.
Update ==
    /\ Idle /\ calls < Calls
    /\ calls' = calls + 1
    /\ lb' = [r \in Ranks |->
                Ask(resetNOwn([lb[r] EXCEPT !.iter = 0], Cardinality(Owned(r))), "outer")]
    /\ UNCHANGED <<cum, box, owner, pos, N_i, conf>>

\* computeOwnedParticles()
Recount ==
    /\ AllAt("recount")
    /\ lb' = [r \in Ranks |-> [resetNOwn(lb[r], OwnedAfter(r)) EXCEPT !.at = "imbalance"]]
    /\ UNCHANGED <<cum, box, owner, pos, N_i, conf, calls>>

\* The MPI_Allreduce of getMaxImbalance()
Reduce ==
    /\ AllAt("imbalance")
    /\ lb' = [r \in Ranks |-> [lb[r] EXCEPT
                !.m_max_imbalance = Max({lb[s].m_N_own : s \in Ranks}),
                !.m_recompute = FALSE, !.at = lb[r].back]]
    /\ UNCHANGED <<cum, box, owner, pos, N_i, conf, calls>>

\* reduce(): the particles of the slices along dim, on reduce_root.
Slices(d) ==
    [i \in 0..(NumDom(d) - 1) |->
        MapThenSumSet(LAMBDA r : lb[r].m_N_own, {r \in Ranks : At(GridPos(r), d) = i})]

Gather ==
    /\ AllAt("gather")
    /\ N_i' = Slices(lb[reduce_root].dim)
    /\ lb' = [r \in Ranks |-> [lb[r] EXCEPT !.at = "adjust"]]
    /\ UNCHANGED <<cum, box, owner, pos, conf, calls>>

-----------------------------------------------------------------------------
(* adjust()                                                                 *)

\* Mutation: no limits on the movement of a division, as for the slack variables.
InBoundsFree(c, x, n) == \A j \in 1..(n - 1) : 0 <= x[j] /\ x[j] <= c[n]

\* The divisions the constraints allow: a division stays between the centers
\* of the domains on its two sides, and domains stay wider than two ghost layers.
InBounds(c, x, n) ==
    \A j \in 1..(n - 1) : c[j - 1] + c[j] <= 2 * x[j] /\ 2 * x[j] <= c[j] + c[j + 1]

WideEnough(x, n) == \A i \in 0..(n - 1) : x[i + 1] - x[i] > 2 * Ghost

Solutions(c, d) ==
    LET n == NumDom(d)
        whole(y) == [j \in 0..n |-> IF j = 0 THEN 0 ELSE IF j = n THEN Length(d) ELSE y[j]]
        x == {whole(y) : y \in [1..(n - 1) -> 1..(Length(d) - 1)]}
    IN  {y \in x : InBounds(c, y, n) /\ WideEnough(y, n)}

Overconstrained(d) == 2 * Ghost * NumDom(d) >= Length(d)

\* The root tries an adjustment and tells the others of the outcome.  When it
\* succeeds, setCumulativeFractions() and setGlobalBox() follow on all ranks.
Adjusted(d, x) ==
    /\ cum' = [r \in Ranks |-> [cum[r] EXCEPT ![d] = x]]
    /\ box' = [r \in Ranks |-> calculateLocalBox(cum'[r], r)]
    /\ lb' = [r \in Ranks |-> signalResize([lb[r] EXCEPT !.at = "inner", !.dim = @ + 1])]

NotAdjusted ==
    /\ lb' = [r \in Ranks |-> [lb[r] EXCEPT !.at = "inner", !.dim = @ + 1]]
    /\ UNCHANGED <<cum, box>>

Adjust ==
    LET d == lb[reduce_root].dim
    IN  /\ AllAt("adjust")
        /\ \/ ~Overconstrained(d) /\ \E x \in Solutions(cum[reduce_root][d], d) : Adjusted(d, x)
           \/ NotAdjusted
        /\ UNCHANGED <<owner, pos, N_i, conf, calls>>

-----------------------------------------------------------------------------
(* Communicator::migrateParticles(), one direction after the other.         *)

\* Particles that have left their domain along d go to the neighbor on that
\* side, which takes them back into the global box.
Pass(st, d, dir) ==
    LET leaves(p) == LET b == box[st.owner[p]][d] IN
                     IF dir = 1 THEN st.pos[p][d] >= b.hi ELSE st.pos[p][d] < b.lo
        there(p) == LET g == GridPos(st.owner[p]) IN
                    IF d = 0 THEN RankAt(g[1] + dir, g[2]) ELSE RankAt(g[1], g[2] + dir)
        atEdge(p) == At(GridPos(st.owner[p]), d) = IF dir = 1 THEN NumDom(d) - 1 ELSE 0
    IN  IF NumDom(d) = 1 THEN st
        ELSE [owner |-> [p \in Particles |-> IF leaves(p) THEN there(p) ELSE st.owner[p]],
              pos |-> [p \in Particles |->
                        IF leaves(p) /\ atEdge(p) THEN [st.pos[p] EXCEPT ![d] = @ - dir * Length(d)]
                                                  ELSE st.pos[p]]]

Migrated == Pass(Pass(Pass(Pass([owner |-> owner, pos |-> pos], 0, 1), 0, -1), 1, 1), 1, -1)

Migrate ==
    /\ AllAt("migrate")
    /\ owner' = Migrated.owner /\ pos' = Migrated.pos
    /\ lb' = [r \in Ranks |->
                [resetNOwn(lb[r], Cardinality({p \in Particles : owner'[p] = r}))
                    EXCEPT !.m_needs_migrate = FALSE, !.at = "outer", !.iter = @ + 1]]
    /\ UNCHANGED <<cum, box, N_i, conf, calls>>

-----------------------------------------------------------------------------
(* Between the updates.                                                     *)

\* Along an axis that is not decomposed the local box is periodic.
Reach(r, d) == IF NumDom(d) = 1 THEN 0..(Length(d) - 1)
               ELSE (box[r][d].lo - Drift)..(box[r][d].hi - 1 + Drift)

Move(p) ==
    /\ Idle /\ calls < Calls
    /\ \E x \in Reach(owner[p], 0) \cap Spots, y \in Reach(owner[p], 1) \cap Spots :
          pos' = [pos EXCEPT ![p] = [d \in Dims |-> IF d = 0 THEN x ELSE y]]
    /\ UNCHANGED <<lb, cum, box, owner, N_i, conf, calls>>

Script(new) ==
    /\ Idle /\ calls < Calls
    /\ conf' = new
    /\ UNCHANGED <<lb, cum, box, owner, pos, N_i, calls>>

setTolerance(t) == Script([conf EXCEPT !.m_tolerance = t])
setMaxIterations(n) == Script([conf EXCEPT !.m_maxiter = n])
enableDimension(d) == Script([conf EXCEPT !.m_enable = IF d \in @ THEN @ \ {d} ELSE @ \cup {d}])

\* The run is over.
Stop == Idle /\ calls = Calls /\ UNCHANGED vars

Start == [d \in Dims |-> IF d = 0 THEN StartX ELSE StartY]

Init ==
    /\ cum = [r \in Ranks |-> Start]
    /\ box = [r \in Ranks |-> calculateLocalBox(Start, r)]
    /\ owner \in [Particles -> Ranks]
    /\ pos = [p \in Particles |-> [d \in Dims |-> box[owner[p]][d].lo]]
    /\ lb = [r \in Ranks |->
               [at |-> "idle", back |-> "outer", iter |-> 0, dim |-> 0,
                m_N_own |-> Cardinality(Owned(r)), m_needs_recount |-> FALSE,
                m_recompute |-> TRUE, m_max_imbalance |-> 0, m_needs_migrate |-> FALSE]]
    /\ N_i = [i \in {} |-> 0]
    /\ conf \in [m_tolerance : Tolerances, m_maxiter : MaxIters,
                 m_enable : {{d \in Dims : NumDom(d) > 1}}]
    /\ calls = 0

Next ==
    \/ \E r \in Ranks : Local(r)
    \/ Update \/ Recount \/ Reduce \/ Gather \/ Adjust \/ Migrate
    \/ \E p \in Particles : Move(p)
    \/ \E t \in Tolerances : setTolerance(t)
    \/ \E n \in MaxIters : setMaxIterations(n)
    \/ \E d \in Dims : enableDimension(d)
    \/ Stop

Spec == Init /\ [][Next]_vars

-----------------------------------------------------------------------------
(* Properties                                                               *)

\* Every flag, count and position stays in range; a particle is never farther
\* from the global box than the drift that the code tolerates.
TypeOK ==
    /\ lb \in [Ranks -> [at : {"idle", "outer", "inner", "end", "recount", "imbalance",
                               "gather", "adjust", "migrate"},
                         back : {"outer", "inner"}, iter : Nat, dim : 0..2,
                         m_N_own : 0..Cardinality(Particles), m_needs_recount : BOOLEAN,
                         m_recompute : BOOLEAN, m_max_imbalance : 0..Cardinality(Particles),
                         m_needs_migrate : BOOLEAN]]
    /\ owner \in [Particles -> Ranks]
    /\ \A p \in Particles, d \in Dims : pos[p][d] \in -Drift..(Length(d) - 1 + Drift)

\* Where the division of the box places a particle, its position taken modulo
\* the global box.
Home(p) ==
    LET c == cum[reduce_root]
        cell(d) == CHOOSE i \in 0..(NumDom(d) - 1) :
                      LET x == pos[p][d] % Length(d) IN c[d][i] <= x /\ x < c[d][i + 1]
    IN  CartRanks[<<cell(0), cell(1)>>]

\* The number of particles that a rank counts without a migration, from what
\* its neighbors tell it, is the number it has after the migration that
\* follows.  Needs that no division moves past the center of a domain.
Counted ==
    \A r \in Ranks : lb[r].at \in {"imbalance", "gather"} =>
        lb[r].m_N_own = IF lb[r].m_needs_migrate
                        THEN Cardinality({p \in Particles : Home(p) = r})
                        ELSE Cardinality(Owned(r))

\* The slices that the root balances hold the particles that the divisions
\* along that axis enclose, whatever ranks the domains are on; before the first
\* adjustment those that the ranks in the slice have.
SlicesTrue ==
    AllAt("adjust") =>
        LET d == lb[reduce_root].dim
            on(p) == IF lb[reduce_root].m_needs_migrate THEN Home(p) ELSE owner[p]
        IN  \A i \in 0..(NumDom(d) - 1) :
                N_i[i] = Cardinality({p \in Particles : At(GridPos(on(p)), d) = i})

\* One migration brings every particle to the rank in whose domain it is.
BroughtHome ==
    \A p \in Particles, d \in Dims :
        NumDom(d) > 1 => /\ pos'[p][d] >= box[owner'[p]][d].lo
                         /\ pos'[p][d] < box[owner'[p]][d].hi

\* The domains tile the global box and none is too narrow for the ghost layer
\* on either side, which Communicator::checkBoxSize() refuses.
Tiled ==
    \A d \in Dims : \A i \in 0..(NumDom(d) - 1) :
        \A r \in Ranks : At(GridPos(r), d) = i =>
            /\ box[r][d].lo = IF i = 0 THEN 0 ELSE cum[reduce_root][d][i]
            /\ box[r][d].hi = IF i = NumDom(d) - 1 THEN Length(d) ELSE cum[reduce_root][d][i + 1]
            /\ NumDom(d) > 1 => box[r][d].hi - box[r][d].lo > 2 * Ghost

\* When update() returns no migration and no recount is left to do.
NothingPending ==
    \A r \in Ranks : lb[r].at = "idle" => ~lb[r].m_needs_migrate /\ ~lb[r].m_needs_recount
=============================================================================
