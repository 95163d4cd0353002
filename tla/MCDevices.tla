----------------------------- MODULE MCDevices ------------------------------
(***************************************************************************)
(* Instances of CachedAllocator, of GPUCommunicator (stages, updates, a    *)
(* bond, the pace of the ranks) and of LoadBalancer (domains in a row and  *)
(* on a square, two calls). A behaviour belongs to one part.               *)
(***************************************************************************)
EXTENDS CachedAllocator

CONSTANTS a1, a2, a3, a4, null, Off

VARIABLES
    part,
    program, comm, net, lb, cum, box, owner, pos, N_i, conf, calls

Addrs == {a1, a2, a3, a4}

\* A bond of length up to three, across faces and corners.
BondStarts ==
    {f \in [{0, 1} -> ({1, 3} \X {1}) \cup ({2, 4} \X {2, 4, 6})] : f[0][2] = 1}

Pair == [g \in (0..1) \X {0} |-> 1 - g[1]]
HalfOf8 == [i \in 0..2 |-> 4 * i]
Skew8 == [i \in 0..2 |-> IF i = 0 THEN 0 ELSE IF i = 1 THEN 5 ELSE 8]
Uneven14 == [i \in 0..3 |-> IF i = 0 THEN 0 ELSE 5 + 3 * i]
Whole1 == [i \in 0..1 |-> i]

\* Changes of the number of stages before, between and after migrations of one
\* particle.
Stages == INSTANCE GPUCommunicator WITH
    W <- 2, H <- 2, L <- 3, R <- 1, Reach <- 1,
    Moves <- {<<0, 0>>, <<1, 1>>}, NParticles <- 1, Members <- <<>>,
    Eager <- FALSE, Starts <- [{0} -> {-1, 3} \X {2, 3, 6}],
    Programs <- {<<"migrate", "update", "two", "update">>, <<"three", "migrate", "update", "one">>}

\* Two particles that are ghosts in both stages.
Updates == INSTANCE GPUCommunicator WITH
    W <- 2, H <- 2, L <- 3, R <- 1, Reach <- 1,
    Moves <- {<<0, 0>>, <<0, 1>>}, NParticles <- 2, Members <- <<>>,
    Eager <- FALSE, Starts <- [{0, 1} -> {<<2, 2>>, <<5, 5>>}],
    Programs <- {<<"two", "migrate", "update">>}

\* A bond: one member in the middle or at the corner of a domain, the other in
\* a domain next to it.
OneBond == INSTANCE GPUCommunicator WITH
    W <- 2, H <- 2, L <- 3, R <- 1, Reach <- 1,
    Moves <- {<<0, 0>>, <<1, 1>>}, NParticles <- 2,
    Members <- << <<0, 1>> >>, Eager <- FALSE, Starts <- BondStarts,
    Programs <- {<<"migrate", "migrate">>}

\* Ranks that run ahead of each other; members next to a corner of the box.
Pace == INSTANCE GPUCommunicator WITH
    W <- 2, H <- 2, L <- 3, R <- 1, Reach <- 1, Moves <- {<<0, 0>>},
    NParticles <- 2, Members <- << <<0, 1>> >>, Eager <- TRUE,
    Starts <- [{0, 1} -> {<<2, 6>>, <<3, 1>>}],
    Programs <- {<<"migrate", "update", "two", "update", "one">>}

\* Three domains in a row, on ranks in reverse order.
Row == INSTANCE LoadBalancer WITH
    W <- 3, H <- 1, Lx <- 14, Ly <- 1, Ghost <- 1, Drift <- 1,
    Particles <- {1, 2}, CartRanks <- [g \in (0..2) \X {0} |-> 2 - g[1]],
    StartX <- Uneven14, StartY <- Whole1, Tolerances <- {105},
    MaxIters <- {2}, Calls <- 1, Spots <- {-1, 0, 4, 7, 8, 11, 14}

\* Four domains on a square, on ranks that are not in the order of the grid.
Square == INSTANCE LoadBalancer WITH
    W <- 2, H <- 2, Lx <- 8, Ly <- 8, Ghost <- 1, Drift <- 1,
    Particles <- {1, 2},
    CartRanks <- [g \in (0..1) \X (0..1) |-> IF g[1] = 0 THEN 3 - g[2] ELSE g[2]],
    StartX <- Skew8, StartY <- HalfOf8, Tolerances <- {105}, MaxIters <- {1},
    Calls <- 1, Spots <- {-1, 4, 5}

\* Two updates with parameters that the script changes between them.
Again == INSTANCE LoadBalancer WITH
    W <- 2, H <- 1, Lx <- 8, Ly <- 1, Ghost <- 1, Drift <- 1,
    Particles <- {1, 2, 3}, CartRanks <- Pair, StartX <- HalfOf8,
    StartY <- Whole1, Tolerances <- {90, 200}, MaxIters <- {0, 1},
    Calls <- 2, Spots <- {-1, 3, 4, 5}

ASSUME DevicesAssumption ==
    /\ Stages!GPUCommunicatorAssumption
    /\ Updates!GPUCommunicatorAssumption
    /\ OneBond!GPUCommunicatorAssumption
    /\ Pace!GPUCommunicatorAssumption
    /\ Row!LoadBalancerAssumption
    /\ Square!LoadBalancerAssumption
    /\ Again!LoadBalancerAssumption

mcvars == <<part, vars, program, comm, net, lb, cum, box, owner, pos, N_i, conf, calls>>

\* What the parts on CachedAllocator leave alone.
besideCache == <<part, program, comm, net, lb, cum, box, owner, pos, N_i,
                 conf, calls>>
BesideCache ==
    /\ program = Off /\ comm = Off /\ net = Off /\ lb = Off /\ cum = Off
    /\ box = Off /\ owner = Off /\ pos = Off /\ N_i = Off /\ conf = Off
    /\ calls = Off

\* What the parts on GPUCommunicator leave alone.
besideRanks == <<part, vars, lb, cum, box, owner, pos, N_i, conf, calls>>
BesideRanks ==
    /\ Init /\ lb = Off /\ cum = Off /\ box = Off /\ owner = Off /\ pos = Off
    /\ N_i = Off /\ conf = Off /\ calls = Off

\* What the parts on LoadBalancer leave alone.
besideBalancers == <<part, vars, program, comm, net>>
BesideBalancers ==
    /\ Init /\ program = Off /\ comm = Off /\ net = Off

MCInit ==
    \/ part = "cache" /\ Init /\ BesideCache
    \/ part = "stages" /\ Stages!Init /\ BesideRanks
    \/ part = "update" /\ Updates!Init /\ BesideRanks
    \/ part = "bond" /\ OneBond!Init /\ BesideRanks
    \/ part = "pace" /\ Pace!Init /\ BesideRanks
    \/ part = "row" /\ Row!Init /\ BesideBalancers
    \/ part = "square" /\ Square!Init /\ BesideBalancers
    \/ part = "again" /\ Again!Init /\ BesideBalancers

MCNext ==
    \/ part = "cache" /\ Next /\ UNCHANGED besideCache
    \/ part = "stages" /\ Stages!Next /\ UNCHANGED besideRanks
    \/ part = "update" /\ Updates!Next /\ UNCHANGED besideRanks
    \/ part = "bond" /\ OneBond!Next /\ UNCHANGED besideRanks
    \/ part = "pace" /\ Pace!Next /\ UNCHANGED besideRanks
    \/ part = "row" /\ Row!Next /\ UNCHANGED besideBalancers
    \/ part = "square" /\ Square!Next /\ UNCHANGED besideBalancers
    \/ part = "again" /\ Again!Next /\ UNCHANGED besideBalancers
    \/ part \in {"cache"} /\ UNCHANGED mcvars  \* may stop

MCSpec == MCInit /\ [][MCNext]_mcvars

-----------------------------------------------------------------------------
(* Properties *)

\* The ranks and load balancers have their types: stages, plans and counts
\* stay in range, and no particle is farther from the box than the drift that
\* the code tolerates. The number of particles that a rank counts without a
\* migration is the number it has after the migration that follows. The slices
\* that the root balances hold the particles that the divisions along that
\* axis enclose, whatever ranks the domains are on. The domains tile the
\* global box and none is too narrow for the ghost layer on either side. When
\* update() returns no migration and no recount is left to do.
BalanceRight ==
    /\ part = "stages" => Stages!TypeOK
    /\ part = "update" => Updates!TypeOK
    /\ part = "bond" => OneBond!TypeOK
    /\ part = "pace" => Pace!TypeOK
    /\ part = "row" =>
          /\ Row!TypeOK /\ Row!Counted /\ Row!SlicesTrue /\ Row!Tiled
          /\ Row!NothingPending
    /\ part = "square" =>
          /\ Square!TypeOK /\ Square!Counted /\ Square!SlicesTrue
          /\ Square!Tiled /\ Square!NothingPending
    /\ part = "again" =>
          /\ Again!TypeOK /\ Again!Counted /\ Again!SlicesTrue /\ Again!Tiled
          /\ Again!NothingPending

\* After a migration every particle is on one rank, the one in whose domain it
\* is, for every number of stages. After an exchange a rank has exactly the
\* ghosts within its layer, each image once, although corners are reached in
\* one stage or in several. After an update every ghost is where the particle
\* is now, with the image it was sent with. After a migration a group is known
\* exactly where one of its members is, and every copy knows the ranks of all
\* members. Where a group is known all of its members can be found. Members of
\* a group that are ghosts are in the image next to the other members. The
\* message that a waiting rank receives next belongs to the exchange and the
\* stage it waits in, whatever the pace of the ranks.
GPUGhostsRight ==
    /\ part = "stages" =>
          /\ Stages!MigratedHome /\ Stages!GhostsOnce /\ Stages!GhostsCurrent
          /\ Stages!Matched
    /\ part = "update" =>
          /\ Updates!MigratedHome /\ Updates!GhostsOnce
          /\ Updates!GhostsCurrent /\ Updates!Matched
    /\ part = "bond" =>
          /\ OneBond!MigratedHome /\ OneBond!GroupsTrue
          /\ OneBond!GroupsComplete /\ OneBond!GhostsSuffice
          /\ OneBond!Matched
    /\ part = "pace" => Pace!GroupsTrue /\ Pace!Matched

\* One migration brings every particle to the rank in whose domain it is: no
\* new division moves past a neighbor's domain.
BroughtHome ==
    [][/\ part = "row" /\ Row!AllAt("migrate") => Row!BroughtHome
       /\ part = "square" /\ Square!AllAt("migrate") => Square!BroughtHome]_mcvars
=============================================================================
