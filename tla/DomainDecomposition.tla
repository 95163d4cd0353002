-------------------------- MODULE DomainDecomposition --------------------------
(***************************************************************************)
(* DomainDecomposition (communication/): rank 0 searches a grid of domains *)
(* with as many domains as ranks, minimal surface between them and the     *)
(* numbers that the user asked for; with the same number of ranks on every *)
(* node it also divides the grid into one block per node.  Every rank      *)
(* builds its own table of the rank of each domain from what rank 0        *)
(* broadcasts, and its own cuts.  The tables answer which rank is the      *)
(* neighbor and which rank gets a particle.                                *)
(*                                                                         *)
(* Fractions of the box are counted in units, Units of them in the box.    *)
(***************************************************************************)
EXTENDS Integers, FiniteSets, SequencesExt

CONSTANTS
    Worlds,     \* what MPI and the script give: see World
    Units,      \* units of a box edge
    Refits      \* vectors of cuts that a load balancer sets

Axis == 1 .. 3

\* n ranks; the node of each; box lengths; requested domains per axis (0: any);
\* fractions per axis for the second constructor; whether two levels are tried.
World(w) ==
    /\ w.n \in Nat \ {0} /\ w.node \in [0 .. w.n - 1 -> 0 .. w.n - 1]
    /\ w.len \in [Axis -> Nat \ {0}] /\ w.ask \in [Axis -> Nat]
    /\ w.frac \in [Axis -> Seq(1 .. Units)] /\ w.twolevel \in BOOLEAN

DecompositionAssumption ==
    /\ \A w \in Worlds : World(w)
    /\ Units \in Nat \ {0} /\ Refits \subseteq Seq(0 .. Units)

VARIABLES
    world,      \* the arguments of the constructor
    plan,       \* what rank 0 broadcasts: grid, grid of a node, two levels
    view,       \* [rank -> tables], of the ranks that have built them
    cum,        \* [rank -> [Axis -> m_cum_frac]]
    refused,    \* axes whose cuts were stored and then refused with an exception
    pc

vars == <<world, plan, view, cum, refused, pc>>

Rank == 0 .. world.n - 1
Nodes == {world.node[r] : r \in Rank}

-----------------------------------------------------------------------------
(* The search on rank 0.                                                   *)

\* The grids with as many domains as ranks, in the order of the three loops.
Triples(n) ==
    LET x(k) == ((k - 1) \div n) + 1
        y(k) == ((k - 1) % n) + 1
    IN SelectSeq([k \in 1 .. n * n |-> <<x(k), y(k), n \div (x(k) * y(k))>>],
                 LAMBDA t : t[1] * t[2] * t[3] = n)

\* The surface between the domains.
Area(len, t) ==
    len[1] * len[2] * (t[3] - 1) + len[1] * len[3] * (t[2] - 1) + len[2] * len[3] * (t[1] - 1)

\* The grid has the requested number of domains.
Compatible(ask, t) == \A a \in Axis : ask[a] = 0 \/ t[a] = ask[a]

\* findDecomposition: the first grid, or one with less surface.
FindDecomposition(w, ask) ==
    LET start == [found |-> ask = <<0, 0, 0>>, t |-> <<1, 1, w.n>>,
                  area |-> w.len[1] * w.len[2] * (w.n - 1)]
        step(best, t) ==
            IF Compatible(ask, t) /\ (Area(w.len, t) < best.area \/ ~best.found)
            THEN [found |-> TRUE, t |-> t, area |-> Area(w.len, t)] ELSE best
    IN FoldLeft(step, start, Triples(w.n))

\* subdivide: the last grid of k ranks that divides the global grid.
Subdivide(k, grid) ==
    LET step(best, t) ==
            IF \A a \in Axis : grid[a] % t[a] = 0 THEN t ELSE best
    IN FoldLeft(step, <<1, 1, k>>, Triples(k))

\* initializeTwoLevel: every node has the same number of ranks.
OnNode(h) == {r \in Rank : world.node[r] = h}
Uniform == \A g, h \in Nodes : Cardinality(OnNode(g)) = Cardinality(OnNode(h))

\* The number of domains that the constructor asks for: with fractions, one more
\* than there are fractions.
Asked(w) ==
    IF \A a \in Axis : w.frac[a] = <<>> THEN w.ask
    ELSE [a \in Axis |-> IF w.frac[a] = <<>> THEN 0 ELSE Len(w.frac[a]) + 1]

-----------------------------------------------------------------------------
(* The tables of a rank.                                                   *)

\* Index3D::operator().
Index(grid, p) == (p[3] * grid[2] + p[2]) * grid[1] + p[1]

\* Index3D::getTriple.
Triple(grid, i) ==
    LET z == i \div (grid[2] * grid[1])
        y == (i % (grid[2] * grid[1])) \div grid[1]
    IN <<i - z * grid[2] * grid[1] - y * grid[1], y, z>>

Grid(g) == (0 .. g[1] - 1) \X (0 .. g[2] - 1) \X (0 .. g[3] - 1)

\* Position of a node in the grid of nodes: x is the outermost loop.
NodeAt(g, i) == <<i \div (g[2] * g[3]), (i \div g[3]) % g[2], i % g[3]>>

Ascending(S) == SelectSeq([i \in 1 .. world.n |-> i - 1], LAMBDA x : x \in S)

\* The domain of a rank from the position of its node and its position in it.
GlobalCell(ng, ig, pn, pi) == [a \in Axis |-> pn[a] * ig[a] + pi[a]]

\* The ranks of a node, in the order of a set.
RankOrder(S) == {Ascending(S)}

\* m_cart_ranks: the rank of every domain.
CartRanks(order) ==
    IF ~plan.two THEN [i \in 0 .. world.n - 1 |-> i]
    ELSE LET ng == [a \in Axis |-> plan.grid[a] \div plan.intra[a]]
             names == Ascending(Nodes)
             cell(k, l) ==
                 Index(plan.grid, GlobalCell(ng, plan.intra, NodeAt(ng, k - 1),
                                             Triple(plan.intra, l - 1)))
             pairs == (DOMAIN names) \X (1 .. Cardinality(OnNode(names[1])))
         IN [i \in 0 .. world.n - 1 |->
               LET q == CHOOSE q \in pairs : cell(q[1], q[2]) = i
               IN order[names[q[1]]][q[2]]]

\* m_cart_ranks_inv.
Inverted(cart) == [r \in Rank |-> CHOOSE i \in DOMAIN cart : cart[i] = r]

-----------------------------------------------------------------------------
(* The cuts.                                                               *)

\* The fractions that are used: uniform ones if the grid does not fit those given.
Fractions(w, grid) ==
    LET fits == \A a \in Axis : w.frac[a] # <<>> => Len(w.frac[a]) = grid[a] - 1
        uniform(a) == [i \in 1 .. grid[a] - 1 |-> Units \div grid[a]]
    IN [a \in Axis |-> IF fits /\ w.frac[a] # <<>> THEN w.frac[a] ELSE uniform(a)]

\* initializeCumulativeFractions: partial sums between 0 and the whole edge.
Cumulative(f) ==
    LET sums == FoldLeft(LAMBDA s, x : Append(s, s[Len(s)] + x), <<0>>, f)
    IN Append(sums, Units)

\* Mutation: the domain is the one above the cut that was found.
PlaceAxisAbove(c, f) ==
    LET k == Cardinality({i \in DOMAIN c : c[i] < f})
        n == Len(c) - 1
    IN IF k >= n THEN k - n ELSE k

\* placeParticle along one axis: the index of lower_bound less one, wrapped.
PlaceAxis(c, f) ==
    LET k == Cardinality({i \in DOMAIN c : c[i] < f}) - 1
        n == Len(c) - 1
    IN CASE k < 0 -> k + n [] k >= n -> k - n [] OTHER -> k

PlaceParticle(r, f) ==
    view[r].cart[Index(plan.grid, [a \in Axis |-> PlaceAxis(cum[r][a], f[a])])]

\* The wrap across the boundaries of the grid.
Wrap(i, n) == IF i < 0 THEN i + n ELSE IF i = n THEN i - n ELSE i

\* getNeighborRank along an axis, s = 1 or -1.
NeighborRank(r, a, s) ==
    view[r].cart[Index(plan.grid,
                       [view[r].pos EXCEPT ![a] = Wrap(@ + s, plan.grid[a])])]

-----------------------------------------------------------------------------

Init ==
    /\ world \in Worlds
    /\ plan = [grid |-> <<0, 0, 0>>, intra |-> <<0, 0, 0>>, two |-> FALSE]
    /\ view = <<>> /\ cum = <<>> /\ refused = {} /\ pc = "search"

\* initializeDomainGrid on rank 0, up to the broadcasts.  A request that has no grid
\* is dropped.
Search ==
    /\ pc = "search"
    /\ LET ask == Asked(world)
           two == world.twolevel /\ Uniform /\ ask = <<0, 0, 0>>
           try == FindDecomposition(world, ask)
           grid == IF try.found THEN try.t ELSE FindDecomposition(world, <<0, 0, 0>>).t
       IN plan' = [grid |-> grid, two |-> two,
                   intra |-> IF two THEN Subdivide(world.n \div Cardinality(Nodes), grid)
                             ELSE <<0, 0, 0>>]
    /\ pc' = "build"
    /\ UNCHANGED <<world, view, cum, refused>>

\* A rank builds its tables and receives the cuts of rank 0.  It reads nothing that
\* another rank builds, so the ranks may as well go one after the other.
Build(r) ==
    /\ pc = "build" /\ DOMAIN view = 0 .. r - 1
    /\ \E order \in [Nodes -> UNION {RankOrder(OnNode(h)) : h \in Nodes}] :
         /\ \A h \in Nodes : order[h] \in RankOrder(OnNode(h))
         /\ LET cart == CartRanks(order)
                inv == Inverted(cart)
                f == Fractions(world, plan.grid)
                one == [cart |-> cart, inv |-> inv, pos |-> Triple(plan.grid, inv[r])]
            IN /\ view' = [q \in DOMAIN view \union {r} |-> IF q = r THEN one ELSE view[q]]
               /\ cum' = [q \in DOMAIN view \union {r} |->
                            IF q = r THEN [a \in Axis |-> Cumulative(f[a])] ELSE cum[q]]
    /\ UNCHANGED <<world, plan, refused, pc>>

Ready ==
    /\ pc = "build" /\ DOMAIN view = Rank /\ pc' = "ready"
    /\ UNCHANGED <<world, plan, view, cum, refused>>

\* setCumulativeFractions, a collective call: the root checks the length, all ranks
\* receive the cuts, and only then look at the two ends: cuts that are refused stay.
SetCumulativeFractions(a, c, root) ==
    /\ pc = "ready"
    /\ IF Len(c) # plan.grid[a] + 1 THEN UNCHANGED <<cum, refused>>
       ELSE /\ cum' = [r \in Rank |-> [cum[r] EXCEPT ![a] = c]]
            /\ refused' = IF c[1] # 0 \/ c[Len(c)] # Units
                          THEN refused \union {a} ELSE refused \ {a}
    /\ UNCHANGED <<world, plan, view, pc>>

Next ==
    \/ Search \/ Ready
    \/ \E r \in Rank : Build(r)
    \/ \E a \in Axis, c \in Refits, root \in Rank : SetCumulativeFractions(a, c, root)

Spec == Init /\ [][Next]_vars

-----------------------------------------------------------------------------
(* Properties.                                                             *)

\* Every variable has its type, and the tables of a rank fit the grid.
TypeOK ==
    /\ world \in Worlds /\ pc \in {"search", "build", "ready"}
    /\ plan.grid \in [Axis -> Nat] /\ plan.intra \in [Axis -> Nat] /\ plan.two \in BOOLEAN
    /\ DOMAIN view \subseteq Rank /\ DOMAIN cum = DOMAIN view /\ refused \subseteq Axis
    /\ \A r \in DOMAIN view :
         /\ view[r].cart \in [Rank -> Rank] /\ view[r].inv \in [Rank -> Rank]
         /\ view[r].pos \in Grid(plan.grid)
         /\ cum[r] \in [Axis -> Seq(0 .. Units)]
         /\ \A a \in Axis : Len(cum[r][a]) = plan.grid[a] + 1

Built == pc # "search"
Surface(t) ==
    MapThenFoldSet(+, 0, LAMBDA a : (t[a] - 1) *
        ((world.len[1] * world.len[2] * world.len[3]) \div world.len[a]),
        LAMBDA S : CHOOSE x \in S : TRUE, Axis)

\* The grid uses all ranks and follows the request if any grid does; among those
\* grids none has less surface between the domains.
Optimal ==
    Built =>
        LET all == {t \in [Axis -> 1 .. world.n] : t[1] * t[2] * t[3] = world.n}
            ask == Asked(world)
            asked == {t \in all : \A a \in Axis : ask[a] \in {0, t[a]}}
            pool == IF asked = {} THEN all ELSE asked
        IN plan.grid \in pool /\ \A t \in pool : Surface(plan.grid) <= Surface(t)

\* With two levels the grid divides into equal blocks, one per node, and the ranks of
\* a node are the domains of one block.
NodeBlocks ==
    (pc = "ready" /\ plan.two) =>
        /\ \A a \in Axis : plan.intra[a] > 0 /\ plan.grid[a] % plan.intra[a] = 0
        /\ \A r, q \in Rank :
             world.node[r] = world.node[q] <=>
                 \A a \in Axis : view[r].pos[a] \div plan.intra[a]
                                 = view[q].pos[a] \div plan.intra[a]

\* All ranks have the same table, it holds every rank once, and every rank finds
\* itself where the others find it.
TablesAgree ==
    pc = "ready" =>
        \A r, q \in Rank :
            view[r].cart = view[q].cart
            /\ view[q].cart[Index(plan.grid, view[r].pos)] = r

\* The neighbor's neighbor in the opposite direction is the rank itself.
NeighborsMutual ==
    pc = "ready" =>
        \A r \in Rank, a \in Axis, s \in {-1, 1} :
            NeighborRank(NeighborRank(r, a, s), a, -s) = r

\* calculateLocalBox: the edge of a domain along an axis.
Lo(r, a) == cum[r][a][view[r].pos[a] + 1]
Hi(r, a) == cum[r][a][view[r].pos[a] + 2]

\* The local boxes of all ranks tile the global box: a box ends where the one of the
\* next rank begins, also on ranks that learnt the cuts from another rank.
BoxesTile ==
    (pc = "ready" /\ refused = {}) =>
        \A r \in Rank, a \in Axis :
            LET q == NeighborRank(r, a, 1)
            IN IF view[r].pos[a] = plan.grid[a] - 1 THEN Hi(r, a) = Units /\ Lo(q, a) = 0
               ELSE Hi(r, a) = Lo(q, a)

\* A sample of positions: along one axis all of them, along the others one.
Samples == {[a \in Axis |-> IF a = b THEN x ELSE 1] : b \in Axis, x \in 0 .. Units}
OnCut(f) == \E a \in Axis, r \in Rank : f[a] \in ToSet(cum[r][a])

\* A particle that is not on a cut is placed by every rank on the rank whose local
\* box contains it.
PlacedInside ==
    (pc = "ready" /\ refused = {}) =>
        \A f \in Samples, q \in Rank :
            ~OnCut(f) => LET r == PlaceParticle(q, f)
                         IN \A a \in Axis : Lo(r, a) < f[a] /\ f[a] < Hi(r, a)
=============================================================================
