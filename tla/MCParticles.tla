---------------------------- MODULE MCParticles -----------------------------
(***************************************************************************)
(* Instances of ParticleData, two ranks and three tags, and of             *)
(* DomainDecomposition, which decides where the particles go: the search   *)
(* for the grid, ranks on several nodes, and domains with given or later   *)
(* cuts. A behaviour belongs to one part; the variables of the others stay *)
(* as they begin.                                                          *)
(***************************************************************************)
EXTENDS ParticleData

CONSTANT Off

VARIABLES
    part,
    world, plan, view, cum, refused, pc

NoFractions == <<<<>>, <<>>, <<>>>>
Make(n, node, len, ask, frac, two) ==
    [n |-> n, node |-> node, len |-> len, ask |-> ask, frac |-> frac, twolevel |-> two]
OneNode(n) == [r \in 0 .. n - 1 |-> 0]

\* Numbers of ranks with few and with many divisors, boxes that are long along each
\* axis, and requests that can and that cannot be met.
Lengths == {<<1, 1, 1>>, <<4, 1, 1>>, <<1, 4, 2>>, <<3, 2, 1>>, <<2, 5, 3>>}
Requests == {<<0, 0, 0>>, <<2, 0, 0>>, <<0, 3, 0>>, <<0, 2, 2>>, <<1, 1, 0>>, <<0, 5, 0>>}
GridWorlds ==
    {Make(n, OneNode(n), len, ask, NoFractions, FALSE) :
        n \in {1, 2, 3, 4, 6, 8, 12}, len \in Lengths, ask \in Requests}

\* The ranks of a node are consecutive, or dealt out in turn.
NodeWorlds ==
    {Make(n, [r \in 0 .. n - 1 |-> IF deal THEN r % h ELSE (h * r) \div n], len, ask,
          NoFractions, TRUE) :
        n \in {4, 6}, h \in {2, 3, 4}, deal \in BOOLEAN,
        len \in {<<1, 1, 1>>, <<4, 1, 1>>, <<1, 4, 2>>},
        ask \in {<<0, 0, 0>>, <<2, 0, 0>>}}

\* Sizes for fewer, as many and more domains than the grid has, and cuts that are
\* accepted, of the wrong length, and with an end that is not the face of the box.
FractionWorlds ==
    {Make(4, OneNode(4), <<1, 1, 1>>, <<0, 0, 0>>, f, FALSE) :
        f \in {NoFractions, <<<<3>>, <<>>, <<>>>>, <<<<2>>, <<7>>, <<>>>>,
               <<<<1, 2, 3>>, <<>>, <<>>>>, <<<<3, 3>>, <<>>, <<>>>>,
               <<<<>>, <<5, 1, 4>>, <<>>>>}}
Cuts == {<<0, 12>>, <<0, 5, 12>>, <<0, 7, 12>>, <<0, 1, 2, 3, 12>>, <<0, 2, 9, 10, 12>>,
         <<0, 4, 11>>}

\* The search for a grid.
TheGrid == INSTANCE DomainDecomposition WITH
    Worlds <- GridWorlds, Refits <- {}, Units <- 24

\* Ranks that share nodes, in blocks or dealt out.
TheNodes == INSTANCE DomainDecomposition WITH
    Worlds <- NodeWorlds, Refits <- {}, Units <- 12

\* Domains of given sizes, whose cuts are set again.
TheCuts == INSTANCE DomainDecomposition WITH
    Worlds <- FractionWorlds, Refits <- Cuts, Units <- 12

ASSUME ParticlesAssumption ==
    /\ TheGrid!DecompositionAssumption
    /\ TheNodes!DecompositionAssumption
    /\ TheCuts!DecompositionAssumption

mcvars == <<part, m_nglobal, m_tag_set, m_recycled_tags, m_rtag_size,
            m_cached_tag_set, m_invalid_cached_tags, pd, m_max_nparticles,
            dest, wire, world, plan, view, cum, refused, pc>>

\* What the parts on ParticleData leave alone.
besideData == <<part, world, plan, view, cum, refused, pc>>
BesideData ==
    /\ world = Off /\ plan = Off /\ view = Off /\ cum = Off /\ refused = Off
    /\ pc = Off

\* What the parts on DomainDecomposition leave alone.
besideDecomposition == <<part, m_nglobal, m_tag_set, m_recycled_tags,
                         m_rtag_size, m_cached_tag_set,
                         m_invalid_cached_tags, pd, m_max_nparticles, dest,
                         wire>>
BesideDecomposition ==
    /\ Init /\ m_nglobal = 0

MCInit ==
    \/ part = "data" /\ Init /\ BesideData
    \/ part = "grid" /\ TheGrid!Init /\ BesideDecomposition
    \/ part = "nodes" /\ TheNodes!Init /\ BesideDecomposition
    \/ part = "cuts" /\ TheCuts!Init /\ BesideDecomposition

MCNext ==
    \/ part = "data" /\ Next /\ UNCHANGED besideData
    \/ part = "grid" /\ TheGrid!Next /\ UNCHANGED besideDecomposition
    \/ part = "nodes" /\ TheNodes!Next /\ UNCHANGED besideDecomposition
    \/ part = "cuts" /\ TheCuts!Next /\ UNCHANGED besideDecomposition
    \/ part \in {"grid", "nodes", "cuts"} /\ UNCHANGED mcvars  \* may stop

MCSpec == MCInit /\ [][MCNext]_mcvars

-----------------------------------------------------------------------------
(* Properties *)

\* The variables of the decomposition have their types: every place is in the
\* grid, and every rank has as many cuts as the grid needs. The grid uses all
\* ranks and follows the request of the user if any grid does; among those
\* grids none has less surface between the domains (findDecomposition). The
\* neighbor's neighbor in the opposite direction is the rank itself: what a
\* rank sends east is what that rank receives from the west. With two levels
\* the grid divides into equal blocks, one per node, and the ranks of a node
\* are the domains of one block. All ranks have built the same table on their
\* own, it holds every rank once, and every rank finds itself where the others
\* find it. The local boxes of all ranks tile the global box, also after the
\* cuts were set again: a box ends where the one of the next rank begins. A
\* particle that is not on a cut is placed by every rank on the rank whose
\* local box contains it.
DecompositionRight ==
    /\ part = "grid" =>
          /\ TheGrid!TypeOK /\ TheGrid!Optimal /\ TheGrid!NeighborsMutual
          /\ TheGrid!TablesAgree
    /\ part = "nodes" =>
          /\ TheNodes!TypeOK /\ TheNodes!Optimal /\ TheNodes!NeighborsMutual
          /\ TheNodes!NodeBlocks /\ TheNodes!TablesAgree
    /\ part = "cuts" =>
          /\ TheCuts!TypeOK /\ TheCuts!BoxesTile /\ TheCuts!PlacedInside
=============================================================================
