------------------------------ MODULE MCTrees -------------------------------
(***************************************************************************)
(* Instances of GPUTree (one particle per leaf, two types, ghosts beyond   *)
(* the ghost layer, diameters) and of AABBTree (a build, the events        *)
(* between builds, updates of the tree, diameters). A behaviour belongs to *)
(* one part. The system in two dimensions is checked on its own, under     *)
(* FlatSpec.                                                               *)
(***************************************************************************)
EXTENDS Integers, Sequences

CONSTANT Off

VARIABLES
    part,
    pos, type, phase, map, leaf, parent_sib, aabbs, m_node_locks, thread,
    nlist, size, n, ntypes, max_n, m_max_num_changed, m_type_changed,
    m_remap_particles, m_box_changed, m_map_pid_tree, m_num_per_type,
    m_type_head, m_image_list, m_aabb_trees, current, events

OneType == [a \in {0} |-> [b \in {0} |-> 1]]
\* Type 1 does not interact with itself.
TwoTypes == [a \in 0..1 |-> [b \in 0..1 |-> IF a = 1 /\ b = 1 THEN 0 ELSE 1]]
NoBodies == [i \in 1..6 |-> 0]
Points == [i \in 1..6 |-> 1]
\* Large particles, two of them in a body.
Bodies == <<1, 1, 0, 0>>
Diameters == <<1, 3, 1, 3>>

All == <<TRUE, TRUE, TRUE>>
InPlane == <<TRUE, TRUE, FALSE>>
AlongX == <<TRUE, FALSE, FALSE>>

\* Every cell of a slab, and the upper edge of the first axis.
SlabPlaces == {<<x, y, 0>> : x \in 0..2, y \in 0..1} \cup {<<3, 1, 0>>}
ThreePlaces == {<<0, 0, 0>>, <<1, 0, 0>>, <<2, 2, 0>>}
\* Local particles that may have left the box, ghosts beyond the ghost layer.
ZPlaces == {<<0, 0, 0>>, <<0, 2, 1>>, <<2, 0, 2>>, <<0, 0, 5>>}
ZGhosts == {<<0, 0, -1>>, <<0, 1, 3>>, <<2, 2, 5>>, <<0, 0, -3>>}
RowPlaces == {<<x, 0, 0>> : x \in 0..8}
CubePlaces == {<<0, 0, 0>>, <<2, 0, 0>>, <<0, 2, 2>>, <<1, 1, 2>>}
FourPlaces == {<<0, 0, 0>>, <<1, 0, 0>>, <<0, 2, 0>>, <<2, 2, 2>>}
SquarePlaces == {<<x, y, 0>> : x \in 0..2, y \in 0..2}

\* Local particles of type 0 anywhere.
Anywhere(k, places) ==
    {[n |-> k, pos |-> p, type |-> [i \in 1..k |-> 0]] : p \in [1..k -> places]}

\* Local particles and ghosts in a row.
A == <<0, 0, 0>>
B == <<1, 0, 0>>
C == <<3, 0, 0>>
EventPlaces == {A, B, C}
EventStarts == {[n |-> 2, pos |-> <<A, B>>, type |-> <<0, 0>>],
                [n |-> 2, pos |-> <<A, C>>, type |-> <<0, 1>>]}
EventArrivals == {[n |-> 1, pos |-> <<A, C>>, type |-> <<0, 0>>],
                  [n |-> 2, pos |-> <<A, B, C, B>>, type |-> <<0, 0, 0, 0>>],
                  [n |-> 0, pos |-> <<B>>, type |-> <<0>>]}

\* One particle per leaf: trees of every shape.
OnePerLeaf == INSTANCE GPUTree WITH
    NDim <- 3, RList <- OneType, Body <- NoBodies, Diam <- Points,
    DiameterShift <- FALSE, GhostPlaces <- {}, NGhosts <- 0, Bits <- 2,
    InOrder <- TRUE, Size <- <<3, 3, 1>>, Periodic <- InPlane, N <- 4,
    Places <- SlabPlaces, PerLeaf <- 1, MaxEqual <- 2

\* Two types, two particles per leaf, a ghost.
TwoKinds == INSTANCE GPUTree WITH
    NDim <- 3, RList <- TwoTypes, Body <- NoBodies, Diam <- Points,
    DiameterShift <- FALSE, GhostPlaces <- {<<2, 1, 0>>}, NGhosts <- 1,
    Bits <- 2, InOrder <- TRUE, Size <- <<3, 3, 1>>, Periodic <- InPlane,
    N <- 4, Places <- ThreePlaces, PerLeaf <- 2, MaxEqual <- 4

\* Between two neighbors along z: ghosts may be beyond the ghost layer.
Ghosts == INSTANCE GPUTree WITH
    NDim <- 3, RList <- OneType, Body <- NoBodies, Diam <- Points,
    DiameterShift <- FALSE, GhostPlaces <- ZGhosts, NGhosts <- 2, Bits <- 2,
    InOrder <- TRUE, Size <- <<3, 3, 3>>, Periodic <- InPlane, N <- 2,
    Places <- ZPlaces, PerLeaf <- 1, MaxEqual <- 2

\* Particles with diameters, two of them in a body.
Wide == INSTANCE GPUTree WITH
    NDim <- 3, RList <- OneType, Body <- Bodies, Diam <- Diameters,
    DiameterShift <- TRUE, GhostPlaces <- {}, NGhosts <- 0, Bits <- 2,
    InOrder <- TRUE, Size <- <<9, 1, 1>>, Periodic <- AlongX, N <- 4,
    Places <- RowPlaces, PerLeaf <- 2, MaxEqual <- 4

\* One build over four particles in a periodic cube.
Built == INSTANCE AABBTree WITH
    NDim <- 3, RList <- OneType, Body <- NoBodies, Diam <- Points,
    DiameterShift <- FALSE, Arrivals <- {}, NODE_CAPACITY <- 1, Full <- TRUE,
    Events <- {}, MaxEvents <- 1, Periodic <- All, Places <- CubePlaces,
    Boxes <- {<<3, 3, 3>>}, Starts <- Anywhere(4, CubePlaces)

\* Builds with moves, new types, migrations and boxes between them.
Changing == INSTANCE AABBTree WITH
    NDim <- 3, RList <- TwoTypes, Body <- NoBodies, Diam <- Points,
    DiameterShift <- FALSE, Arrivals <- EventArrivals, NODE_CAPACITY <- 2,
    Full <- FALSE, Events <- {"move", "type", "migrate", "box"},
    MaxEvents <- 2, Periodic <- AlongX, Places <- EventPlaces,
    Boxes <- {<<4, 1, 1>>, <<5, 1, 1>>}, Starts <- EventStarts

\* A tree whose boxes are updated one by one.
Updated == INSTANCE AABBTree WITH
    NDim <- 3, RList <- OneType, Body <- NoBodies, Diam <- Points,
    DiameterShift <- FALSE, Arrivals <- {}, NODE_CAPACITY <- 1, Full <- TRUE,
    Events <- {"update"}, MaxEvents <- 1, Periodic <- All,
    Places <- FourPlaces, Boxes <- {<<3, 3, 3>>},
    Starts <- Anywhere(3, FourPlaces)

\* Particles with diameters, two of them in a body.
Thick == INSTANCE AABBTree WITH
    NDim <- 3, RList <- OneType, Body <- Bodies, Diam <- Diameters,
    DiameterShift <- TRUE, Arrivals <- {}, NODE_CAPACITY <- 1, Full <- TRUE,
    Events <- {}, MaxEvents <- 1, Periodic <- AlongX, Places <- RowPlaces,
    Boxes <- {<<9, 1, 1>>},
    Starts <- {b \in Anywhere(4, RowPlaces) : b.pos[1][1] = 0}

ASSUME TreesAssumption ==
    /\ OnePerLeaf!GeometryAssumption
    /\ OnePerLeaf!GPUTreeAssumption
    /\ TwoKinds!GeometryAssumption
    /\ TwoKinds!GPUTreeAssumption
    /\ Ghosts!GeometryAssumption
    /\ Ghosts!GPUTreeAssumption
    /\ Wide!GeometryAssumption
    /\ Wide!GPUTreeAssumption
    /\ Built!GeometryAssumption
    /\ Built!AABBTreeAssumption
    /\ Changing!GeometryAssumption
    /\ Changing!AABBTreeAssumption
    /\ Updated!GeometryAssumption
    /\ Updated!AABBTreeAssumption
    /\ Thick!GeometryAssumption
    /\ Thick!AABBTreeAssumption

mcvars == <<part, pos, type, phase, map, leaf, parent_sib, aabbs,
            m_node_locks, thread, nlist, size, n, ntypes, max_n,
            m_max_num_changed, m_type_changed, m_remap_particles,
            m_box_changed, m_map_pid_tree, m_num_per_type, m_type_head,
            m_image_list, m_aabb_trees, current, events>>

\* What the parts on GPUTree leave alone.
besideGPUTree == <<part, size, n, ntypes, max_n, m_max_num_changed,
                   m_type_changed, m_remap_particles, m_box_changed,
                   m_map_pid_tree, m_num_per_type, m_type_head, m_image_list,
                   m_aabb_trees, current, events>>
BesideGPUTree ==
    /\ size = Off /\ n = Off /\ ntypes = Off /\ max_n = Off
    /\ m_max_num_changed = Off /\ m_type_changed = Off
    /\ m_remap_particles = Off /\ m_box_changed = Off /\ m_map_pid_tree = Off
    /\ m_num_per_type = Off /\ m_type_head = Off /\ m_image_list = Off
    /\ m_aabb_trees = Off /\ current = Off /\ events = Off

\* What the parts on AABBTree leave alone.
besideAABBTree == <<part, phase, map, leaf, parent_sib, aabbs, m_node_locks,
                    thread>>
BesideAABBTree ==
    /\ phase = Off /\ map = Off /\ leaf = Off /\ parent_sib = Off
    /\ aabbs = Off /\ m_node_locks = Off /\ thread = Off

MCInit ==
    \/ part = "leaves" /\ OnePerLeaf!Init /\ BesideGPUTree
    \/ part = "types" /\ TwoKinds!Init /\ BesideGPUTree
    \/ part = "ghosts" /\ Ghosts!Init /\ BesideGPUTree
    \/ part = "wide" /\ Wide!Init /\ BesideGPUTree
    \/ part = "build" /\ Built!Init /\ BesideAABBTree
    \/ part = "events" /\ Changing!Init /\ BesideAABBTree
    \/ part = "update" /\ Updated!Init /\ BesideAABBTree
    \/ part = "thick" /\ Thick!Init /\ BesideAABBTree

MCNext ==
    \/ part = "leaves" /\ OnePerLeaf!Next /\ UNCHANGED besideGPUTree
    \/ part = "types" /\ TwoKinds!Next /\ UNCHANGED besideGPUTree
    \/ part = "ghosts" /\ Ghosts!Next /\ UNCHANGED besideGPUTree
    \/ part = "wide" /\ Wide!Next /\ UNCHANGED besideGPUTree
    \/ part = "build" /\ Built!Next /\ UNCHANGED besideAABBTree
    \/ part = "events" /\ Changing!Next /\ UNCHANGED besideAABBTree
    \/ part = "update" /\ Updated!Next /\ UNCHANGED besideAABBTree
    \/ part = "thick" /\ Thick!Next /\ UNCHANGED besideAABBTree

MCSpec == MCInit /\ [][MCNext]_mcvars

-----------------------------------------------------------------------------
(* Properties *)

\* Once the hierarchy is there every node but the roots is the child of one
\* node, and every internal node covers leaves that follow each other. When
\* the threads that climb the tree have ended every internal node's box
\* encloses its leaves, in whatever order the threads met. The build stops for
\* a local particle that left the box, never for a ghost beyond the ghost
\* layer of the last axis.
TreesRight ==
    /\ part = "leaves" =>
          /\ OnePerLeaf!TypeOK /\ OnePerLeaf!Hierarchy /\ OnePerLeaf!Enclosing
    /\ part = "types" =>
          /\ TwoKinds!TypeOK /\ TwoKinds!Hierarchy /\ TwoKinds!Enclosing
    /\ part = "ghosts" => Ghosts!TypeOK /\ Ghosts!OnlyLocalStop
    /\ part = "wide" => Wide!TypeOK
    /\ part = "build" => Built!TypeOK
    /\ part = "events" => Changing!TypeOK
    /\ part = "update" => Updated!TypeOK
    /\ part = "thick" => Thick!TypeOK

\* After a build every particle has exactly the neighbors within its list
\* radius in any periodic image, each once, on the host and on the GPU. A
\* query returns every particle whose box overlaps the box asked for, after
\* updates of single particles too.
NeighborsExact ==
    /\ part = "leaves" => OnePerLeaf!ListExact
    /\ part = "types" => TwoKinds!ListExact
    /\ part = "ghosts" => Ghosts!ListExact
    /\ part = "wide" => Wide!ListExact
    /\ part = "build" => Built!ListExact /\ Built!QueryComplete
    /\ part = "events" => Changing!ListExact
    /\ part = "thick" => Thick!ListExact
    /\ part = "update" => Updated!QueryComplete

-----------------------------------------------------------------------------
(* Two dimensions: a run of its own                                        *)

Flat == INSTANCE AABBTree WITH
    NDim <- 2, Periodic <- All, RList <- OneType, Body <- NoBodies, Diam <- Points,
    DiameterShift <- FALSE, Places <- SquarePlaces, Boxes <- {<<3, 3, 1>>},
    Starts <- Anywhere(2, SquarePlaces), Arrivals <- {}, NODE_CAPACITY <- 1,
    Full <- TRUE, Events <- {}, MaxEvents <- 1

FlatSpec ==
    /\ part = "flat" /\ Flat!Init /\ BesideAABBTree
    /\ [][Flat!Next /\ UNCHANGED besideAABBTree]_mcvars

\* A system in two dimensions has the neighbors within the list radius as well:
\* the z extent of its box is not periodic for the list.
FlatListExact == Flat!ListExact
=============================================================================
