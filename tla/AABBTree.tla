------------------------------ MODULE AABBTree ------------------------------
(***************************************************************************)
(* NeighborListTree, the neighbor list of the host with one AABBTree per   *)
(* type, and the tree itself: buildTree(), query() and update().           *)
(*                                                                         *)
(* The list keeps a map of particles to places in the array of boxes from  *)
(* one build to the next, until one of the signals of the particle data    *)
(* asks for a new one.  The actions between builds are the events of the   *)
(* particle data with the signals they send.  How many neighbors fit into  *)
(* the list is left to the model of the list's storage.                    *)
(***************************************************************************)
EXTENDS TreeGeometry

CONSTANTS
    Places,         \* positions
    Boxes,          \* boxes that the simulation may have
    Starts,         \* local particles (n), positions and types at the start
    Arrivals,       \* the same after a migration
    NODE_CAPACITY,  \* particles in a leaf
    Full,           \* TRUE: storage mode full, FALSE: half
    Events,         \* the kinds of events between builds that happen
    MaxEvents       \* bound on these events

AABBTreeAssumption ==
    /\ \A size \in Boxes : BoxFits(size)
    /\ NODE_CAPACITY \in Nat \ {0} /\ Full \in BOOLEAN /\ MaxEvents \in Nat
    /\ Type = 0..(Cardinality(Type) - 1)

VARIABLES
    size,         \* the box
    pos, type,    \* by particle, local particles first
    n,            \* local particles
    ntypes,       \* m_pdata->getNTypes()
    max_n,        \* m_pdata->getMaxN()
    m_max_num_changed, m_type_changed, m_remap_particles, m_box_changed,
    m_map_pid_tree,  \* particle -> its place among those of its type
    m_num_per_type, m_type_head,
    m_image_list,
    m_aabb_trees, \* type -> nodes and mapping
    nlist,        \* particle -> neighbors
    current,      \* "list", "trees" or "none": what is up to date
    events        \* events so far

pdata == <<size, pos, type, n, ntypes, max_n>>
flags == <<m_max_num_changed, m_type_changed, m_remap_particles, m_box_changed>>
maps == <<m_map_pid_tree, m_num_per_type, m_type_head, m_image_list>>
vars == <<pdata, flags, maps, m_aabb_trees, nlist, current, events>>

Pid == 1..Len(pos)

-----------------------------------------------------------------------------
(* The tree.  Nodes are counted from 1 in the order of their allocation; 0  *)
(* is INVALID_NODE.                                                         *)

Center2(box, a) == box.lo[a] + box.hi[a]
Extent(box, a) == box.hi[a] - box.lo[a]

\* The axis that is split.
SplitAxis(box) ==
    IF Extent(box, 1) > Extent(box, 2) /\ Extent(box, 1) > Extent(box, 3) THEN 1
    ELSE IF Extent(box, 2) > Extent(box, 3) THEN 2 ELSE 3

Swap(s, i, j) == [s EXCEPT ![i] = s[j], ![j] = s[i]]

\* The loop over the boxes: those on the right side are swapped with the last one
\* that is not known to be there.  The result is the sequence and the size of the
\* left side.
RECURSIVE Partition(_, _, _, _, _)
Partition(s, i, right, axis, mid) ==
    IF i > right THEN <<s, right>>
    ELSE IF Center2(s[i].box, axis) < mid THEN Partition(s, i + 1, right, axis, mid)
    ELSE Partition(Swap(s, i, right), i, right - 1, axis, mid)

\* A side that is empty borrows one particle.
Borrow(left, len) == IF left = len THEN len - 1 ELSE IF left = 0 THEN 1 ELSE left

FitsLeaf(len) == len <= NODE_CAPACITY

\* The nodes of a tree over the boxes s, the first of which has index base.
RECURSIVE buildNode(_, _, _)
buildNode(s, parent, base) ==
    LET box == Hull([k \in DOMAIN s |-> s[k].box])
        axis == SplitAxis(box)
        split == IF Len(s) = 2 THEN <<s, 2>> ELSE Partition(s, 1, Len(s), axis, Center2(box, axis))
        at == Borrow(split[2], Len(s))
        left == buildNode(SubSeq(split[1], 1, at), base, base + 1)
        right == buildNode(SubSeq(split[1], at + 1, Len(s)), base, base + 1 + Len(left))
    IN  IF FitsLeaf(Len(s))
        THEN <<[box |-> box, left |-> 0, right |-> 0, parent |-> parent, skip |-> 0,
                particles |-> [k \in DOMAIN s |-> s[k].idx], tags |-> [k \in DOMAIN s |-> s[k].tag]]>>
        ELSE <<[box |-> box, left |-> base + 1, right |-> base + 1 + Len(left), parent |-> parent,
                skip |-> 0, particles |-> <<>>, tags |-> <<>>]>> \o left \o right

\* The nodes under node c, and itself.
RECURSIVE updateSkip(_, _)
updateSkip(nodes, c) ==
    IF nodes[c].left = 0 THEN 1
    ELSE updateSkip(nodes, nodes[c].left) + updateSkip(nodes, nodes[c].right) + 1

buildTree(aabbs) ==
    LET nodes == buildNode([k \in DOMAIN aabbs |-> [box |-> aabbs[k].box, tag |-> aabbs[k].tag, idx |-> k]], 0, 1)
    IN  [nodes |-> [c \in DOMAIN nodes |->
                       [nodes[c] EXCEPT !.skip = IF nodes[c].left = 0 THEN 0 ELSE updateSkip(nodes, c) - 1]],
         mapping |-> [k \in DOMAIN aabbs |-> CHOOSE c \in DOMAIN nodes : k \in ToSet(nodes[c].particles)]]

\* The leaves that a search with a box comes to, in order, from node c.
RECURSIVE Leaves(_, _, _)
Leaves(nodes, box, c) ==
    IF c > Len(nodes) THEN <<>>
    ELSE IF ~overlap(nodes[c].box, box) THEN Leaves(nodes, box, c + nodes[c].skip + 1)
    ELSE IF nodes[c].left = 0 THEN <<c>> \o Leaves(nodes, box, c + 1)
    ELSE Leaves(nodes, box, c + 1)

query(tree, box) ==
    LET hit == Leaves(tree.nodes, box, 1)
    IN  FoldLeft(LAMBDA hits, c : hits \o tree.nodes[c].particles, <<>>, hit)

\* The boxes from node c to the root, from those of the children.
RECURSIVE Climb(_, _)
Climb(nodes, c) ==
    IF c = 0 THEN nodes
    ELSE Climb([nodes EXCEPT ![c].box = merge(nodes[nodes[c].left].box, nodes[nodes[c].right].box)],
               nodes[c].parent)

\* AABBTree::update()
update(tree, idx, box) ==
    LET c == tree.mapping[idx]
    IN  [tree EXCEPT !.nodes =
            IF contains(tree.nodes[c].box, box) THEN @
            ELSE Climb([@ EXCEPT ![c].box = merge(@, box)], tree.nodes[c].parent)]

-----------------------------------------------------------------------------
(* NeighborListTree                                                         *)

\* Particles by type, as mapParticlesByType() counts them.
Place(i) == Cardinality({j \in 1..(i - 1) : type[j] = type[i]})
NumPerType(t) == Cardinality({i \in Pid : type[i] = t})
HeadOf(t) == MapThenSumSet(NumPerType, 0..(t - 1))

\* slotRemapParticles() is called when the number of types has changed.
NeedsRemap == m_remap_particles \/ m_type_changed

\* setupTree(): the maps that a build uses.
setupTree ==
    [map |-> IF NeedsRemap THEN [i \in Pid |-> Place(i)] ELSE m_map_pid_tree,
     num |-> IF NeedsRemap THEN [t \in 0..(ntypes - 1) |-> NumPerType(t)] ELSE m_num_per_type,
     head |-> IF NeedsRemap THEN [t \in 0..(ntypes - 1) |-> HeadOf(t)] ELSE m_type_head,
     images |-> IF m_box_changed THEN image_list(size) ELSE m_image_list]

\* The array of boxes after buildTree() has filled it: a later particle overwrites
\* an earlier one, and a place that none fills holds a default.
FilledBoxes(s) ==
    LET filling(k) == {j \in Pid : s.head[type[j]] + s.map[j] + 1 = k}
    IN  [k \in Pid |->
            IF filling(k) = {} THEN [box |-> AABB(Zero, 0), tag |-> 1]
            ELSE [box |-> AABB(pos[Max(filling(k))], 0), tag |-> Max(filling(k))]]

Trees(s) ==
    LET aabbs == FilledBoxes(s)
    IN  [t \in {u \in DOMAIN s.num : s.num[u] > 0} |->
            buildTree([k \in 1..s.num[t] |-> aabbs[s.head[t] + k]])]

\* The neighbors of i in the tree of type t, for one image vector.
Found(s, trees, i, t, v) ==
    LET q == Shift(pos[i], v)
        r == RList[type[i]][t]
        hit == Leaves(trees[t].nodes, AABB(q, r_list(r)), 1)
    IN  SelectSeq(FoldLeft(LAMBDA tags, c : tags \o trees[t].nodes[c].tags, <<>>, hit),
                  LAMBDA j : IsPair(i, j, r, Dist2(q, pos[j])) /\ (Full \/ i < j))

traverseTree(s, trees) ==
    [i \in 1..n |->
        LET pass == SelectSeq([t \in 1..ntypes |-> t - 1],
                              LAMBDA t : s.num[t] > 0 /\ RList[type[i]][t] > 0)
        IN  FlattenSeq([k \in DOMAIN pass |->
                FlattenSeq([m \in DOMAIN s.images |-> Found(s, trees, i, pass[k], s.images[m])])])]

buildNlist ==
    LET s == setupTree
    IN  /\ current # "list"
        /\ m_map_pid_tree' = s.map /\ m_num_per_type' = s.num /\ m_type_head' = s.head
        /\ m_image_list' = s.images
        /\ m_max_num_changed' = FALSE /\ m_type_changed' = FALSE
        /\ m_remap_particles' = FALSE /\ m_box_changed' = FALSE
        /\ m_aabb_trees' = Trees(s)
        /\ nlist' = traverseTree(s, m_aabb_trees')
        /\ current' = "list"
        /\ UNCHANGED <<pdata, events>>

-----------------------------------------------------------------------------
(* Between builds                                                           *)

Happens(kind) == kind \in Events /\ events < MaxEvents /\ events' = events + 1

Stale == current' = "none" /\ UNCHANGED <<maps, m_aabb_trees, nlist>>

\* Particles move, and no signal is sent.
Move ==
    /\ Happens("move")
    /\ \E i \in Pid, p \in Places : pos' = [pos EXCEPT ![i] = p] /\ p # pos[i]
    /\ Stale /\ UNCHANGED <<size, type, n, ntypes, max_n, flags>>

\* Mutation: setType() sends no signal.
setTypeSilent ==
    /\ Happens("type")
    /\ \E i \in 1..n, t \in 0..(ntypes - 1) : type' = [type EXCEPT ![i] = t] /\ t # type[i]
    /\ Stale /\ UNCHANGED <<size, pos, n, ntypes, max_n, flags>>

\* setType() sends the signal of a sort.
setType ==
    /\ Happens("type")
    /\ \E i \in 1..n, t \in 0..(ntypes - 1) : type' = [type EXCEPT ![i] = t] /\ t # type[i]
    /\ m_remap_particles' = TRUE
    /\ Stale /\ UNCHANGED <<size, pos, n, ntypes, max_n, m_max_num_changed, m_type_changed, m_box_changed>>

addType ==
    /\ Happens("type")
    /\ ntypes < Cardinality(Type)
    /\ ntypes' = ntypes + 1 /\ m_type_changed' = TRUE
    /\ Stale /\ UNCHANGED <<size, pos, type, n, max_n, m_max_num_changed, m_remap_particles, m_box_changed>>

\* Particles migrate, which sends the signal of a sort, and ghosts are exchanged,
\* which sends none; the arrays may have grown.
communicate ==
    /\ Happens("migrate")
    /\ \E b \in Arrivals :
         /\ n' = b.n /\ pos' = b.pos /\ type' = b.type
         /\ max_n' = IF Len(b.pos) > max_n THEN Len(b.pos) ELSE max_n
    /\ m_max_num_changed' = (m_max_num_changed \/ max_n' # max_n)
    /\ m_remap_particles' = TRUE
    /\ Stale /\ UNCHANGED <<size, ntypes, m_type_changed, m_box_changed>>

\* The box changes, and positions with it.
setBox ==
    /\ Happens("box")
    /\ size' \in Boxes \ {size}
    /\ m_box_changed' = TRUE
    /\ Stale /\ UNCHANGED <<pos, type, n, ntypes, max_n, m_max_num_changed, m_type_changed, m_remap_particles>>

\* A particle moves and the trees are told.
UpdateTree ==
    /\ Happens("update")
    /\ current # "none"
    /\ \E i \in Pid, p \in Places :
         /\ pos' = [pos EXCEPT ![i] = p]
         /\ m_aabb_trees' = [m_aabb_trees EXCEPT ![type[i]] = update(@, m_map_pid_tree[i] + 1, AABB(p, 0))]
    /\ current' = "trees"
    /\ UNCHANGED <<size, type, n, ntypes, max_n, flags, maps, nlist>>

Init ==
    /\ size \in Boxes
    /\ \E b \in Starts : n = b.n /\ pos = b.pos /\ type = b.type
    /\ ntypes = Max(ToSet(type)) + 1
    /\ max_n = Len(pos)
    /\ m_max_num_changed = TRUE /\ m_type_changed = TRUE
    /\ m_remap_particles = TRUE /\ m_box_changed = TRUE
    /\ m_map_pid_tree = <<>> /\ m_num_per_type = <<>> /\ m_type_head = <<>>
    /\ m_image_list = <<>>
    /\ m_aabb_trees = <<>> /\ nlist = <<>> /\ current = "none" /\ events = 0

Next == buildNlist \/ Move \/ setType \/ addType \/ communicate \/ setBox \/ UpdateTree

Spec == Init /\ [][Next]_vars

-----------------------------------------------------------------------------
(* Properties                                                               *)

\* Kinds of values, and the indices of nodes.
TypeOK ==
    /\ type \in [Pid -> 0..(ntypes - 1)] /\ n <= Len(pos) /\ Len(pos) <= max_n
    /\ current \in {"list", "trees", "none"}
    /\ \A t \in DOMAIN m_aabb_trees :
         LET nodes == m_aabb_trees[t].nodes
         IN  \A c \in DOMAIN nodes :
               /\ nodes[c].left \in 0..Len(nodes) /\ nodes[c].right \in 0..Len(nodes)
               /\ nodes[c].parent \in 0..Len(nodes)
               /\ Len(nodes[c].particles) <= NODE_CAPACITY

\* The neighbors of a particle are those within reach under the minimum image
\* convention, each once, whatever happened since the last build.
ListExact ==
    current = "list" =>
        \A i \in 1..n :
            /\ IsInjective(nlist[i])
            /\ ToSet(nlist[i]) = {j \in Pid : ShouldPair(size, pos, type, i, j) /\ (Full \/ i < j)}

\* query() finds every particle that overlaps with the box, and none twice: "Search
\* through the tree and build a list of all particles that intersect with the query
\* AABB", also after calls of update().
QueryComplete ==
    current # "none" =>
        \A t \in DOMAIN m_aabb_trees, p \in Places, r \in 0..1 :
            LET hits == query(m_aabb_trees[t], AABB(p, r))
            IN  /\ IsInjective(hits)
                /\ \A i \in Pid : type[i] = t /\ overlap(AABB(pos[i], 0), AABB(p, r))
                                    => (m_map_pid_tree[i] + 1) \in ToSet(hits)
=============================================================================
