------------------------------ MODULE GPUTree ------------------------------
(***************************************************************************)
(* One build of NeighborListGPUTree: Morton codes, the sort by type and    *)
(* code, leaves, the hierarchy of every type's tree (one thread for every  *)
(* internal node), the boxes and ropes of the internal nodes (one thread   *)
(* for every leaf, which climbs the tree), and the traversal.              *)
(*                                                                         *)
(* Kernels follow each other in one stream, so that the threads of one     *)
(* kernel only meet each other.  The threads of the kernel that climbs     *)
(* the tree interleave; those of the other kernels write to places of      *)
(* their own, or any one of them wins.                                     *)
(***************************************************************************)
EXTENDS TreeGeometry, Bitwise

CONSTANTS
    Size,         \* axis -> length of the local box
    N,            \* local particles
    NGhosts,      \* ghost particles
    Places,       \* positions of local particles
    GhostPlaces,  \* positions of ghost particles
    Bits,         \* Morton code bits per axis
    PerLeaf,      \* NLIST_GPU_PARTICLES_PER_LEAF
    MaxEqual,     \* bound on the particles of a type with the same Morton code
    InOrder       \* TRUE: other threads see the writes of a thread before its atomics

NTot == N + NGhosts
Pid == 1..NTot
NTypes == Cardinality(Type)
Bins == 2^Bits

GPUTreeAssumption ==
    /\ N \in Nat \ {0} /\ NGhosts \in Nat /\ Bits \in Nat \ {0}
    /\ PerLeaf \in Nat \ {0} /\ MaxEqual \in Nat \ {0} /\ InOrder \in BOOLEAN
    /\ BoxFits(Size)
    /\ Type = 0..(NTypes - 1)

VARIABLES
    pos, type,     \* the particles
    phase,         \* the kernel that runs next, "done" or "error"
    map,           \* m_map_tree_pid: particles in the order of the leaves
    leaf,          \* leaf -> its type, first place in map, size, box and code
    parent_sib,    \* m_tree_parent_sib, by node
    aabbs,         \* m_tree_aabbs, by node: box, rope and left child
    m_node_locks,  \* by internal node
    thread,        \* the thread of each leaf
    nlist          \* particle -> its neighbors

vars == <<pos, type, phase, map, leaf, parent_sib, aabbs, m_node_locks, thread, nlist>>

-----------------------------------------------------------------------------
(* Morton codes                                                             *)

ghost_width(a) == IF Periodic[a] \/ (a = 3 /\ ~sys3d) THEN 0 ELSE rmax

\* The position along an axis as a fraction num/den of the box and its ghost layer.
Num(p, a) == p[a] + ghost_width(a)
Den(a) == Size[a] + 2 * ghost_width(a)
Outside(p, a) == Num(p, a) < 0 \/ Num(p, a) > Den(a)

\* Particle i stops the build: the last axis alone is looked at for local
\* particles only.
OutOfBounds(i) ==
    \/ Outside(pos[i], 1) \/ Outside(pos[i], 2)
    \/ Outside(pos[i], 3) /\ i <= N

Bin(p, a) ==
    LET b == (Num(p, a) * Bins) \div Den(a)
    IN  IF ~Periodic[a] THEN (IF b < 0 THEN 0 ELSE IF b >= Bins THEN Bins - 1 ELSE b)
        ELSE IF b = Bins THEN 0 ELSE b

\* Bit n of v, moved to bit 3 n.
expandBits(v) == MapThenSumSet(LAMBDA n : ((v \div 2^n) % 2) * 8^n, 0..(Bits - 1))

morton_code(p) == 4 * expandBits(Bin(p, 1)) + 2 * expandBits(Bin(p, 2)) + expandBits(Bin(p, 3))

Code == [p \in Places \cup GhostPlaces |-> morton_code(p)]

\* The bits that hold a type.
calcTypeBits ==
    IF NTypes > 1
    THEN 1 + Max({n \in 0..NTypes : (NTypes - 1) \div 2^n >= 1})
    ELSE 0

\* The radix sort looks at the bits of the code and of the type, and is stable.
sortMortonCodes ==
    LET key(i) == (type[i] * 8^Bits + Code[pos[i]]) % 2^(3 * Bits + calcTypeBits)
    IN  SortSeq([i \in Pid |-> i],
                LAMBDA i, j : key(i) < key(j) \/ (key(i) = key(j) /\ i < j))

-----------------------------------------------------------------------------
(* Leaves and roots (countParticlesAndTrees), nodes counted from 0          *)

num_per_type(t) == Cardinality({i \in Pid : type[i] = t})
NLeafOf(t) == (num_per_type(t) + PerLeaf - 1) \div PerLeaf
LeafHead(t) == MapThenSumSet(NLeafOf, {u \in Type : u < t})
Present == {t \in Type : num_per_type(t) > 0}

\* What has to be taken off the first particle of a leaf so that there are no holes.
leaf_offset(t) ==
    MapThenSumSet(LAMBDA u : (PerLeaf - (num_per_type(u) % PerLeaf)) % PerLeaf,
                  {u \in Type : u < t})

\* A leaf holds the particles of one type from its start, without the offset, to
\* its end or to the end of the type.
MakeLeaf(l) ==
    LET t == CHOOSE u \in Present : LeafHead(u) <= l /\ l < LeafHead(u) + NLeafOf(u)
        start == l * PerLeaf - leaf_offset(t)
        end == MapThenSumSet(num_per_type, {u \in Type : u <= t})
        n == IF end - start > PerLeaf THEN PerLeaf ELSE end - start
    IN  [type |-> t, start |-> start + 1,
         n |-> n,
         box |-> Hull([k \in 1..n |-> AABB(pos[map[start + k]], 0)]),
         code |-> Code[pos[map[start + 1]]]]

m_n_leaf == Cardinality(DOMAIN leaf)
Leaf == DOMAIN leaf
Node == 0..(2 * m_n_leaf - Cardinality(Present) - 1)
Internal == Node \ Leaf

\* The internal nodes of the types before t.
InternalHead(t) == MapThenSumSet(LAMBDA u : NLeafOf(u) - 1, {u \in Present : u < t})

tree_root(t) == IF NLeafOf(t) = 1 THEN LeafHead(t) ELSE m_n_leaf + InternalHead(t)

Members(l) == [k \in 1..leaf[l].n |-> map[leaf[l].start + k - 1]]

-----------------------------------------------------------------------------
(* Hierarchy                                                                *)

clz(v) == IF v = 0 THEN 32 ELSE 31 - Max({n \in 0..30 : v \div 2^n >= 1})

\* The common prefix of the codes of leaves i and j of a tree with leaves lo..hi.
delta(i, j, lo, hi) ==
    LET a == leaf[i].code
        b == leaf[j].code
    IN  IF j \notin lo..hi THEN -1
        ELSE IF a = b THEN 32 + clz((i - lo) ^^ (j - lo))
        ELSE clz(a ^^ b)

\* The largest length, by powers of two, that shares more than min bits.
RECURSIVE Extent(_, _, _, _, _, _, _)
Extent(i, d, min, lo, hi, len, step) ==
    LET half == step \div 2
        new == IF delta(i, i + d * (len + half), lo, hi) > min THEN len + half ELSE len
    IN  IF half > 1 THEN Extent(i, d, min, lo, hi, new, half) ELSE new

\* The leaves of the node that begins at leaf i and goes in direction d.
RangeAlong(i, d, lo, hi) ==
    LET min == delta(i, i - d, lo, hi)
        lmax == Min({2^n : n \in {k \in 1..6 : delta(i, i + d * 2^k, lo, hi) <= min}})
        end == i + d * Extent(i, d, min, lo, hi, 0, lmax)
    IN  IF d > 0 THEN <<i, end>> ELSE <<end, i>>

determineRange(i, lo, hi) ==
    RangeAlong(i, IF delta(i, i + 1, lo, hi) > delta(i, i - 1, lo, hi) THEN 1 ELSE -1, lo, hi)

RECURSIVE Search(_, _, _, _, _)
Search(first, last, prefix, split, step) ==
    LET half == (step + 1) \div 2
        at == split + half
        new == IF at < last /\ clz(leaf[first].code ^^ leaf[at].code) > prefix
               THEN at ELSE split
    IN  IF half > 1 THEN Search(first, last, prefix, new, half) ELSE new

findSplit(first, last) ==
    IF leaf[first].code = leaf[last].code THEN (first + last) \div 2
    ELSE Search(first, last, clz(leaf[first].code ^^ leaf[last].code),
                first, last - first)

\* The type of an internal node.
NodeType(n) == CHOOSE t \in Present :
                   n - m_n_leaf \in InternalHead(t)..(InternalHead(t) + NLeafOf(t) - 2)

\* A range that is split after leaf `split`: a part is a leaf, or an internal node.
Parts(range, split, base) ==
    [left |-> IF split = range[1] THEN split ELSE base + split,
     right |-> IF split + 1 = range[2] THEN split + 1 ELSE base + split + 1]

SplitRange(range, base) == Parts(range, findSplit(range[1], range[2]), base)

\* The children of internal node n: its range of leaves, and where that is split.
Children(n) ==
    LET t == NodeType(n)
        active == Cardinality({u \in Present : u < t})
        lo == LeafHead(t)
    IN  SplitRange(determineRange(n - m_n_leaf + active, lo, lo + NLeafOf(t) - 1),
                   m_n_leaf - active)

Entry(p, s, r) == [parent |-> p, sib |-> s, sibRight |-> r]

\* Everything that the threads of the kernel, which find the children kids, write
\* about node c.
Writes(kids, c) ==
    {Entry(n, kids[n].right, TRUE) : n \in {k \in Internal : kids[k].left = c}}
    \cup {Entry(n, kids[n].left, FALSE) : n \in {k \in Internal : kids[k].right = c}}
    \cup (IF c \in Internal /\ c = tree_root(NodeType(c)) THEN {Entry(c, c, FALSE)} ELSE {})

\* What the array may hold after the kernel: any of the writes, or what was there
\* before: a leaf as its own parent, or memory that is zero.
AfterKernel(kids, c) ==
    IF Writes(kids, c) # {} THEN Writes(kids, c)
    ELSE IF c \in Leaf THEN {Entry(c, c, FALSE)} ELSE {Entry(0, 0, FALSE)}

-----------------------------------------------------------------------------
(* The kernels                                                              *)

calcMortonCodes ==
    /\ phase = "codes"
    /\ IF \E i \in Pid : OutOfBounds(i)
       THEN phase' = "error" /\ UNCHANGED map
       ELSE phase' = "merge" /\ map' = sortMortonCodes
    /\ UNCHANGED <<pos, type, leaf, parent_sib, aabbs, m_node_locks, thread, nlist>>

mergeLeafParticles ==
    /\ phase = "merge"
    /\ phase' = "hierarchy"
    /\ leaf' = [l \in 0..(MapThenSumSet(NLeafOf, Type) - 1) |-> MakeLeaf(l)]
    /\ UNCHANGED <<pos, type, map, parent_sib, aabbs, m_node_locks, thread, nlist>>

\* One of the possible entries for each node.
Outcomes(after) ==
    LET tied == {c \in Node : Cardinality(after[c]) > 1}
    IN  {[c \in Node |-> IF c \in tied THEN f[c] ELSE CHOOSE w \in after[c] : TRUE] :
            f \in {g \in [tied -> UNION {after[c] : c \in tied}] :
                     \A c \in tied : g[c] \in after[c]}}

HierarchyKernel(kids) == Outcomes([c \in Node |-> AfterKernel(kids, c)])

genTreeHierarchy ==
    /\ phase = "hierarchy"
    /\ phase' = "bubble"
    /\ parent_sib' \in HierarchyKernel([n \in Internal |-> Children(n)])
    /\ aabbs' = [c \in Node |-> [box |-> IF c \in Leaf THEN leaf[c].box ELSE AABB(Zero, 0),
                                 rope |-> -1, left |-> -1]]
    /\ m_node_locks' = [c \in Internal |-> 0]
    /\ thread' = [l \in Leaf |-> [pc |-> "arrive", node |-> l, box |-> leaf[l].box]]
    /\ UNCHANGED <<pos, type, map, leaf, nlist>>

\* Back up the tree to a left child, and over to its sibling.
RECURSIVE Rope(_)
Rope(e) ==
    IF e.sibRight THEN e.sib
    ELSE IF e.parent = e.sib THEN -1
    ELSE Rope(parent_sib[e.parent])

\* Mutation: the first thread that comes to a node goes on with it.
ArriveFirst(l) ==
    LET c == thread[l].node
        p == parent_sib[c].parent
    IN  /\ phase = "bubble" /\ thread[l].pc = "arrive"
        /\ aabbs' = [aabbs EXCEPT ![c].rope = Rope(parent_sib[c])]
        /\ IF p \in Internal
           THEN /\ m_node_locks' = [m_node_locks EXCEPT ![p] = @ + 1]
                /\ thread' = [thread EXCEPT ![l].pc = IF m_node_locks[p] = 0 THEN "merge" ELSE "end"]
           ELSE thread' = [thread EXCEPT ![l].pc = "end"] /\ UNCHANGED m_node_locks
        /\ UNCHANGED <<pos, type, phase, map, leaf, parent_sib, nlist>>

\* The thread of leaf l has come to a node: it sets the node's rope and takes a
\* number at the lock of the parent.  The second thread there goes on.
Arrive(l) ==
    LET c == thread[l].node
        p == parent_sib[c].parent
    IN  /\ phase = "bubble" /\ thread[l].pc = "arrive"
        /\ aabbs' = [aabbs EXCEPT ![c].rope = Rope(parent_sib[c])]
        /\ IF p \in Internal
           THEN /\ m_node_locks' = [m_node_locks EXCEPT ![p] = @ + 1]
                /\ thread' = [thread EXCEPT ![l].pc = IF m_node_locks[p] = 1 THEN "merge" ELSE "end"]
           ELSE thread' = [thread EXCEPT ![l].pc = "end"] /\ UNCHANGED m_node_locks
        /\ UNCHANGED <<pos, type, phase, map, leaf, parent_sib, nlist>>

\* It merges its box with the one of the sibling, into the parent.  Nothing orders
\* the write of another thread to an internal node before its atomicAdd(): the box
\* of such a sibling may still be what the memory held before.
MergeBoxes(l) ==
    LET c == thread[l].node
        e == parent_sib[c]
    IN  /\ phase = "bubble" /\ thread[l].pc = "merge"
        /\ \E seen \in {aabbs[e.sib].box}
                       \cup (IF InOrder \/ e.sib \in Leaf THEN {} ELSE {AABB(Zero, 0)}) :
             LET box == merge(thread[l].box, seen)
             IN  /\ aabbs' = [aabbs EXCEPT ![e.parent].box = box,
                                           ![e.parent].left = IF e.sibRight THEN c ELSE e.sib]
                 /\ thread' = [thread EXCEPT ![l] = [pc |-> "arrive", node |-> e.parent, box |-> box]]
        /\ UNCHANGED <<pos, type, phase, map, leaf, parent_sib, m_node_locks, nlist>>

\* The kernel ends when its threads have.
EndKernel ==
    /\ phase = "bubble"
    /\ \A l \in Leaf : thread[l].pc = "end"
    /\ phase' = "walk"
    /\ UNCHANGED <<pos, type, map, leaf, parent_sib, aabbs, m_node_locks, thread, nlist>>

\* The particles of a leaf that are neighbors of i, seen from an image of i.
Hits(i, q, r, l) == SelectSeq(Members(l), LAMBDA j : IsPair(i, j, r, Dist2(q, pos[j])))

\* The stackless search from node c, for particle i seen at q.
RECURSIVE Walk(_, _, _, _)
Walk(i, q, r, c) ==
    IF c = -1 THEN <<>>
    ELSE IF ~overlap(AABB(q, r_list(r)), aabbs[c].box) THEN Walk(i, q, r, aabbs[c].rope)
    ELSE IF aabbs[c].left # -1 THEN Walk(i, q, r, aabbs[c].left)
    ELSE Hits(i, q, r, c) \o Walk(i, q, r, aabbs[c].rope)

m_image_list == image_list(Size)

\* By type, and by image.
Neighbors(i) ==
    LET trees == SelectSeq([t \in 1..NTypes |-> t - 1],
                           LAMBDA t : RList[type[i]][t] > 0 /\ t \in Present)
    IN  FlattenSeq([k \in DOMAIN trees |->
            FlattenSeq([n \in 1..m_n_images |->
                Walk(i, Shift(pos[i], m_image_list[n]), RList[type[i]][trees[k]],
                     tree_root(trees[k]))])])

traverseTree ==
    /\ phase = "walk"
    /\ phase' = "done"
    /\ nlist' = [i \in 1..N |-> Neighbors(i)]
    /\ UNCHANGED <<pos, type, map, leaf, parent_sib, aabbs, m_node_locks, thread>>

\* Two particles that differ in nothing are the same case in either order.
Before(p, q) == p[1] * 64 + p[2] * 8 + p[3] <= q[1] * 64 + q[2] * 8 + q[3]

Init ==
    /\ pos \in {f \in [Pid -> Places \cup GhostPlaces] :
                  /\ \A i \in 1..N : f[i] \in Places
                  /\ \A i \in (N + 1)..NTot : f[i] \in GhostPlaces
                  /\ \A i \in 1..(N - 1) : Before(f[i + 1], f[i])}
    /\ type \in [Pid -> Type]
    /\ phase = "codes"
    /\ \A i \in Pid : Cardinality({j \in Pid : type[j] = type[i] /\ Code[pos[j]] = Code[pos[i]]})
                       <= MaxEqual
    /\ map = <<>> /\ leaf = <<>> /\ parent_sib = <<>> /\ aabbs = <<>>
    /\ m_node_locks = <<>> /\ thread = <<>> /\ nlist = <<>>

Next ==
    \/ calcMortonCodes \/ mergeLeafParticles \/ genTreeHierarchy
    \/ phase = "bubble" /\ \E l \in Leaf : Arrive(l) \/ MergeBoxes(l)
    \/ EndKernel \/ traverseTree

Spec == Init /\ [][Next]_vars

-----------------------------------------------------------------------------
(* Properties                                                               *)

\* Kinds of values; two threads take the lock of a node, and a root is its own parent.
TypeOK ==
    /\ phase \in {"codes", "merge", "hierarchy", "bubble", "walk", "done", "error"}
    /\ phase \in {"bubble", "walk", "done"} =>
         /\ DOMAIN aabbs = Node
         /\ \A c \in Node : parent_sib[c].parent \in Node /\ parent_sib[c].sib \in Node
         /\ \A c \in Internal : m_node_locks[c] \in 0..3
         /\ \A l \in Leaf : thread[l].node \in Node

\* The leaves below a node, from the entries of the children.
RECURSIVE Below(_)
Below(c) == IF c \in Leaf THEN {c}
            ELSE UNION {Below(d) : d \in {k \in Node : k # c /\ parent_sib[k].parent = c}}

\* buildTree() leaves "a valid tree": every node but the roots is a child of one
\* node, whose other child is its sibling, and a node has two children.
Hierarchy ==
    (phase = "bubble") =>
        /\ \A n \in Internal : Cardinality({k \in Node : k # n /\ parent_sib[k].parent = n}) = 2
        /\ \A t \in Present : tree_root(t) \in Internal =>
             Below(tree_root(t)) = {l \in Leaf : leaf[l].type = t}

\* No box is used before it is final: after the kernel the box of every node is
\* the hull of the boxes of the leaves below it.
Enclosing ==
    (phase = "walk") =>
        \A c \in Internal :
            aabbs[c].box = Hull(SetToSeq({aabbs[l].box : l \in Below(c)}))

\* The list of a particle holds each particle within r_list of it, under the
\* minimum image convention, once.
ListExact ==
    (phase = "done") =>
        \A i \in 1..N :
            /\ IsInjective(nlist[i])
            /\ ToSet(nlist[i]) = {j \in Pid : ShouldPair(Size, pos, type, i, j)}

\* "we silently ignore ghosts outside of this width": only a local particle that
\* has left the box stops the build.
OnlyLocalStop ==
    (phase = "error") => \E i \in 1..N : \E a \in Axis : Outside(pos[i], a)
=============================================================================
