---------------------------- MODULE TreeGeometry ----------------------------
(***************************************************************************)
(* What the two neighbor lists with bounding volume trees share: boxes     *)
(* around points, the periodic images that a traversal looks at            *)
(* (updateImageVectors(), the same code in NeighborListTree and            *)
(* NeighborListGPUTree), the test that makes a pair, and the neighbors     *)
(* that a particle should have.  Lengths are whole numbers.                *)
(***************************************************************************)
EXTENDS Integers, Sequences, SequencesExt, FiniteSets, FiniteSetsExt

CONSTANTS
    NDim,           \* 2 or 3 dimensions
    Periodic,       \* axis -> the local box is periodic along it
    RList,          \* type, type -> r_cut + r_buff, or 0 for pairs that do not interact
    Body,           \* particle -> its rigid body, or 0
    Diam,           \* particle -> its diameter, an odd number
    DiameterShift   \* m_diameter_shift

Axis == 1..3
Type == DOMAIN RList
m_d_max == Max({Diam[i] : i \in DOMAIN Diam})

\* The radius of the search for a list of radius r.
r_list(r) == IF DiameterShift THEN r + m_d_max - 1 ELSE r
rmax == r_list(Max({RList[a][b] : a \in Type, b \in Type}))

GeometryAssumption ==
    /\ NDim \in {2, 3} /\ DiameterShift \in BOOLEAN
    /\ Periodic \in [Axis -> BOOLEAN]
    /\ \A i \in DOMAIN Diam : Diam[i] % 2 = 1

Zero == <<0, 0, 0>>
Dist2(p, q) == (p[1] - q[1])^2 + (p[2] - q[2])^2 + (p[3] - q[3])^2
Shift(p, v) == [a \in Axis |-> p[a] + v[a]]

-----------------------------------------------------------------------------
(* Bounding boxes                                                           *)

AABB(p, r) == [lo |-> [a \in Axis |-> p[a] - r], hi |-> [a \in Axis |-> p[a] + r]]

overlap(b, c) == \A a \in Axis : ~(b.hi[a] < c.lo[a] \/ b.lo[a] > c.hi[a])

merge(b, c) == [lo |-> [a \in Axis |-> IF b.lo[a] < c.lo[a] THEN b.lo[a] ELSE c.lo[a]],
                hi |-> [a \in Axis |-> IF b.hi[a] > c.hi[a] THEN b.hi[a] ELSE c.hi[a]]]

contains(b, c) == \A a \in Axis : b.lo[a] <= c.lo[a] /\ c.hi[a] <= b.hi[a]

\* The box of several boxes.
Hull(boxes) == FoldLeft(merge, Head(boxes), Tail(boxes))

-----------------------------------------------------------------------------
(* Images                                                                   *)

sys3d == NDim = 3

\* The box is large enough for the minimum image convention: updateImageVectors()
\* throws otherwise.
BoxFits(size) == \A a \in Axis : Periodic[a] /\ (a = 3 => sys3d) => size[a] > 2 * rmax

m_n_images == 3 ^ Cardinality({a \in Axis : Periodic[a] /\ (a = 3 => sys3d)})

\* The triples (i, j, k) in the order of the loops.
Triples == [n \in 1..27 |-> <<((n - 1) \div 9) - 1, (((n - 1) \div 3) % 3) - 1, ((n - 1) % 3) - 1>>]

\* The conditions under which the loops write an image.
Kept(v) ==
    /\ v # Zero
    /\ ~(v[1] # 0 /\ ~Periodic[1])
    /\ ~(v[2] # 0 /\ ~Periodic[2])
    /\ ~(~sys3d \/ (v[3] # 0 /\ ~Periodic[3]))

\* The list of images after updateImageVectors(): entries that no iteration has
\* written are zero from their allocation.
image_list(size) ==
    LET written == SelectSeq(Triples, Kept)
    IN  [n \in 1..m_n_images |->
            IF n > 1 /\ n - 1 <= Len(written) THEN [a \in Axis |-> written[n - 1][a] * size[a]]
            ELSE Zero]

-----------------------------------------------------------------------------
(* Pairs                                                                    *)

excluded(i, j) == i = j \/ (Body[i] # 0 /\ Body[i] = Body[j])

\* What is added to the square of the list radius r for the diameters.
sqshift(i, j, r) ==
    LET d == ((Diam[i] + Diam[j]) \div 2) - 1
    IN  IF DiameterShift THEN (d + 2 * r) * d ELSE 0

\* Particle j is a neighbor of i at squared distance d2.
IsPair(i, j, r, d2) == ~excluded(i, j) /\ d2 <= r^2 + sqshift(i, j, r)

-----------------------------------------------------------------------------
(* Reference                                                                *)

\* The distance of p to the nearest image of q.
MinDist2(size, p, q) ==
    Min({Dist2(Shift(p, [a \in Axis |-> v[a] * size[a]]), q) :
            v \in {w \in [Axis -> -1..1] :
                     \A a \in Axis : w[a] # 0 => Periodic[a] /\ (a = 3 => sys3d)}})

\* Surfaces are within the list radius of their types, and the pair is not excluded.
ShouldPair(size, p, t, i, j) ==
    LET r == RList[t[i]][t[j]]
        reach == IF DiameterShift THEN 2 * r + Diam[i] + Diam[j] - 2 ELSE 2 * r
    IN  r > 0 /\ ~excluded(i, j) /\ 4 * MinDist2(size, p[i], p[j]) <= reach^2
=============================================================================
