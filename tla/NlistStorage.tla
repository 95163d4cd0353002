---------------------------- MODULE NlistStorage ----------------------------
(***************************************************************************)
(* The memory of a neighbor list: one flat array, in which the list of     *)
(* particle i starts at m_head_list[i] and has room for m_Nmax[type of i]  *)
(* neighbors.  The room per type is found by building the list until       *)
(* nothing overflows.  Particles are sorted, change type, come and go      *)
(* between two calls of compute(), and types are added.                    *)
(*                                                                         *)
(* Abstractions: who is a neighbor is a number per particle, since the     *)
(* geometry is the subject of CellList, AABBTree and GPUTree; when a list  *)
(* is due is the subject of NeighborList, so that an update that is not    *)
(* forced may or may not happen.  The code's chunk of 8 is a constant.     *)
(***************************************************************************)
EXTENDS Integers, Sequences, SequencesExt, FiniteSetsExt

CONSTANTS
    Chunk,      \* the room is a multiple of it: 8 in the code
    MaxN,       \* bound of the model: particles of the rank
    MaxTypes,   \* bound of the model: types
    MaxNeigh    \* bound of the model: neighbors of a particle

ASSUME StorageAssumption == /\ Chunk \in Nat \ {0} /\ MaxN \in Nat
                            /\ MaxTypes \in Nat /\ MaxNeigh \in Nat

VARIABLES
    type,       \* type[i]: the types of the local particles, in their order
    neigh,      \* neigh[i]: how many neighbors particle i has at this compute()
    ntypes,     \* number of types
    Nmax,       \* Nmax[t]: m_Nmax
    conditions, \* conditions[t]: m_conditions
    head_list,  \* head_list[i]: m_head_list, for MaxN of the particle data
    nlist,      \* the flat array; <<i, k>> is the k-th neighbor of i
    n_neigh,    \* n_neigh[i]: m_n_neigh
    force,      \* m_force_update
    pc,         \* "idle", or where compute() is: "build", "check"
    builds,     \* how often this compute() has built the list
    built       \* the list in memory is the one of the present particles

vars == <<type, neigh, ntypes, Nmax, conditions, head_list, nlist, n_neigh, force,
          pc, builds, built>>
particles == <<type, neigh, ntypes>>

NParticles == Len(type)
Particle == 1 .. NParticles
Types == 0 .. (ntypes - 1)
Free == <<0, 0>>
Capacity == Len(nlist)

\* The constructor: room for Chunk neighbors of every particle.
Init ==
    /\ ntypes \in 1 .. MaxTypes
    /\ \E n \in 0 .. MaxN :
          /\ type \in [1 .. n -> 0 .. (ntypes - 1)]
          /\ neigh = [i \in 1 .. n |-> 0]
          /\ head_list = [i \in 1 .. n |-> 0]
          /\ n_neigh = [i \in 1 .. n |-> 0]
          /\ nlist = [s \in 1 .. (Chunk * n) |-> Free]
    /\ Nmax = [t \in Types |-> Chunk]
    /\ conditions = [t \in Types |-> 0]
    /\ force = TRUE /\ pc = "idle" /\ builds = 0 /\ built = FALSE

----------------------------------------------------------------------------
(* What happens between two calls *)

\* An array resized with zeros behind what it had.
Resized(s, n) == [i \in 1 .. n |-> IF i <= Len(s) THEN s[i] ELSE 0]

\* Mutation: sorting the particles does not reach the neighbor list.
SortUnheard ==
    /\ pc = "idle"
    /\ type' \in [Particle -> Types]
    /\ built' = FALSE
    /\ UNCHANGED <<neigh, ntypes, Nmax, conditions, head_list, nlist, n_neigh, force, pc,
                   builds>>
\* Particles are sorted or change type: notifyParticleSort(), which the list
\* hears and takes as forceUpdate().
Sort ==
    /\ pc = "idle"
    /\ type' \in [Particle -> Types]
    /\ force' = TRUE /\ built' = FALSE
    /\ UNCHANGED <<neigh, ntypes, Nmax, conditions, head_list, nlist, n_neigh, pc, builds>>

\* Particles come or go: the particle data may grow, which reallocate() hears,
\* and signals a sort.
ChangeN ==
    /\ pc = "idle"
    /\ \E n \in 0 .. MaxN :
          /\ n # NParticles
          /\ type' \in [1 .. n -> Types]
          /\ neigh' = Resized(neigh, n)
          /\ IF n > Len(head_list)
             THEN /\ head_list' = Resized(head_list, n)
                  /\ n_neigh' = Resized(n_neigh, n)
             ELSE UNCHANGED <<head_list, n_neigh>>
    /\ force' = TRUE /\ built' = FALSE
    /\ UNCHANGED <<ntypes, Nmax, conditions, nlist, pc, builds>>

\* reallocateTypes(): a new type has no room yet.
AddType ==
    /\ pc = "idle" /\ ntypes < MaxTypes
    /\ ntypes' = ntypes + 1
    /\ Nmax' = [t \in 0 .. ntypes |-> IF t < ntypes THEN Nmax[t] ELSE 0]
    /\ conditions' = [t \in 0 .. ntypes |-> IF t < ntypes THEN conditions[t] ELSE 0]
    /\ force' = TRUE
    /\ UNCHANGED <<type, neigh, head_list, nlist, n_neigh, pc, builds, built>>

----------------------------------------------------------------------------
(* compute() *)

\* The loop of resizeNlist(), from a to an allocation that holds size.
AllocSize(a, size) ==
    LET grown[n \in Nat] == IF size <= n THEN n ELSE grown[(n * 9) \div 8 + 1]
    IN  grown[a]

\* resizeNlist(size): it only grows, and keeps what it holds.
resizeNlist(size) ==
    LET n == AllocSize(IF Capacity = 0 THEN 1 ELSE Capacity, size)
    IN  IF size <= Capacity THEN nlist
        ELSE nlist \o [s \in 1 .. (n - Capacity) |-> Free]

\* The running sum of the rooms of the particles before i.
HeadAddress(max, i) == FoldLeft(LAMBDA sum, t : sum + max[t], 0, SubSeq(type, 1, i - 1))

\* buildHeadList() for the rooms max.
buildHeadList(max) ==
    /\ head_list' = [i \in DOMAIN head_list |->
                       IF i \in Particle THEN HeadAddress(max, i) ELSE head_list[i]]
    /\ nlist' = resizeNlist(HeadAddress(max, NParticles + 1))

\* The head of a compute() that updates the list, because it is forced to or
\* because the particles, which have moved, are due: the head list is built if
\* the update is forced.
Compute ==
    /\ pc = "idle"
    /\ IF force THEN buildHeadList(Nmax) ELSE UNCHANGED <<head_list, nlist>>
    /\ pc' = "build" /\ force' = FALSE
    /\ neigh' \in [Particle -> 0 .. MaxNeigh]
    /\ builds' = 0 /\ built' = FALSE
    /\ UNCHANGED <<type, ntypes, Nmax, conditions, n_neigh>>

\* Where buildNlist() writes for particle i.  A write past the end of the memory
\* is left to the property WritesFit.
Written(i) == head_list[i] + 1 .. head_list[i] + Min({neigh[i], Nmax[type[i]]})

\* buildNlist(): what has room is written, what has not is counted; the handle
\* overwrites the array.
Build ==
    /\ pc = "build"
    /\ nlist' = [s \in DOMAIN nlist |->
                   IF \E i \in Particle : s \in Written(i)
                   THEN LET i == CHOOSE i \in Particle : s \in Written(i)
                        IN  <<i, s - head_list[i]>>
                   ELSE Free]
    /\ n_neigh' = [i \in DOMAIN n_neigh |-> IF i \in Particle THEN neigh[i] ELSE n_neigh[i]]
    /\ conditions' = [t \in Types |->
          Max({conditions[t]} \cup
              {neigh[i] : i \in {j \in Particle : type[j] = t /\ neigh[j] > Nmax[t]}})]
    /\ pc' = "check" /\ builds' = builds + 1
    /\ UNCHANGED <<particles, Nmax, head_list, force, built>>

\* The room for c neighbors.
Rounded(c) == IF c > Chunk THEN ((c + Chunk - 1) \div Chunk) * Chunk ELSE Chunk

Overflowed == \E t \in Types : conditions[t] > Nmax[t]

\* checkConditions(), and after an overflow buildHeadList(), resetConditions()
\* and another round.
Check ==
    /\ pc = "check"
    /\ IF Overflowed
       THEN /\ Nmax' = [t \in Types |-> IF conditions[t] > Nmax[t]
                                        THEN Rounded(conditions[t]) ELSE Nmax[t]]
            /\ buildHeadList(Nmax')
            /\ conditions' = [t \in Types |-> 0]
            /\ pc' = "build"
            /\ UNCHANGED built
       ELSE /\ pc' = "idle" /\ built' = TRUE
            /\ UNCHANGED <<Nmax, head_list, nlist, conditions>>
    /\ UNCHANGED <<particles, n_neigh, force, builds>>

Next == Sort \/ ChangeN \/ AddType \/ Compute \/ Build \/ Check

Spec == Init /\ [][Next]_vars

----------------------------------------------------------------------------
(* Properties *)

TypeOK ==
    /\ type \in Seq(Types) /\ DOMAIN neigh = DOMAIN type
    /\ Nmax \in [Types -> Nat] /\ conditions \in [Types -> Nat]
    /\ NParticles <= Len(head_list) /\ Len(n_neigh) = Len(head_list)
    /\ pc \in {"idle", "build", "check"} /\ force \in BOOLEAN /\ built \in BOOLEAN

\* buildNlist() writes only into its memory, and no two particles write to the
\* same place: the head list it uses is the one of the present order, types and
\* rooms, after sorts, migrations, new types and overflows in any order.
WritesFit ==
    pc = "build" =>
       \A i \in Particle :
          /\ head_list[i] + Nmax[type[i]] <= Capacity
          /\ \A j \in Particle : i < j => head_list[i] + Nmax[type[i]] <= head_list[j]

\* When compute() returns every particle has all its neighbors in the list.
Complete ==
    pc = "idle" /\ built =>
       \A i \in Particle :
          /\ n_neigh[i] = neigh[i]
          /\ head_list[i] + neigh[i] <= Capacity
          /\ \A k \in 1 .. neigh[i] : nlist[head_list[i] + k] = <<i, k>>

\* One overflow is enough to learn the room for every type: compute() builds
\* the list at most twice.
TwoBuilds == builds <= 2

\* The memory of the list is used within its bounds, holds every neighbor when
\* compute() returns, and is found large enough by one more build at most.
StorageRight == TypeOK /\ WritesFit /\ Complete /\ TwoBuilds
=============================================================================
