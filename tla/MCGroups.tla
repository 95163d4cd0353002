------------------------------ MODULE MCGroups ------------------------------
(***************************************************************************)
(* Instances of BondedGroups (bonds on a ring of three domains and between *)
(* two, angles on a ring of four) and of ParticleGroup (a group that is    *)
(* updated, and combinations of groups). A behaviour belongs to one part.  *)
(***************************************************************************)
EXTENDS Integers, Sequences

CONSTANT Off

VARIABLES
    part,
    own, off, groups, rtag, tagset, recycled, changed, cached, ghosts, snap,
    bond, pc, order, kind, rtagsize, maxn, grp, call, overrun, combined,
    changes, moves

ByType == [g \in {"typeA", "all", "both"} |-> IF g = "typeA" THEN {"a"} ELSE {"a", "b"}]

\* Bonds on a ring of three narrow domains.
Ring == INSTANCE BondedGroups WITH
    NRanks <- 3, Width <- 1, NPtl <- 3, Size <- 2,
    Candidates <- {<<0, 1>>, <<2, 1>>}, MaxExtent <- 1, MaxStep <- 1,
    MaxTags <- 2, MaxSnap <- 0

\* Two domains that are neighbors on both sides; snapshots.
Pair == INSTANCE BondedGroups WITH
    NRanks <- 2, Width <- 3, NPtl <- 2, Size <- 2,
    Candidates <- {<<0, 1>>, <<1, 0>>}, MaxExtent <- 1, MaxStep <- 1,
    MaxTags <- 2, MaxSnap <- 2

\* Angles that may span three domains.
Angle == INSTANCE BondedGroups WITH
    NRanks <- 4, Width <- 2, NPtl <- 3, Size <- 3,
    Candidates <- {<<0, 1, 2>>}, MaxExtent <- 2, MaxStep <- 1, MaxTags <- 1,
    MaxSnap <- 0

\* A group created with update=True; particles are added, removed and
\* restored.
Updating == INSTANCE ParticleGroup WITH
    Rank <- {0, 1}, Root <- 0, Kind <- {"a", "b"}, RootQueries <- FALSE,
    Selects <- [g \in {"typeA"} |-> {"a"}], Group <- {"typeA"},
    Updated <- {"typeA"}, Derived <- {}, InitialN <- 2, MaxTags <- 3,
    MaxChanges <- 2, MaxMoves <- 1

\* Unions, intersections and differences of two groups.
Combining == INSTANCE ParticleGroup WITH
    Rank <- {0, 1}, Root <- 0, Kind <- {"a", "b"}, RootQueries <- FALSE,
    Selects <- ByType, Group <- {"typeA", "all", "both"},
    Updated <- {"typeA", "all"}, Derived <- {"both"}, InitialN <- 2,
    MaxTags <- 2, MaxChanges <- 0, MaxMoves <- 2

ASSUME GroupsAssumption ==
    /\ Ring!BondedGroupsAssumption
    /\ Pair!BondedGroupsAssumption
    /\ Angle!BondedGroupsAssumption
    /\ Updating!GroupAssumption
    /\ Combining!GroupAssumption

mcvars == <<part, own, off, groups, rtag, tagset, recycled, changed, cached,
            ghosts, snap, bond, pc, order, kind, rtagsize, maxn, grp, call,
            overrun, combined, changes, moves>>

\* What the parts on BondedGroups leave alone.
besideBondedGroups == <<part, order, kind, rtagsize, maxn, grp, call,
                        overrun, combined, changes, moves>>
BesideBondedGroups ==
    /\ order = Off /\ kind = Off /\ rtagsize = Off /\ maxn = Off /\ grp = Off
    /\ call = Off /\ overrun = Off /\ combined = Off /\ changes = Off
    /\ moves = Off

\* What the parts on ParticleGroup leave alone.
besideParticleGroup == <<part, own, off, groups, rtag, tagset, changed,
                         cached, ghosts, snap, bond, pc>>
BesideParticleGroup ==
    /\ own = Off /\ off = Off /\ groups = Off /\ rtag = Off /\ tagset = Off
    /\ changed = Off /\ cached = Off /\ ghosts = Off /\ snap = Off
    /\ bond = Off /\ pc = Off

MCInit ==
    \/ part = "ring" /\ Ring!Init /\ BesideBondedGroups
    \/ part = "pair" /\ Pair!Init /\ BesideBondedGroups
    \/ part = "angle" /\ Angle!Init /\ BesideBondedGroups
    \/ part = "updated" /\ Updating!Init /\ BesideParticleGroup
    \/ part = "combine" /\ Combining!Init /\ BesideParticleGroup

MCNext ==
    \/ part = "ring" /\ Ring!Next /\ UNCHANGED besideBondedGroups
    \/ part = "pair" /\ Pair!Next /\ UNCHANGED besideBondedGroups
    \/ part = "angle" /\ Angle!Next /\ UNCHANGED besideBondedGroups
    \/ part = "updated" /\ Updating!Next /\ UNCHANGED besideParticleGroup
    \/ part = "combine" /\ Combining!Next /\ UNCHANGED besideParticleGroup
    \/ part \in {"updated", "combine"} /\ UNCHANGED mcvars  \* may stop

\* The fairness of the components (see there).
MCFairness ==
    /\ \A r \in {0, 1} : WF_mcvars(part = "updated" /\ (Updating!Post(r) \/ Updating!Return(r)) /\ UNCHANGED besideParticleGroup)
    /\ WF_mcvars(part = "updated" /\ Updating!Gather /\ UNCHANGED besideParticleGroup)

MCSpec == MCInit /\ [][MCNext]_mcvars /\ MCFairness

-----------------------------------------------------------------------------
(* Properties *)

\* A rank holds a group if and only if it owns one of the members, and its
\* copy has the members the script gave: no copy is lost or left behind,
\* whichever members leave in the same pass. Once the communicator has seen
\* the groups, every copy knows the rank of every member, also of members that
\* moved on other ranks. Reverse lookup on every rank, the recycled tags and
\* the cache of active tags agree with the groups that exist. When bonded
\* forces are computed every member of a local group is on the rank, in the
\* image next to the other members.
BondsFollow ==
    /\ part = "ring" =>
          /\ Ring!TypeOK /\ Ring!HoldersExact /\ Ring!RanksTrue
          /\ Ring!TagPool /\ Ring!Complete
    /\ part = "pair" =>
          /\ Pair!TypeOK /\ Pair!HoldersExact /\ Pair!RanksTrue
          /\ Pair!TagPool /\ Pair!Complete
    /\ part = "angle" =>
          /\ Angle!TypeOK /\ Angle!HoldersExact /\ Angle!RanksTrue
          /\ Angle!Complete
    /\ part = "updated" => Updating!TypeOK
    /\ part = "combine" => Combining!TypeOK

\* A snapshot lists every existing group once, in the order of the tags.
SnapshotTrue == [][part = "pair" /\ Pair!TakeSnapshot => Pair!SnapshotTaken]_mcvars

\* The index list of a group that is up to date lists the members on the rank
\* in the order of the local indices, after sorts, migrations, additions and
\* removals. A group that was asked for has exactly the particles its selector
\* selects now, the same on all ranks. The caches of a group have room for
\* every particle and every tag. Ranks that wait in the collective selection
\* wait for the same group. The result of a combination is the union, the
\* intersection or the difference of the members.
GroupsCurrent ==
    /\ part = "updated" =>
          /\ Updating!IndexListTrue /\ Updating!MembersCurrent
          /\ Updating!InBounds /\ Updating!Matched
    /\ part = "combine" =>
          /\ Combining!IndexListTrue /\ Combining!InBounds
          /\ Combining!CombinedRight

\* A get() call of all ranks comes back on every rank.
QueryEnds == (part = "updated" /\ call # Updating!NoCall) ~> (part = "updated" /\ call = Updating!NoCall)
=============================================================================
