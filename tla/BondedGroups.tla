---------------------------- MODULE BondedGroups ----------------------------
(***************************************************************************)
(* Bonds, angles and dihedrals under domain decomposition: the tables that *)
(* BondedGroupData keeps on every rank, how GroupCommunicator moves groups *)
(* after their members (migrateGroups) and asks for the ghosts they need   *)
(* (markGhostParticles).                                                   *)
(*                                                                         *)
(* The decomposition is a ring of NRanks domains of Width cells.  A        *)
(* particle is where its owner is plus an offset into the owner's domain,  *)
(* which integration may take outside of it.  Every pass of                *)
(* migrateParticles() is one step of all ranks: its messages go to         *)
(* neighbors that wait for exactly these messages, so that what a rank     *)
(* computes does not depend on the order in which they arrive.             *)
(*                                                                         *)
(* Groups span at most MaxExtent cells.  The code relies on that: the      *)
(* owners of the members of a group are then neighbors, and with two       *)
(* domains the nearer side of the domain is the side of the other members. *)
(***************************************************************************)
EXTENDS Integers, Sequences, FiniteSets, SequencesExt

CONSTANTS
    NRanks,     \* domains of the ring
    Width,      \* cells of a domain
    NPtl,       \* number of particles
    Size,       \* members of a group (group_size)
    Candidates, \* member tuples the script makes groups of
    MaxExtent,  \* cells a group may span
    MaxStep,    \* cells a particle may move between two migrations
    MaxTags,    \* bound on the group tags in use
    MaxSnap     \* bound on the groups in a snapshot that is taken

BondedGroupsAssumption ==
    /\ NRanks \in Nat \ {0, 1} /\ Width \in Nat \ {0} /\ NPtl \in Nat
    /\ Size \in 1..NPtl /\ MaxTags \in Nat /\ MaxSnap \in Nat /\ MaxStep \in 0..Width
    /\ MaxExtent \in 0..Width /\ Candidates \subseteq [1..Size -> 0..(NPtl - 1)]
    /\ NRanks = 2 => 2 * MaxExtent < Width

Rank == 0..(NRanks - 1)
Ptl == 0..(NPtl - 1)
Slot == 1..Size
Length == NRanks * Width
NL == -1                     \* GROUP_NOT_LOCAL

VARIABLES
    own, off,   \* particle -> its rank and its offset into the domain
    groups,     \* rank -> m_group_tag, m_groups and m_group_ranks
    rtag,       \* rank -> m_group_rtag, tag t at position t + 1
    tagset,     \* m_tag_set, the same on all ranks, as are the next three
    recycled,   \* m_recycled_tags, the top first
    changed,    \* m_bonds_changed of the Communicator
    cached,     \* m_cached_tag_set, or <<>> if m_invalid_cached_tags
    ghosts,     \* rank -> particle -> offset of the ghost, for its ghosts
    snap,       \* the last snapshot taken: groups in the order of their tags
    bond,       \* what the script was told: tag -> members (not in the code)
    pc

vars == <<own, off, groups, rtag, tagset, recycled, changed, cached, ghosts,
          snap, bond, pc>>

tagVars == <<tagset, recycled, cached, bond>>

-----------------------------------------------------------------------------
(* Geometry of the ring                                                     *)

East(r) == (r + 1) % NRanks
West(r) == (r - 1) % NRanks

\* m_unique_neighbors
Neighbors(r) == {East(r), West(r)}

\* Distance of two places across the nearer side of the ring.
Apart(x, y) == LET d == (x - y) % Length IN IF 2 * d > Length THEN Length - d ELSE d

Place(w, o, p) == (w[p] * Width + o[p]) % Length

\* Groups b are short enough if the particles are at w, o.
Short(b, w, o) ==
    \A t \in DOMAIN b : \A i, j \in Slot :
        Apart(Place(w, o, b[t][i]), Place(w, o, b[t][j])) <= MaxExtent

NGlobal == Cardinality(tagset)
IsLocal(r, p) == own[p] = r

\* The particles a table or a force on rank r can find.
Visible(r) == {p \in Ptl : IsLocal(r, p)} \cup DOMAIN ghosts[r]

\* Position of the entry for tag t in the arrays s, or GROUP_NOT_LOCAL.
IndexIn(s, t) ==
    IF \E k \in 1..Len(s) : s[k].tag = t
    THEN CHOOSE k \in 1..Len(s) : s[k].tag = t
    ELSE NL

-----------------------------------------------------------------------------
(* Operations of the script, executed on all ranks                          *)

\* m_invalid_cached_tags = true
Invalidate == <<>>

\* addBondedGroup() stores the group if a member is local.
Stores(r, m) == \E i \in Slot : IsLocal(r, m[i])

Entry(t, m) == [tag |-> t, ptl |-> m, ranks |-> [i \in Slot |-> 0]]

\* The tag of a new group and the tags that can still be recycled.
NextTag ==
    IF recycled # <<>> THEN [tag |-> Head(recycled), rest |-> Tail(recycled)]
                       ELSE [tag |-> NGlobal, rest |-> <<>>]

\* m_group_rtag after tag t was given index k.
RTagAdded(s, t, k) == IF t < Len(s) THEN [s EXCEPT ![t + 1] = k] ELSE Append(s, k)

AddBondedGroup(m) ==
    LET t == NextTag.tag IN
    /\ pc = "script"
    /\ Cardinality({m[i] : i \in Slot}) = Size
    /\ t < MaxTags
    /\ Short([x \in {t} |-> m], own, off)
    /\ groups' = [r \in Rank |-> IF Stores(r, m) THEN Append(groups[r], Entry(t, m))
                                                ELSE groups[r]]
    /\ rtag' = [r \in Rank |->
                    RTagAdded(rtag[r], t, IF Stores(r, m) THEN Len(groups[r]) + 1 ELSE NL)]
    /\ tagset' = tagset \cup {t} /\ recycled' = NextTag.rest
    /\ cached' = Invalidate /\ changed' = TRUE
    /\ bond' = [x \in DOMAIN bond \cup {t} |-> IF x = t THEN m ELSE bond[x]]
    /\ UNCHANGED <<own, off, ghosts, snap, pc>>

\* m_group_rtag s after the entry of tag t was taken out of the arrays g.
RTagClosed(s, g, t) ==
    LET cleared == [s EXCEPT ![t + 1] = NL]
    IN IF s[t + 1] \in 1..(Len(g) - 1)
       THEN [cleared EXCEPT ![Last(g).tag + 1] = s[t + 1]]
       ELSE cleared

\* The arrays with the last entry moved into the hole at k.
Closed(g, k) ==
    IF k \in 1..Len(g) THEN Front(IF k < Len(g) THEN [g EXCEPT ![k] = Last(g)] ELSE g)
                       ELSE g

RemoveBondedGroup(t) ==
    /\ pc = "script"
    /\ t < Len(rtag[0])
    /\ \E r \in Rank : rtag[r][t + 1] # NL      \* not previously removed
    /\ groups' = [r \in Rank |-> Closed(groups[r], rtag[r][t + 1])]
    /\ rtag' = [r \in Rank |-> RTagClosed(rtag[r], groups[r], t)]
    /\ tagset' = tagset \ {t} /\ recycled' = <<t>> \o recycled
    /\ cached' = Invalidate /\ changed' = TRUE
    /\ bond' = [x \in DOMAIN bond \ {t} |-> bond[x]]
    /\ UNCHANGED <<own, off, ghosts, snap, pc>>

\* getNthTag() fills the cache of active tags if it is invalid.
TagCache == IF cached = <<>> THEN SetToSortSeq(tagset, <) ELSE cached

GetNthTag ==
    /\ pc = "script" /\ tagset # {}
    /\ cached' = TagCache
    /\ UNCHANGED <<own, off, groups, rtag, tagset, recycled, changed, ghosts,
                   snap, bond, pc>>

\* Mutation: the arrays of the rank are indexed by the tag.
GatheredByTag(t) ==
    LET r == CHOOSE q \in Rank :
                 /\ IndexIn(groups[q], t) # NL
                 /\ \A q2 \in 0..(q - 1) : IndexIn(groups[q2], t) = NL
    IN groups[r][IF t < Len(groups[r]) THEN t + 1 ELSE 1].ptl

\* The copy of group t that takeSnapshot() takes: that of the lowest rank.
Gathered(t) ==
    LET r == CHOOSE q \in Rank :
                 /\ IndexIn(groups[q], t) # NL
                 /\ \A q2 \in 0..(q - 1) : IndexIn(groups[q2], t) = NL
    IN groups[r][IndexIn(groups[r], t)].ptl

TakeSnapshot ==
    /\ pc = "script" /\ NGlobal <= MaxSnap
    /\ \A t \in tagset : \E r \in Rank : IndexIn(groups[r], t) # NL
    /\ snap' = [k \in 1..NGlobal |-> Gathered(SetToSortSeq(tagset, <)[k])]
    /\ UNCHANGED <<own, off, groups, rtag, tagset, recycled, changed, cached,
                   ghosts, bond, pc>>

\* initialize(), then addBondedGroup() for every group of the snapshot.
Initialized(r) ==
    SelectSeq([k \in 1..Len(snap) |-> Entry(k - 1, snap[k])],
              LAMBDA e : Stores(r, e.ptl))

InitializeFromSnapshot ==
    /\ pc = "script" /\ snap # <<>>
    /\ Short([t \in 0..(Len(snap) - 1) |-> snap[t + 1]], own, off)
    /\ groups' = [r \in Rank |-> Initialized(r)]
    /\ rtag' = [r \in Rank |-> [k \in 1..Len(snap) |-> IndexIn(Initialized(r), k - 1)]]
    /\ tagset' = 0..(Len(snap) - 1) /\ recycled' = <<>>
    /\ cached' = Invalidate /\ changed' = TRUE
    /\ bond' = [t \in 0..(Len(snap) - 1) |-> snap[t + 1]]
    /\ UNCHANGED <<own, off, ghosts, snap, pc>>


(* setPosition() in the script moves the particle to the rank of its new    *)
(* place; moveParticleGroups() sends the groups of the particle along.      *)

Has(e, p) == \E i \in Slot : e.ptl[i] = p

\* The old rank keeps a group that has another local member.
StaysWithout(r, p, e) == ~Has(e, p) \/ \E i \in Slot : e.ptl[i] # p /\ IsLocal(r, e.ptl[i])

\* Entries the new rank appends, with ranks initialized to zero.
Appended(r, p, q) ==
    [k \in 1..Len(SelectSeq(groups[r], LAMBDA e : Has(e, p) /\ rtag[q][e.tag + 1] = NL)) |->
        LET e == SelectSeq(groups[r], LAMBDA x : Has(x, p) /\ rtag[q][x.tag + 1] = NL)[k]
        IN Entry(e.tag, e.ptl)]

MovedGroups(p, q) ==
    [groups EXCEPT ![own[p]] = SelectSeq(groups[own[p]],
                                         LAMBDA e : StaysWithout(own[p], p, e)),
                   ![q] = groups[q] \o Appended(own[p], p, q)]

\* Mutation: the observers are not told that the groups changed.
MoveNotifiesNot == changed

\* m_group_num_change_signal() reaches Communicator::setBondsChanged().
MoveNotifies == TRUE

SetPosition(p, q, o) ==
    LET g == MovedGroups(p, q) IN
    /\ pc = "script"
    /\ off' = [off EXCEPT ![p] = o] /\ own' = [own EXCEPT ![p] = q]
    /\ Short(bond, own', off')
    /\ IF q = own[p]
       THEN UNCHANGED <<groups, rtag, changed, ghosts>>
       ELSE /\ groups' = g
            /\ rtag' = [r \in Rank |-> [k \in 1..Len(rtag[r]) |-> IndexIn(g[r], k - 1)]]
            /\ changed' = MoveNotifies
            /\ ghosts' = [r \in Rank |-> <<>>]
    /\ UNCHANGED <<snap, tagVars, pc>>

-----------------------------------------------------------------------------
(* A step of a run                                                          *)

\* run() forces a migration before its first step.
Run ==
    /\ pc = "script" /\ pc' = "east"
    /\ ghosts' = [r \in Rank |-> <<>>]        \* removeAllGhostParticles()
    /\ UNCHANGED <<own, off, groups, rtag, tagVars, changed, snap>>

EndRun ==
    /\ pc = "run" /\ pc' = "script"
    /\ UNCHANGED <<own, off, groups, rtag, tagVars, changed, ghosts, snap>>

\* The particles move, then migrateParticles() removes the ghosts.
Integrate(d) ==
    /\ pc = "run" /\ pc' = "east"
    /\ off' = [p \in Ptl |-> off[p] + d[p]]
    /\ Short(bond, own, off')
    /\ ghosts' = [r \in Rank |-> <<>>]
    /\ UNCHANGED <<own, groups, rtag, tagVars, changed, snap>>

(* migrateGroups(): flags are the particles that leave in direction dir.    *)

Leaving(dir, p) == IF dir = "east" THEN off[p] >= Width ELSE off[p] < 0

\* The rank the particle goes to.
Dest(dir, p) == IF dir = "east" THEN East(own[p]) ELSE West(own[p])

\* Phase 1.  The ranks rank r writes for the members of its group e.
Updated(dir, r, e) ==
    [i \in Slot |->
        IF ~IsLocal(r, e.ptl[i]) THEN e.ranks[i]
        ELSE IF Leaving(dir, e.ptl[i]) THEN Dest(dir, e.ptl[i])
        ELSE IF changed THEN r ELSE e.ranks[i]]

Update(dir, r, e) == \E i \in Slot : ~IsLocal(r, e.ptl[i]) \/ Leaving(dir, e.ptl[i])

\* The members it tells other ranks about.
Mask(dir, r, e) ==
    {i \in Slot : /\ Update(dir, r, e)
                  /\ IsLocal(r, e.ptl[i])
                  /\ changed \/ Leaving(dir, e.ptl[i])}

\* The ranks it tells; messages go to neighbors only.
Told(dir, r, e) ==
    LET m == Mask(dir, r, e) IN
    IF m = {} THEN {}
    ELSE IF changed THEN Neighbors(r)
    ELSE {Updated(dir, r, e)[j] : j \in Slot \ m} \cap (Neighbors(r) \ {r})

\* The entry e of rank q after the rank elements were received.
Agreed(dir, q, e) ==
    [e EXCEPT !.ranks =
        [i \in Slot |->
            IF \E r \in Rank : \E k \in 1..Len(groups[r]) :
                  LET x == groups[r][k] IN
                  x.tag = e.tag /\ q \in Told(dir, r, x) /\ i \in Mask(dir, r, x)
            THEN LET r == own[e.ptl[i]]
                     x == groups[r][IndexIn(groups[r], e.tag)]
                 IN Updated(dir, r, x)[i]
            ELSE Updated(dir, q, e)[i]]]

\* Phase 2.  Members of e that leave rank r, and the ranks the group goes to.
Gone(dir, r, e) == {i \in Slot : IsLocal(r, e.ptl[i]) /\ Leaving(dir, e.ptl[i])}

SentTo(dir, r, e) == {Agreed(dir, r, e).ranks[i] : i \in Gone(dir, r, e)} \cap Neighbors(r)

\* The group stays if nothing was sent or a local member stays.
Keeps(dir, r, e) ==
    \/ Gone(dir, r, e) = {}
    \/ \E i \in Slot : IsLocal(r, e.ptl[i]) /\ ~Leaving(dir, e.ptl[i])

Kept(dir, r) ==
    LET all == [k \in 1..Len(groups[r]) |-> Agreed(dir, r, groups[r][k])]
    IN SelectSeq(all, LAMBDA e : Keeps(dir, r, e))

\* Groups rank q adds: one copy of each that it does not hold.
Received(dir, q) ==
    LET sent == {x \in Rank \X (1..MaxTags) :
                    /\ x[2] <= Len(groups[x[1]])
                    /\ q \in SentTo(dir, x[1], groups[x[1]][x[2]])}
        copy(t) == CHOOSE x \in sent : groups[x[1]][x[2]].tag = t
        new == {groups[x[1]][x[2]].tag : x \in sent}
               \ {Kept(dir, q)[k].tag : k \in 1..Len(Kept(dir, q))}
    IN {Agreed(dir, copy(t)[1], groups[copy(t)[1]][copy(t)[2]]) : t \in new}

Migrated(dir, q) ==
    Kept(dir, q) \o SetToSortSeq(Received(dir, q), LAMBDA a, b : a.tag < b.tag)

\* One pass of migrateParticles(): the groups, then the particles themselves.
Migrate(dir) ==
    /\ pc = dir
    /\ IF NGlobal = 0
       THEN UNCHANGED <<groups, rtag>>
       ELSE /\ groups' = [r \in Rank |-> Migrated(dir, r)]
            /\ rtag' = [r \in Rank |-> [k \in 1..Len(rtag[r]) |->
                                            IndexIn(Migrated(dir, r), k - 1)]]
    /\ changed' = FALSE
    /\ own' = [p \in Ptl |-> IF Leaving(dir, p) THEN Dest(dir, p) ELSE own[p]]
    /\ off' = [p \in Ptl |-> IF ~Leaving(dir, p) THEN off[p]
                             ELSE IF dir = "east" THEN off[p] - Width ELSE off[p] + Width]
    /\ pc' = IF dir = "east" THEN "west" ELSE "exchange"
    /\ UNCHANGED <<tagVars, ghosts, snap>>

(* exchangeGhosts(): markGhostParticles(), then the passes of the exchange. *)

\* Directions in which the local members of e are sent to reach rank q.
Sides(r, e, q) ==
    IF q \notin Neighbors(r) THEN {}
    ELSE IF East(r) # West(r) THEN IF q = East(r) THEN {"east"} ELSE {"west"}
    ELSE LET first == CHOOSE i \in Slot :
                          /\ IsLocal(r, e.ptl[i])
                          /\ \A j \in 1..(i - 1) : ~IsLocal(r, e.ptl[j])
         IN IF 2 * off[e.ptl[first]] > Width THEN {"east"} ELSE {"west"}

\* m_plan of particle p, from the groups of its rank.
Plan(p) ==
    UNION {UNION {Sides(own[p], groups[own[p]][k], groups[own[p]][k].ranks[i]) :
                    i \in {j \in Slot : groups[own[p]][k].ranks[j] # own[p]}} :
           k \in {n \in 1..Len(groups[own[p]]) : Has(groups[own[p]][n], p)}}

\* A particle received in both passes is found where the second put it.
ExchangeGhosts ==
    /\ pc = "exchange" /\ pc' = "force"
    /\ ghosts' = [r \in Rank |->
          [p \in {x \in Ptl : ("east" \in Plan(x) /\ East(own[x]) = r)
                               \/ ("west" \in Plan(x) /\ West(own[x]) = r)} |->
              IF "west" \in Plan(p) /\ West(own[p]) = r
              THEN off[p] + Width ELSE off[p] - Width]]
    /\ UNCHANGED <<own, off, groups, rtag, tagVars, changed, snap>>

\* The bonded forces: rebuildGPUTable() looks up every member of the local
\* groups.  The program would end here if a group were incomplete.
ComputeForces ==
    /\ pc = "force" /\ pc' = "run"
    /\ \A r \in Rank : \A k \in 1..Len(groups[r]) : \A i \in Slot :
          groups[r][k].ptl[i] \in Visible(r)
    /\ UNCHANGED <<own, off, groups, rtag, tagVars, changed, ghosts, snap>>

-----------------------------------------------------------------------------
Init ==
    /\ own = [p \in Ptl |-> (p * NRanks) \div NPtl]
    /\ off = [p \in Ptl |-> 0]
    /\ groups = [r \in Rank |-> <<>>] /\ rtag = [r \in Rank |-> <<>>]
    /\ tagset = {} /\ recycled = <<>> /\ cached = <<>> /\ bond = <<>>
    /\ changed = TRUE
    /\ ghosts = [r \in Rank |-> <<>>]
    /\ snap = <<>>
    /\ pc = "script"

Next ==
    \/ \E m \in Candidates : AddBondedGroup(m)
    \/ \E t \in 0..(MaxTags - 1) : RemoveBondedGroup(t)
    \/ GetNthTag \/ TakeSnapshot \/ InitializeFromSnapshot
    \/ \E p \in Ptl, q \in Rank, o \in 0..(Width - 1) : SetPosition(p, q, o)
    \/ Run \/ EndRun
    \/ \E d \in [Ptl -> -MaxStep..MaxStep] : Integrate(d)
    \/ \E dir \in {"east", "west"} : Migrate(dir)
    \/ ExchangeGhosts \/ ComputeForces

Spec == Init /\ [][Next]_vars

-----------------------------------------------------------------------------
\* The tables of BondedGroupData have their types.
TypeOK ==
    /\ own \in [Ptl -> Rank] /\ off \in [Ptl -> -Width..(2 * Width - 1)]
    /\ \A r \in Rank :
          /\ \A k \in 1..Len(groups[r]) :
                /\ groups[r][k].tag \in 0..(MaxTags - 1)
                /\ groups[r][k].ptl \in [Slot -> Ptl]
                /\ groups[r][k].ranks \in [Slot -> Rank]
          /\ \A k \in 1..Len(rtag[r]) : rtag[r][k] \in {NL} \cup 1..MaxTags
          /\ ghosts[r] \in [DOMAIN ghosts[r] -> -Width..(2 * Width - 1)]
    /\ changed \in BOOLEAN
    /\ pc \in {"script", "run", "east", "west", "exchange", "force"}

\* A rank holds a group if and only if it owns one of the members, and its
\* copy has the members the script gave: migrateGroups(), moveParticleGroups()
\* and addBondedGroup() lose no copy and leave none behind, whichever members
\* leave in the same pass.
HoldersExact ==
    \A r \in Rank :
        {<<groups[r][k].tag, groups[r][k].ptl>> : k \in 1..Len(groups[r])}
        = {<<t, bond[t]>> : t \in {x \in DOMAIN bond : \E i \in Slot : own[bond[x][i]] = r}}

\* Once the communicator has seen the groups, every copy knows the rank of
\* every member, also of members that moved on other ranks.
RanksTrue ==
    ~changed => \A r \in Rank : \A k \in 1..Len(groups[r]) : \A i \in Slot :
        groups[r][k].ranks[i] = own[groups[r][k].ptl[i]]

\* Group tags: reverse lookup on every rank, the recycled tags and the cache
\* of active tags agree with the groups that exist.
TagPool ==
    /\ tagset = DOMAIN bond
    /\ \A r \in Rank :
          /\ Len(rtag[r]) = NGlobal + Len(recycled)
          /\ \A t \in 0..(Len(rtag[r]) - 1) : rtag[r][t + 1] = IndexIn(groups[r], t)
          /\ \A j, k \in 1..Len(groups[r]) : groups[r][j].tag = groups[r][k].tag => j = k
    /\ {recycled[k] : k \in 1..Len(recycled)} = (0..(Len(rtag[0]) - 1)) \ tagset
    /\ cached = <<>> \/ cached = SetToSortSeq(tagset, <)

\* When bonded forces are computed every member of a local group is on the
\* rank, in the image that is next to the other members: no group is
\* incomplete and none is stretched across the box.
Complete ==
    pc = "force" =>
        \A r \in Rank : \A k \in 1..Len(groups[r]) :
            LET at(p) == IF IsLocal(r, p) THEN off[p] ELSE ghosts[r][p]
                m == groups[r][k].ptl
            IN /\ \A i \in Slot : m[i] \in Visible(r)
               /\ \A i, j \in Slot : at(m[i]) - at(m[j]) <= MaxExtent

\* A snapshot lists every existing group once, in the order of the tags.
SnapshotTaken ==
    /\ Len(snap') = Cardinality(DOMAIN bond)
    /\ \A k \in 1..Len(snap') : snap'[k] = bond[SetToSortSeq(DOMAIN bond, <)[k]]
=============================================================================
