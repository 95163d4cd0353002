---------------------------- MODULE ParticleGroup ----------------------------
(***************************************************************************)
(* Groups of particles (data_structures/ParticleGroup.cc).  A group is a   *)
(* sorted list of global tags; next to it every rank caches which tags and *)
(* which local indices belong to it and a list of the member indices.      *)
(* ParticleData signals a new order, a new capacity and a new global       *)
(* number of particles; the slots of a group only set a flag, and the next *)
(* get() call repairs the caches.  When the number of particles changed, a *)
(* group built from a selector selects again, which gathers the tags of    *)
(* all ranks: that get() call is collective.                               *)
(***************************************************************************)
EXTENDS Naturals, FiniteSets, SequencesExt

CONSTANTS
    Rank, Root,     \* the MPI ranks; the script creates particles on Root
    Kind,           \* particle types
    Group,          \* the groups of the script
    Selects,        \* [Group -> SUBSET Kind]: the type selector of each group
    Updated,        \* groups created with update=True
    Derived,        \* groups that only a combination fills
    RootQueries,    \* a dump writer asks for a group on the root rank only
    InitialN,       \* particles at start
    MaxTags,        \* bound: tags of the global table
    MaxChanges,     \* bound: additions, removals and restored snapshots
    MaxMoves        \* bound: sorts and migrations

GroupAssumption ==
    /\ Root \in Rank /\ IsFiniteSet(Rank) /\ IsFiniteSet(Group)
    /\ Selects \in [Group -> SUBSET Kind]
    /\ Updated \subseteq Group /\ Derived \subseteq Group \ Updated
    /\ RootQueries \in BOOLEAN
    /\ InitialN \in Nat /\ MaxTags \in Nat /\ InitialN <= MaxTags
    /\ MaxChanges \in Nat /\ MaxMoves \in Nat

VARIABLES
    order,      \* [Rank -> Seq(Tag)]: local index (from 1) -> tag
    kind,       \* [Tag -> Kind]
    recycled,   \* m_recycled_tags, the last tag on top
    rtagsize,   \* m_rtag.size()
    maxn,       \* [Rank -> Nat]: m_max_nparticles
    grp,        \* [Rank -> [Group -> caches and flags]]
    call,       \* the get() call the ranks are in
    overrun,    \* an access outside an array happened
    combined,   \* the last combination: what was asked for and what came out
    changes, moves

vars == <<order, kind, recycled, rtagsize, maxn, grp, call, overrun, combined,
          changes, moves>>

Tag == 0 .. MaxTags - 1
Local(r) == ToSet(order[r])
Active == UNION {Local(r) : r \in Rank}

NoCall == [group |-> "none", todo |-> {}, waiting |-> {}]

-----------------------------------------------------------------------------
(* The helpers of one group on one rank.                                   *)

\* ParticleSelectorType::isSelected for a particle of this rank.
Selected(g, t) == kind[t] \in Selects[g]

\* buildTagHash: one flag for every tag of the reverse lookup table.
TagHash(c) == [c EXCEPT !.hashsize = rtagsize,
                        !.hash = {t \in c.tags : t < rtagsize}]

\* buildTagHash writes past the end: it does not compare the tags with the size.
Overruns(c) == \E t \in c.tags : t >= rtagsize

\* Mutation: the membership flags are not reset.
IndexListKeepsFlags(r, c) ==
    LET members == SelectSeq([i \in DOMAIN order[r] |-> i],
                             LAMBDA i : order[r][i] \in c.hash)
    IN [c EXCEPT !.idx = members, !.member = @ \union ToSet(members), !.sorted = FALSE]

\* rebuildIndexList: the members among the local particles, in index order.
IndexList(r, c) ==
    LET members == SelectSeq([i \in DOMAIN order[r] |-> i],
                             LAMBDA i : order[r][i] \in c.hash)
    IN [c EXCEPT !.idx = members, !.member = ToSet(members), !.sorted = FALSE]

\* The second half of updateMemberTags: fresh arrays, hash and index list.
FreshArrays(r, c) == IndexList(r, TagHash([c EXCEPT !.bytes = maxn[r]]))

\* reallocate.
Reallocate(r, c) ==
    LET d == [c EXCEPT !.bytes = maxn[r]]
    IN IF c.hashsize # rtagsize THEN TagHash(d) ELSE d

\* The part of checkRebuild after the tags are up to date.
Repair(r, c) ==
    LET d == IF c.realloc THEN [Reallocate(r, c) EXCEPT !.realloc = FALSE] ELSE c
    IN IF d.sorted THEN IndexList(r, d) ELSE d

\* checkRebuild with the tag list tags, which is the old one if the group does
\* not select again.
CheckRebuild(r, c, tags) ==
    Repair(r, IF c.change THEN [FreshArrays(r, [c EXCEPT !.tags = tags]) EXCEPT !.change = FALSE]
              ELSE c)

\* The call of updateMemberTags selects again and therefore gathers.
SelectsAgain(r, g) == grp[r][g].change /\ g \in Updated

\* Out of bounds: a flag of a tag, or of an index, past the end of its array.
Outside(r, c, d) == \/ (c.change \/ c.realloc) /\ Overruns(d)
                    \/ d.bytes < Len(order[r])
                    \/ \E t \in Local(r) : t >= d.hashsize

-----------------------------------------------------------------------------
\* The caches a constructor leaves for the order o and the given tags.
Cache(o, tags, cap, size) ==
    LET members == SelectSeq([i \in DOMAIN o |-> i], LAMBDA i : o[i] \in tags)
    IN [tags |-> tags, hashsize |-> size, hash |-> tags, bytes |-> cap,
        idx |-> members, member |-> ToSet(members),
        sorted |-> FALSE, realloc |-> FALSE, change |-> FALSE]

AtLeastOne(n) == IF n = 0 THEN 1 ELSE n

\* The particles are distributed in tag order and the script has built its
\* groups (constructor with a selector: updateMemberTags(true)).
Init ==
    /\ \E home \in [0 .. InitialN - 1 -> Rank] :
          order = [r \in Rank |-> SelectSeq([i \in 1 .. InitialN |-> i - 1],
                                            LAMBDA t : home[t] = r)]
    /\ kind \in {k \in [Tag -> Kind] : \A t \in Tag : t >= InitialN => k[t] = k[0]}
    /\ recycled = <<>> /\ rtagsize = InitialN
    /\ maxn = [r \in Rank |-> AtLeastOne(Len(order[r]))]
    /\ grp = [r \in Rank |-> [g \in Group |->
                Cache(order[r],
                      IF g \in Derived THEN {} ELSE {t \in 0 .. InitialN - 1 : Selected(g, t)},
                      maxn[r], rtagsize)]]
    /\ call = NoCall /\ overrun = FALSE
    /\ combined = [want |-> {}, got |-> {}]
    /\ changes = 0 /\ moves = 0

-----------------------------------------------------------------------------
(* What ParticleData does and signals.                                     *)

\* The slots: slotParticleSort, slotReallocate, slotGlobalParticleNumChange.
Signal(c, sort, realloc, change) ==
    [c EXCEPT !.sorted = @ \/ sort, !.realloc = @ \/ realloc, !.change = @ \/ change]

SignalAll(sort, realloc, change) ==
    grp' = [r \in Rank |-> [g \in Group |->
              Signal(grp[r][g], r \in sort, r \in realloc, change)]]

\* ParticleData::resize and reallocate (amortized growth: by one here).
Grown(n, cap) == IF n > cap THEN n ELSE cap

\* The sorter of one rank exchanges two particles and calls
\* notifyParticleSort().
Sort(r, i) ==
    /\ call = NoCall /\ moves < MaxMoves
    /\ i \in 1 .. Len(order[r]) - 1
    /\ order' = [order EXCEPT ![r] = [@ EXCEPT ![i] = order[r][i + 1],
                                                ![i + 1] = order[r][i]]]
    /\ SignalAll({r}, {}, FALSE)
    /\ moves' = moves + 1
    /\ UNCHANGED <<kind, recycled, rtagsize, maxn, call, overrun, combined, changes>>

\* migrateParticles: removeParticles() on the old owner, addParticles() on the
\* new one; both notify on every rank, the capacity grows where it must.
Migrate(t, to) ==
    /\ call = NoCall /\ moves < MaxMoves
    /\ t \in Active \ Local(to)
    /\ LET gone(r) == SelectSeq(order[r], LAMBDA u : u # t)
       IN order' = [r \in Rank |-> IF r = to THEN Append(order[r], t) ELSE gone(r)]
    /\ maxn' = [maxn EXCEPT ![to] = Grown(Len(order[to]) + 1, @)]
    /\ SignalAll(Rank, IF maxn'[to] # maxn[to] THEN {to} ELSE {}, FALSE)
    /\ moves' = moves + 1
    /\ UNCHANGED <<kind, recycled, rtagsize, call, overrun, combined, changes>>

\* addParticle on Root: a recycled tag or the next one; the lookup table gets
\* the size of the largest active tag, which may make it smaller.
AddParticle(k) ==
    LET tag == IF recycled # <<>> THEN Last(recycled) ELSE Cardinality(Active)
        top == CHOOSE m \in Active \union {tag} : \A u \in Active \union {tag} : u <= m
    IN
    /\ call = NoCall /\ changes < MaxChanges /\ tag \in Tag
    /\ recycled' = IF recycled # <<>> THEN Front(recycled) ELSE recycled
    /\ rtagsize' = top + 1
    /\ order' = [order EXCEPT ![Root] = Append(@, tag)]
    /\ kind' = [kind EXCEPT ![tag] = k]
    /\ maxn' = [maxn EXCEPT ![Root] = Grown(Len(order[Root]) + 1, @)]
    /\ SignalAll(Rank, IF maxn'[Root] # maxn[Root] THEN {Root} ELSE {}, TRUE)
    /\ changes' = changes + 1
    /\ UNCHANGED <<call, overrun, combined, moves>>

\* removeParticle: the last local particle fills the gap.
RemoveParticle(t) ==
    /\ call = NoCall /\ changes < MaxChanges /\ t \in Active
    /\ LET filled(s) == LET i == CHOOSE j \in DOMAIN s : s[j] = t
                        IN Front([s EXCEPT ![i] = Last(s)])
       IN order' = [r \in Rank |-> IF t \in Local(r) THEN filled(order[r]) ELSE order[r]]
    /\ recycled' = Append(recycled, t)
    /\ SignalAll(Rank, {}, TRUE)
    /\ changes' = changes + 1
    /\ UNCHANGED <<kind, rtagsize, maxn, call, overrun, combined, moves>>

\* initializeFromSnapshot with n particles: new arrays on every rank.
Restore(n, home) ==
    /\ call = NoCall /\ changes < MaxChanges
    /\ order' = [r \in Rank |-> SelectSeq([i \in 1 .. n |-> i - 1], LAMBDA t : home[t] = r)]
    /\ recycled' = <<>> /\ rtagsize' = n
    /\ maxn' = [r \in Rank |-> AtLeastOne(Len(order'[r]))]
    /\ SignalAll(Rank, Rank, TRUE)
    /\ changes' = changes + 1
    /\ UNCHANGED <<kind, call, overrun, combined, moves>>

-----------------------------------------------------------------------------
(* The get() calls.                                                        *)

\* A dump writer calls getNumMembersGlobal() and getMemberTag() behind its test
\* for the root rank, all others call on every rank.
Callers == IF RootQueries THEN {Rank, {Root}} ELSE {Rank}

\* The script, an integrator or an analyzer calls getNumMembers(),
\* getMemberIndex(), isMember() ...
Query(g, ranks) ==
    /\ call = NoCall
    /\ \E r \in ranks : grp[r][g].sorted \/ grp[r][g].realloc \/ grp[r][g].change
    /\ call' = [group |-> g, todo |-> ranks, waiting |-> {}]
    /\ UNCHANGED <<order, kind, recycled, rtagsize, maxn, grp, overrun, combined, changes, moves>>

\* A rank that selects again posts its local selection to all_gather_v.
Post(r) ==
    /\ r \in call.todo /\ SelectsAgain(r, call.group)
    /\ call' = [call EXCEPT !.todo = @ \ {r}, !.waiting = @ \union {r}]
    /\ UNCHANGED <<order, kind, recycled, rtagsize, maxn, grp, overrun, combined, changes, moves>>

\* A rank that does not, repairs its caches by itself and returns.
Return(r) ==
    LET g == call.group
        c == CheckRebuild(r, grp[r][g], grp[r][g].tags)
    IN
    /\ r \in call.todo /\ ~SelectsAgain(r, g)
    /\ grp' = [grp EXCEPT ![r][g] = c]
    /\ overrun' = (overrun \/ Outside(r, grp[r][g], c))
    /\ call' = IF call.todo = {r} /\ call.waiting = {} THEN NoCall
               ELSE [call EXCEPT !.todo = @ \ {r}]
    /\ UNCHANGED <<order, kind, recycled, rtagsize, maxn, combined, changes, moves>>

\* What the ranks select, gathered from all of them.
Selection(g, r) == UNION {{t \in Local(q) : Selected(g, t)} : q \in Rank}

\* Mutation: the flag stays set, and each get() of the caller gathers again.
GatherAgain ==
    /\ call.waiting = Rank
    /\ call' = [call EXCEPT !.todo = Rank, !.waiting = {}]
    /\ UNCHANGED <<order, kind, recycled, rtagsize, maxn, grp, overrun, combined, changes, moves>>

\* all_gather_v ends when every rank has posted: new tag lists everywhere.
Gather ==
    LET g == call.group
        c(r) == CheckRebuild(r, grp[r][g], Selection(g, r))
    IN
    /\ call.waiting = Rank
    /\ grp' = [r \in Rank |-> [grp[r] EXCEPT ![g] = c(r)]]
    /\ overrun' = (overrun \/ \E r \in Rank : Outside(r, grp[r][g], c(r)))
    /\ call' = NoCall
    /\ UNCHANGED <<order, kind, recycled, rtagsize, maxn, combined, changes, moves>>

-----------------------------------------------------------------------------
(* groupUnion, groupIntersection and groupDifference.                      *)

Operation == {"union", "intersection", "difference"}

Combination(op, a, b) ==
    CASE op = "union" -> a \union b
      [] op = "intersection" -> a \intersect b
      [] op = "difference" -> a \ b

\* set_union and its relatives read the tag lists acquired before the calls of
\* getNumMembersGlobal(): if such a call selects again, the acquired list has
\* been freed and reads as anything.  The result is a new group of a tag list.
Combine(op, a, b, g, junk) ==
    LET again(x) == \E r \in Rank : SelectsAgain(r, x)
        tags(r, x) == IF SelectsAgain(r, x) THEN Selection(x, r) ELSE grp[r][x].tags
        done(r, x) == CheckRebuild(r, grp[r][x], tags(r, x))
        read(x) == IF again(x) THEN junk ELSE grp[Root][x].tags
        new == IF a = b THEN IF op = "difference" THEN {} ELSE read(a)
               ELSE Combination(op, read(a), read(b))
        made(r) == FreshArrays(r, [Cache(order[r], {}, maxn[r], rtagsize) EXCEPT !.tags = new])
    IN
    /\ call = NoCall /\ g \in Derived /\ {a, b} \subseteq Group \ Derived
    /\ (~again(a) /\ ~again(b)) => junk = {}
    /\ grp' = [r \in Rank |-> [x \in Group |->
                 CASE x = g -> made(r)
                   [] x \in {a, b} /\ ~(a = b /\ op = "difference") -> done(r, x)
                   [] OTHER -> grp[r][x]]]
    /\ combined' = [want |-> CASE op = "union" -> tags(Root, a) \union tags(Root, b)
                               [] op = "intersection" -> tags(Root, a) \intersect tags(Root, b)
                               [] op = "difference" -> tags(Root, a) \ tags(Root, b),
                    got |-> new]
    /\ overrun' = (overrun \/ \E r \in Rank : Outside(r, grp[r][g], made(r)))
    /\ UNCHANGED <<order, kind, recycled, rtagsize, maxn, call, changes, moves>>

-----------------------------------------------------------------------------
Next ==
    \/ \E r \in Rank : \E i \in 1 .. MaxTags : Sort(r, i)
    \/ \E t \in Tag, r \in Rank : Migrate(t, r)
    \/ \E k \in Kind : AddParticle(k)
    \/ \E t \in Tag : RemoveParticle(t)
    \/ \E n \in 1 .. InitialN : \E home \in [0 .. n - 1 -> Rank] : Restore(n, home)
    \/ \E g \in Group, ranks \in Callers : Query(g, ranks)
    \/ \E r \in Rank : Post(r) \/ Return(r)
    \/ Gather
    \/ \E op \in Operation, a, b \in Group, g \in Derived, junk \in SUBSET Tag :
          Combine(op, a, b, g, junk)

\* A rank that is in a call goes on: the script waits for it.
Spec == Init /\ [][Next]_vars /\ \A r \in Rank : WF_vars(Post(r) \/ Return(r)) /\ WF_vars(Gather)

-----------------------------------------------------------------------------
TypeOK ==
    /\ order \in [Rank -> Seq(Tag)] /\ kind \in [Tag -> Kind]
    /\ recycled \in Seq(Tag) /\ rtagsize \in 0 .. MaxTags
    /\ maxn \in [Rank -> 1 .. MaxTags]
    /\ \A r \in Rank, g \in Group :
          /\ grp[r][g].tags \subseteq Tag /\ grp[r][g].hash \subseteq Tag
          /\ grp[r][g].idx \in Seq(1 .. MaxTags)
    /\ call.todo \union call.waiting \subseteq Rank
    /\ overrun \in BOOLEAN

Settled(r, g) == ~grp[r][g].sorted /\ ~grp[r][g].realloc /\ ~grp[r][g].change

\* After a get() call on a rank the list of member indices (m_member_idx) and
\* the index flags (m_is_member) name exactly the local particles whose tags
\* the group lists, in index order, whatever sorts, migrations, additions,
\* removals and snapshots came before it.
IndexListTrue ==
    \A r \in Rank, g \in Group : Settled(r, g) =>
        LET c == grp[r][g]
            mine == {i \in DOMAIN order[r] : order[r][i] \in c.tags}
        IN /\ ToSet(c.idx) = mine /\ c.member = mine
           /\ \A i, j \in DOMAIN c.idx : i < j => c.idx[i] < c.idx[j]

\* A group created with update=True lists, after a get() call, exactly the
\* particles that exist and that its selector accepts, the same on each rank.
MembersCurrent ==
    \A r \in Rank, g \in Updated :
        ~grp[r][g].change => grp[r][g].tags = {t \in Active : Selected(g, t)}

\* No access of buildTagHash() or rebuildIndexList() goes past the end of the
\* flags by tag (m_is_member_tag) or by index (m_is_member).
InBounds == ~overrun

\* While a rank waits in the all_gather_v of updateMemberTags() every other
\* rank waits there too or is still about to make the same call.
Matched == call.waiting = {} \/ call.waiting \union call.todo = Rank

\* A combined group contains what the set operation on the members of the two
\* groups gives.
CombinedRight == combined.got = combined.want

\* A get() call comes back on every rank.
QueryEnds == call # NoCall ~> call = NoCall
=============================================================================
