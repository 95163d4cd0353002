---------------------------- MODULE ParticleData ----------------------------
(***************************************************************************)
(* libhoomd/data_structures/ParticleData: the particles of all MPI ranks.  *)
(*                                                                         *)
(* A particle is known by its tag.  Every rank keeps arrays of the         *)
(* particles it owns (indices below m_nparticles), followed by copies of   *)
(* other ranks' particles (ghosts), and a table m_rtag from tag to index.  *)
(* The set of active tags, the stack of tags to recycle and the global     *)
(* particle number are replicated: every rank makes the same calls, so one *)
(* copy of them is kept here.  Of the per-particle fields only the tag is  *)
(* kept.                                                                   *)
(*                                                                         *)
(* A particle changes rank in two steps of two ranks: removeParticles() on *)
(* the sender, addParticles() on the receiver.  In between it is in a      *)
(* message (wire).                                                         *)
(***************************************************************************)
EXTENDS Integers, Sequences, FiniteSets

CONSTANTS
    Ranks,     \* the MPI ranks; one rank is a run without decomposition
    Root,      \* rank 0
    Nobody,    \* "no rank"
    MaxTags    \* bound: number of distinct tags

ASSUME ParticleDataAssumption == /\ IsFiniteSet(Ranks)
                                 /\ Root \in Ranks /\ Nobody \notin Ranks
                                 /\ MaxTags \in Nat \ {0}

VARIABLES
    m_nglobal, m_tag_set,
    m_recycled_tags,        \* a stack, the top is the last element
    m_rtag_size,            \* m_rtag.size()
    m_cached_tag_set, m_invalid_cached_tags,
    pd,                     \* pd[r]: the arrays of rank r
    m_max_nparticles,       \* m_max_nparticles[r]: their allocated length
    dest,                   \* dest[r]: whom r has to send particles to
    wire                    \* wire[r]: the particles on their way to r

pool == <<m_nglobal, m_tag_set, m_recycled_tags, m_rtag_size>>
cache == <<m_cached_tag_set, m_invalid_cached_tags>>
vars == <<pool, cache, pd, m_max_nparticles, dest, wire>>

Tags == 0 .. (MaxTags - 1)

\* 0xffffffff: an index no array has.
NOT_LOCAL == -1

\* An array of n tags.
Array(n) == [0 .. (n - 1) -> Tags]
Empty == [i \in 0 .. -1 |-> 0]

Length(b) == Cardinality(DOMAIN b)
Locals(d) == 0 .. (d.m_nparticles - 1)
Ghosts(d) == d.m_nparticles .. (d.m_nparticles + d.m_nghosts - 1)

IsParticleArrays(d) ==
    d \in [m_nparticles : Nat, m_nghosts : Nat,
           m_tag : Array(d.m_nparticles + d.m_nghosts),
           m_rtag : [Tags -> Nat \cup {NOT_LOCAL}],
           m_comm_flags : SUBSET Nat]

TypeOK ==
    /\ m_nglobal \in Nat
    /\ m_tag_set \subseteq Tags
    /\ m_recycled_tags \in Seq(Tags)
    /\ m_rtag_size \in Nat
    /\ m_cached_tag_set \subseteq Tags
    /\ m_invalid_cached_tags \in BOOLEAN
    /\ DOMAIN pd = Ranks /\ \A r \in Ranks : IsParticleArrays(pd[r])
    /\ dest \in [Ranks -> Ranks \cup {Nobody}]
    /\ DOMAIN wire = Ranks
    /\ \A r \in Ranks : wire[r] \in Array(Length(wire[r]))

-----------------------------------------------------------------------------
(* The arrays of one rank.                                                 *)

\* The elements of a finite set of numbers in increasing order.
Position(S, x) == Cardinality({u \in S : u < x})
InOrder(S) == [i \in 0 .. (Cardinality(S) - 1) |->
                  CHOOSE x \in S : Position(S, x) = i]

\* The while loop of resize(), reallocate() and addGhostParticles().
Grown(n, max) ==
    LET after[k \in Nat] ==
            IF k = 0 THEN max
            ELSE IF n > after[k - 1] THEN (after[k - 1] * 9) \div 8 + 1
                                     ELSE after[k - 1]
    IN  after[n]

\* removeAllGhostParticles() and Communicator::removeGhostParticleTags.
removeAllGhostParticles(d) ==
    [d EXCEPT !.m_nghosts = 0,
              !.m_tag = [i \in Locals(d) |-> d.m_tag[i]],
              !.m_rtag = [t \in Tags |->
                  IF \E i \in Ghosts(d) : d.m_tag[i] = t
                  THEN NOT_LOCAL ELSE d.m_rtag[t]]]

WithoutGhosts == [r \in Ranks |-> removeAllGhostParticles(pd[r])]

\* The rtags of the particles at 0 .. n - 1 of array m, others as in rtag.
Rebuilt(m, n, rtag) ==
    [t \in Tags |-> IF \E i \in 0 .. (n - 1) : m[i] = t
                    THEN CHOOSE i \in 0 .. (n - 1) : m[i] = t
                    ELSE rtag[t]]

\* removeParticles(): the flagged particles leave the arrays, which are
\* packed in order.  Flags above the new particle number stay as they are.
Leaving(d) == d.m_comm_flags \cap Locals(d)

Sent(d) == LET e == InOrder(Leaving(d))
           IN  [i \in DOMAIN e |-> d.m_tag[e[i]]]

removeParticles(d) ==
    LET e == InOrder(Locals(d) \ Leaving(d))
        n == Cardinality(Locals(d) \ Leaving(d))
        packed == [i \in 0 .. (n - 1) |-> d.m_tag[e[i]]]
        erased == [t \in Tags |-> IF \E i \in Leaving(d) : d.m_tag[i] = t
                                  THEN NOT_LOCAL ELSE d.m_rtag[t]]
    IN  [d EXCEPT !.m_nparticles = n, !.m_tag = packed,
                  !.m_rtag = Rebuilt(packed, n, erased),
                  !.m_comm_flags = @ \ (0 .. (n - 1))]

\* addParticles(): the particles of a message are appended.
addParticles(d, b) ==
    LET n == d.m_nparticles + Length(b)
        m == [i \in 0 .. (n - 1) |-> IF i < d.m_nparticles THEN d.m_tag[i]
                                     ELSE b[i - d.m_nparticles]]
    IN  [d EXCEPT !.m_nparticles = n, !.m_tag = m,
                  !.m_rtag = Rebuilt(m, n, d.m_rtag),
                  !.m_comm_flags = @ \ (d.m_nparticles .. (n - 1))]

\* Mutation: the rtag of the moved particle is not updated.
SwapLastOldRtag(d, idx) ==
    LET last == d.m_nparticles - 1
    IN  [d EXCEPT !.m_nparticles = last,
                  !.m_tag = [i \in 0 .. (last - 1) |->
                                d.m_tag[IF i = idx THEN last ELSE i]]]

\* removeParticle() on the owner: the last particle moves into the hole.
SwapLast(d, idx) ==
    LET last == d.m_nparticles - 1
    IN  [d EXCEPT !.m_nparticles = last,
                  !.m_tag = [i \in 0 .. (last - 1) |->
                                d.m_tag[IF i = idx THEN last ELSE i]],
                  !.m_rtag = IF idx < last
                             THEN [@ EXCEPT ![d.m_tag[last]] = idx] ELSE @,
                  !.m_comm_flags = IF idx < last
                                   THEN (@ \ {idx}) \cup
                                        {i \in {idx} : last \in @}
                                   ELSE @]

-----------------------------------------------------------------------------
(* Operations that every rank calls together.                              *)

\* No rank has particles to send or to receive.
Quiet == \A r \in Ranks : dest[r] = Nobody /\ wire[r] = Empty

\* resize(): the allocated arrays only grow.
Resized(new) == [r \in Ranks |-> Grown(new[r].m_nparticles + new[r].m_nghosts,
                                       m_max_nparticles[r])]

\* The arrays a snapshot of k particles gives to a rank, in tag order.
Scattered(place, k, r) ==
    LET S == {t \in 0 .. (k - 1) : place[t] = r}
        m == InOrder(S)
        n == Cardinality(S)
    IN  [m_nparticles |-> n, m_nghosts |-> 0, m_tag |-> m,
         m_rtag |-> Rebuilt(m, n, [t \in Tags |-> IF t < k THEN NOT_LOCAL
                                                           ELSE 0]),
         m_comm_flags |-> {}]

\* A rank without particles allocates room for one.
Allocated(n) == IF n = 0 THEN 1 ELSE n

\* Mutation: the cache is not invalidated.
InitializeFromSnapshotKeepCache(k, place) ==
    /\ Quiet
    /\ k > 0 \/ Ranks # {Root}
    /\ m_nglobal' = k
    /\ m_tag_set' = 0 .. (k - 1)
    /\ m_recycled_tags' = <<>>
    /\ m_rtag_size' = k
    /\ pd' = [r \in Ranks |-> Scattered(place, k, r)]
    /\ m_max_nparticles' = [r \in Ranks |-> Allocated(pd'[r].m_nparticles)]
    /\ UNCHANGED <<cache, dest, wire>>

\* initializeFromSnapshot(): placeParticle() puts each particle on a rank.
\* Without decomposition an empty snapshot is refused by allocate().
InitializeFromSnapshot(k, place) ==
    /\ Quiet
    /\ k > 0 \/ Ranks # {Root}
    /\ m_nglobal' = k
    /\ m_tag_set' = 0 .. (k - 1)
    /\ m_recycled_tags' = <<>>
    /\ m_rtag_size' = k
    /\ m_invalid_cached_tags' = TRUE
    /\ pd' = [r \in Ranks |-> Scattered(place, k, r)]
    /\ m_max_nparticles' = [r \in Ranks |-> Allocated(pd'[r].m_nparticles)]
    /\ UNCHANGED <<m_cached_tag_set, dest, wire>>

getMaximumTag(S) == CHOOSE t \in S : \A u \in S : u <= t

\* Mutation: a new tag although tags are there to recycle.
NewTagAlways == m_nglobal

NewTag == IF m_recycled_tags # <<>>
          THEN m_recycled_tags[Len(m_recycled_tags)] ELSE m_nglobal

\* addParticle(): rank 0 owns the new particle.
AddParticle ==
    LET tag == NewTag
        gone(d) == [d EXCEPT !.m_rtag[tag] = NOT_LOCAL]
        b == [i \in {0} |-> tag]
    IN  /\ Quiet
        /\ tag \in Tags
        /\ m_recycled_tags' =
              IF m_recycled_tags = <<>> THEN <<>>
              ELSE SubSeq(m_recycled_tags, 1, Len(m_recycled_tags) - 1)
        /\ m_tag_set' = m_tag_set \cup {tag}
        /\ m_invalid_cached_tags' = TRUE
        /\ m_rtag_size' = getMaximumTag(m_tag_set') + 1
        /\ pd' = [r \in Ranks |-> IF r = Root
                                  THEN addParticles(WithoutGhosts[r], b)
                                  ELSE gone(WithoutGhosts[r])]
        /\ m_max_nparticles' = Resized(pd')
        /\ m_nglobal' = m_nglobal + 1
        /\ UNCHANGED <<m_cached_tag_set, dest, wire>>

\* The rank whose getRTag(tag) < getN(); an allreduce finds it.
IsLocal(d, tag) == d.m_rtag[tag] \in Locals(d)
Owners(tag) == {r \in Ranks : IsLocal(pd[r], tag)}

\* removeParticle().
RemoveParticle(tag) ==
    LET bare == WithoutGhosts
        gone(d) == [d EXCEPT !.m_rtag[tag] = NOT_LOCAL]
    IN  /\ Quiet
        /\ m_nglobal > 0 /\ tag < m_rtag_size
        /\ Owners(tag) # {}
        /\ pd' = [r \in Ranks |->
                    IF r \in Owners(tag)
                    THEN SwapLast(gone(bare[r]), bare[r].m_rtag[tag])
                    ELSE gone(bare[r])]
        /\ m_tag_set' = m_tag_set \ {tag}
        /\ m_recycled_tags' = Append(m_recycled_tags, tag)
        /\ m_invalid_cached_tags' = TRUE
        /\ m_nglobal' = m_nglobal - 1
        /\ UNCHANGED <<m_rtag_size, m_cached_tag_set, m_max_nparticles,
                       dest, wire>>

\* It throws for a tag that was never used or was removed before, but the
\* ghosts are already gone.
RemoveParticleThrows(tag) ==
    /\ Quiet
    /\ m_nglobal > 0
    /\ tag >= m_rtag_size \/ Owners(tag) = {}
    /\ pd' = WithoutGhosts
    /\ UNCHANGED <<pool, cache, m_max_nparticles, dest, wire>>

\* getNthTag() and the other readers of the active tags.
maybe_rebuild_tag_cache ==
    /\ m_invalid_cached_tags
    /\ m_cached_tag_set' = m_tag_set
    /\ m_invalid_cached_tags' = FALSE
    /\ UNCHANGED <<pool, pd, m_max_nparticles, dest, wire>>

-----------------------------------------------------------------------------
(* Particles that change rank.                                             *)

\* setPosition() with a position in another rank's domain: the owner marks
\* the particle for sending.
SetPosition(tag, new_rank) ==
    \E owner \in Ranks :
        /\ Quiet
        /\ tag < m_rtag_size /\ Owners(tag) = {owner}
        /\ new_rank # owner
        /\ pd' = [WithoutGhosts EXCEPT ![owner].m_comm_flags =
                     @ \cup {pd[owner].m_rtag[tag]}]
        /\ dest' = [dest EXCEPT ![owner] = new_rank]
        /\ UNCHANGED <<pool, cache, m_max_nparticles, wire>>

\* Communicator::migrateParticles(), one of its six directions: every rank
\* marks the particles that left its box on that side.
Migrate(neighbor, left) ==
    /\ Quiet
    /\ \A r \in Ranks : left[r] \subseteq Locals(pd[r])
    /\ pd' = [r \in Ranks |->
                 LET d == removeAllGhostParticles(pd[r])
                 IN  [d EXCEPT !.m_comm_flags = (@ \ Locals(d)) \cup left[r]]]
    /\ dest' = neighbor
    /\ UNCHANGED <<pool, cache, m_max_nparticles, wire>>

\* removeParticles() on the sender, and its message.
Send(r) ==
    /\ dest[r] # Nobody
    /\ wire' = [wire EXCEPT ![dest[r]] = Sent(pd[r])]
    /\ pd' = [pd EXCEPT ![r] = removeParticles(pd[r])]
    /\ dest' = [dest EXCEPT ![r] = Nobody]
    /\ UNCHANGED <<pool, cache, m_max_nparticles>>

\* addParticles() on the receiver, which has done its own sending.
Receive(r) ==
    /\ wire[r] # Empty /\ dest[r] = Nobody
    /\ pd' = [pd EXCEPT ![r] = addParticles(pd[r], wire[r])]
    /\ m_max_nparticles' = Resized(pd')
    /\ wire' = [wire EXCEPT ![r] = Empty]
    /\ UNCHANGED <<pool, cache, dest>>

-----------------------------------------------------------------------------
(* Operations of one rank.                                                 *)

\* SFCPackUpdater::applySortOrder(), after a migration removed the ghosts.
Sort(r, order) ==
    LET d == pd[r]
        m == [i \in Locals(d) |-> d.m_tag[order[i]]]
    IN  /\ Quiet
        /\ d.m_nghosts = 0
        /\ pd' = [pd EXCEPT ![r].m_tag = m,
                            ![r].m_rtag = Rebuilt(m, d.m_nparticles, @)]
        /\ UNCHANGED <<pool, cache, m_max_nparticles, dest, wire>>

\* One direction of Communicator::exchangeGhosts(): addGhostParticles(), then
\* the tags received from a neighbor and their rtags.
AddGhosts(r, b) ==
    LET d == pd[r]
        n == d.m_nparticles + d.m_nghosts
        m == [i \in 0 .. (n + Length(b) - 1) |->
                 IF i < n THEN d.m_tag[i] ELSE b[i - n]]
    IN  /\ Quiet
        /\ \A i \in DOMAIN b : /\ d.m_rtag[b[i]] = NOT_LOCAL
                                /\ Owners(b[i]) # {} /\ b[i] < m_rtag_size
        /\ \A i, j \in DOMAIN b : b[i] = b[j] => i = j
        /\ pd' = [pd EXCEPT ![r].m_nghosts = @ + Length(b), ![r].m_tag = m,
                            ![r].m_rtag = Rebuilt(m, n + Length(b), @)]
        /\ m_max_nparticles' = Resized(pd')
        /\ UNCHANGED <<pool, cache, dest, wire>>

-----------------------------------------------------------------------------
\* The constructor initialises the system from its first snapshot.
Init ==
    /\ \E k \in 0 .. MaxTags : \E place \in [0 .. (k - 1) -> Ranks] :
          /\ k > 0 \/ Ranks # {Root}
          /\ m_nglobal = k /\ m_tag_set = 0 .. (k - 1) /\ m_rtag_size = k
          /\ pd = [r \in Ranks |-> Scattered(place, k, r)]
    /\ m_recycled_tags = <<>>
    /\ m_cached_tag_set = {} /\ m_invalid_cached_tags = TRUE
    /\ m_max_nparticles = [r \in Ranks |-> Allocated(pd[r].m_nparticles)]
    /\ dest = [r \in Ranks |-> Nobody]
    /\ wire = [r \in Ranks |-> Empty]

\* The neighbors in one direction of the domain grid.
Shifts == {f \in [Ranks -> Ranks] : /\ \A r, s \in Ranks : f[r] = f[s] => r = s
                                   /\ \A r \in Ranks : f[r] # r}

Permutations(S) == {f \in [S -> S] : \A i, j \in S : f[i] = f[j] => i = j}

Collective ==
    \/ \E k \in 0 .. MaxTags : \E place \in [0 .. (k - 1) -> Ranks] :
          InitializeFromSnapshot(k, place)
    \/ AddParticle
    \/ \E tag \in Tags : RemoveParticle(tag) \/ RemoveParticleThrows(tag)
    \/ maybe_rebuild_tag_cache
    \/ \E tag \in Tags, r \in Ranks : SetPosition(tag, r)
    \/ \E neighbor \in Shifts :
          \E left \in [Ranks -> SUBSET Tags] :
             Migrate(neighbor, left)

OneRank(r) ==
    \/ Send(r) \/ Receive(r)
    \/ \E order \in Permutations(Locals(pd[r])) : Sort(r, order)
    \/ \E n \in 1 .. MaxTags : \E b \in Array(n) : AddGhosts(r, b)

Next == Collective \/ \E r \in Ranks : OneRank(r)

Spec == Init /\ [][Next]_vars

-----------------------------------------------------------------------------
(* Properties.                                                             *)

\* m_tag and m_rtag are inverse to each other on every rank, ghosts included,
\* and a tag that is not there (never was, or its particle moved away or was
\* removed) reads NOT_LOCAL: a stale entry would make another particle answer
\* for the tag.
TagsInverse ==
    \A r \in Ranks : LET d == pd[r]
                         here == Locals(d) \cup Ghosts(d) IN
        /\ \A i \in here : d.m_rtag[d.m_tag[i]] = i
        /\ \A t \in 0 .. (m_rtag_size - 1) :
              \/ d.m_rtag[t] = NOT_LOCAL
              \/ d.m_rtag[t] \in here /\ d.m_tag[d.m_rtag[t]] = t

\* The particle is in the arrays of rank r, or in a message on its way to r.
HasLocal(r, t) == \E i \in Locals(pd[r]) : pd[r].m_tag[i] = t
Carried(r, t) == \E i \in DOMAIN wire[r] : wire[r][i] = t

\* No particle is lost or duplicated, whatever the order in which ranks send
\* and receive: an active tag is on one rank or in one message, a removed or
\* unused tag nowhere.
OwnedOnce ==
    /\ \A t \in m_tag_set : \E r \in Ranks :
          /\ HasLocal(r, t) \/ Carried(r, t)
          /\ ~(HasLocal(r, t) /\ Carried(r, t))
          /\ \A s \in Ranks \ {r} : ~HasLocal(s, t) /\ ~Carried(s, t)
    /\ \A r \in Ranks, t \in Tags :
          HasLocal(r, t) \/ Carried(r, t) => t \in m_tag_set

\* A ghost is a copy of a particle that another rank owns: no operation that
\* removes or moves a particle leaves a ghost of it behind.
GhostsBacked ==
    \A r \in Ranks : \A i \in Ghosts(pd[r]) :
        \E s \in Ranks \ {r} : HasLocal(s, pd[r].m_tag[i])

\* The tags in use and the tags to recycle partition an initial segment of
\* the numbers, so that a recycled tag, or m_nglobal when there is none, is
\* always a tag that no particle has, and is the next entry of m_rtag (the
\* assertions of addParticle(), takeSnapshot() and getNthTag()).
TagPool ==
    LET k == m_nglobal + Len(m_recycled_tags)
        recycled == {m_recycled_tags[i] : i \in 1 .. Len(m_recycled_tags)}
    IN  /\ m_nglobal = Cardinality(m_tag_set)
        /\ m_tag_set \cup recycled = 0 .. (k - 1)
        /\ m_tag_set \cap recycled = {}
        /\ \A i, j \in 1 .. Len(m_recycled_tags) :
              m_recycled_tags[i] = m_recycled_tags[j] => i = j
        /\ m_recycled_tags = <<>> => m_rtag_size = m_nglobal
        /\ \A t \in m_tag_set : t < m_rtag_size

\* The cached array of active tags is current whenever getNthTag() trusts it.
CacheCurrent == ~m_invalid_cached_tags => m_cached_tag_set = m_tag_set

\* Between communications no particle is marked for sending, so setPosition()
\* never meets "More than one particle marked for sending".
FlagsClear == Quiet => \A r \in Ranks : Leaving(pd[r]) = {}

\* Nothing that an earlier operation left behind answers for a later one: no cached
\* tag and no mark for sending.
NothingStale == TypeOK /\ CacheCurrent /\ FlagsClear

\* Every index in use is inside the allocated arrays.
CapacitySuffices ==
    \A r \in Ranks : pd[r].m_nparticles + pd[r].m_nghosts
                        <= m_max_nparticles[r]

\* Every particle is in one place, its tag leads there, the ghosts are copies of
\* particles that exist, and there is room for all of them.
ParticlesRight == TagsInverse /\ OwnedOnce /\ GhostsBacked /\ CapacitySuffices
=============================================================================
