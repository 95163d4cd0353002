--------------------------- MODULE GPUCommunicator ---------------------------
(***************************************************************************)
(* libhoomd/communication/CommunicatorGPU and its kernels: migration of    *)
(* particles and bonded groups, ghost exchange and ghost update in stages. *)
(*                                                                         *)
(* Where Communicator passes particles on from face to face, a rank here   *)
(* sends to all its neighbors at once, edges and corners included, if      *)
(* there is one stage.  With more stages, every stage serves some of the   *)
(* directions, and what goes to a corner is passed on.                     *)
(*                                                                         *)
(* Ranks form a W x H grid of domains of L x L points (the third direction *)
(* repeats the other two).  Every rank runs the same program of calls at   *)
(* its own pace and waits in MPI_Waitall() only, for one message from each *)
(* of the ranks it exchanges with; between two waits it runs in one step.  *)
(***************************************************************************)
EXTENDS Integers, Sequences, FiniteSets, SequencesExt

CONSTANTS
    W, H,       \* the domain grid
    L,          \* domain size
    R,          \* ghost layer width
    Reach,      \* how far a particle leaves its domain before it migrates
    Moves,      \* displacements of a particle between two calls
    NParticles, \* number of particles
    Starts,     \* placements of the particles before the first call
    Members,    \* bonded groups: sequence of sequences of tags
    Programs,   \* sequences of calls, see Call
    Eager       \* whether MPI_Isend completes before the message is received

Particles == 0 .. (NParticles - 1)     \* tags
Groups == DOMAIN Members
Ranks == (0 .. (W - 1)) \X (0 .. (H - 1))
CallNames == {"migrate", "update", "one", "two", "three"}

GPUCommunicatorAssumption ==
    /\ W \in Nat \ {0} /\ H \in Nat \ {0} /\ W * H > 1
    /\ L \in Nat \ {0} /\ R \in Nat /\ 2 * R < L        \* checkBoxSize()
    /\ Reach \in Nat /\ 2 * Reach < L /\ NParticles \in Nat
    /\ Starts \subseteq [Particles -> Int \X Int]
    /\ Members \in Seq(Seq(Particles)) /\ Programs \subseteq Seq(CallNames)
    /\ Eager \in BOOLEAN

VARIABLES
    program,    \* the calls that all ranks make
    comm,       \* comm[r]: the Communicator, particles and groups of rank r
    net         \* net[s][r]: messages from s to r, in order

vars == <<program, comm, net>>

-----------------------------------------------------------------------------
(* The neighbors of a rank.                                                *)

Size(a) == IF a = 1 THEN W ELSE H
Dirs == {"east", "west", "north", "south"}
Positive(a) == IF a = 1 THEN "east" ELSE "north"
Negative(a) == IF a = 1 THEN "west" ELSE "south"

Offsets == {o \in (-1 .. 1) \X (-1 .. 1) :
               o # <<0, 0>> /\ \A a \in {1, 2} : o[a] # 0 => Size(a) > 1}

At(r, o) == <<(r[1] + o[1]) % W, (r[2] + o[2]) % H>>

\* m_unique_neighbors, in the order of their ranks.
RankId(r) == r[2] * W + r[1]
Neighbors(r) == {At(r, o) : o \in Offsets}
InOrder(S) == SetToSortSeq(S, LAMBDA x, y : RankId(x) < RankId(y))

\* m_adj_mask: the directions in which rank s is a neighbor of r.
Adj(r, s) == {o \in Offsets : At(r, o) = s}

SendFlags(o) ==
    UNION {IF o[a] = 1 THEN {Positive(a)} ELSE IF o[a] = -1 THEN {Negative(a)}
           ELSE {} : a \in {1, 2}}

NeighFlags(r, s) == UNION {SendFlags(o) : o \in Adj(r, s)}

-----------------------------------------------------------------------------
(* initializeCommunicationStages(): maxStages is m_max_stages.             *)

\* The stage that serves axis a.
AxisStage(maxStages, a) ==
    LET x == IF W > 1 THEN 0 ELSE -1
    IN  IF a = 2 /\ H > 1 /\ x + 1 < maxStages THEN x + 1 ELSE x

FirstStage(maxStages, flags) ==
    IF {"north", "south"} \cap flags # {} THEN AxisStage(maxStages, 2)
                                           ELSE AxisStage(maxStages, 1)

NumStages(r, maxStages) ==
    1 + CHOOSE n \in 0 .. 2 :
          /\ \E s \in Neighbors(r) : FirstStage(maxStages, NeighFlags(r, s)) = n
          /\ \A s \in Neighbors(r) : FirstStage(maxStages, NeighFlags(r, s)) <= n

\* m_comm_mask: the directions of a stage that no earlier stage has.
CommMask(r, maxStages, stage) ==
    LET served(n) == UNION {NeighFlags(r, s) :
            s \in {q \in Neighbors(r) :
                     FirstStage(maxStages, NeighFlags(r, q)) = n}}
    IN  served(stage) \ UNION {served(n) : n \in 0 .. (stage - 1)}

\* m_stages: the first stage that serves all directions of a neighbor.  A
\* corner that no stage serves keeps the stage it had.
Stages(r, maxStages, old) ==
    [s \in Neighbors(r) |->
        LET fits == {n \in 0 .. (NumStages(r, maxStages) - 1) :
                       NeighFlags(r, s) \subseteq CommMask(r, maxStages, n)}
        IN  IF fits = {} THEN old[s] ELSE CHOOSE n \in fits : \A k \in fits : n <= k]

-----------------------------------------------------------------------------
(* The state of a rank: own and ghosts are the particle arrays, groups the *)
(* group table with the ranks of the members, sends[n][s] the part of      *)
(* m_ghost_idx_adj for rank s and recvs[n][s] m_n_recv_ghosts of stage n.  *)

Exchanging == {"ranks", "groups", "particles", "exchange", "update"}
Idle == {"start", "migrated", "updated"}

All(c) == c.own \o c.ghosts
IsLocal(c, t) == \E i \in DOMAIN c.own : c.own[i].tag = t
PosOf(c, t) == c.own[CHOOSE i \in DOMAIN c.own : c.own[i].tag = t].pos

Num(r, c) == NumStages(r, c.m_max_stages)
Mask(r, c) == CommMask(r, c.m_max_stages, c.stage)

Lo(r, a) == r[a] * L
Hi(r, a) == (r[a] + 1) * L

Within(r, pos, w) ==
    \A a \in {1, 2} : LET u == IF Size(a) > 1 THEN w ELSE 0
                      IN  pos[a] \in (Lo(r, a) - u) .. (Hi(r, a) + u - 1)

\* The elements of s at the indices in S, in order.
Pick(s, S) == LET kept == SetToSortSeq(S, <) IN [i \in DOMAIN kept |-> s[kept[i]]]

-----------------------------------------------------------------------------
(* migrateParticles()                                                      *)

\* gpu_stage_particles(): the directions in which a particle has left.
CommFlags(r, c, pos) ==
    (UNION {(IF pos[a] >= Hi(r, a) THEN {Positive(a)} ELSE {})
            \cup (IF pos[a] < Lo(r, a) THEN {Negative(a)} ELSE {}) : a \in {1, 2}})
    \cap Mask(r, c)

\* get_migrate_key: the rank a particle with these flags goes to.
MigrateKey(r, flags) ==
    LET ix == IF "east" \in flags THEN 1 ELSE IF "west" \in flags THEN -1 ELSE 0
        iy == IF "north" \in flags THEN 1 ELSE IF "south" \in flags THEN -1 ELSE 0
    IN  At(r, <<ix, iy>>)

Leaves(r, c, t) == IsLocal(c, t) /\ CommFlags(r, c, PosOf(c, t)) # {}
Dest(r, c, t) == MigrateKey(r, CommFlags(r, c, PosOf(c, t)))

(* Groups, phase 1.  gpu_mark_groups(): a rank writes where its members go *)
(* and tells the other ranks of the group.                                 *)

Slots(g) == DOMAIN Members[g]

Marked(r, c, g) ==
    [i \in Slots(g) |->
        LET t == Members[g][i] IN
        IF Leaves(r, c, t) THEN Dest(r, c, t)
        ELSE IF IsLocal(c, t) /\ c.m_bonds_changed THEN r
        ELSE c.groups[g][i]]

\* m_rank_mask: the members whose ranks it tells.
RankMask(r, c, g) ==
    LET local == {i \in Slots(g) : IsLocal(c, Members[g][i])}
        leaving == {i \in Slots(g) : Leaves(r, c, Members[g][i])}
    IN  IF local = Slots(g) /\ leaving = {} THEN {}
        ELSE IF c.m_bonds_changed THEN local ELSE leaving

\* Whom it tells; c.groups holds the ranks written before.
Tells(r, c, g) ==
    IF RankMask(r, c, g) = {} THEN {}
    ELSE IF c.m_bonds_changed THEN Neighbors(r)
    ELSE {c.groups[g][i] : i \in Slots(g) \ RankMask(r, c, g)} \ {r}

MarkGroups(r, c) ==
    [c EXCEPT !.groups = [g \in DOMAIN c.groups |-> Marked(r, c, g)]]

RankElements(r, c, s) ==
    {[tag |-> g, ranks |-> c.groups[g], mask |-> RankMask(r, c, g)] :
       g \in {x \in DOMAIN c.groups : s \in Tells(r, c, x)}}

\* gpu_update_ranks_table()
UpdateRanksTable(c, elements) ==
    [c EXCEPT !.groups = [g \in DOMAIN c.groups |->
        [i \in Slots(g) |->
            LET told == {e \in elements : e.tag = g /\ i \in e.mask}
            IN  IF told = {} THEN c.groups[g][i]
                ELSE (CHOOSE e \in told : TRUE).ranks[i]]]]

(* Phase 2.  A group goes to where its members go, and stays as long as a  *)
(* member stays.                                                           *)

GroupElements(r, c, s) ==
    {[tag |-> g, ranks |-> c.groups[g]] :
       g \in {x \in DOMAIN c.groups : \E i \in Slots(x) :
                Leaves(r, c, Members[x][i]) /\ c.groups[x][i] = s}}

\* gpu_scatter_and_mark_groups_for_removal()
Stays(r, c, g) ==
    \/ \A i \in Slots(g) : ~Leaves(r, c, Members[g][i])
    \/ \E i \in Slots(g) : IsLocal(c, Members[g][i]) /\ ~Leaves(r, c, Members[g][i])

\* gpu_remove_groups()
RemoveGroups(r, c) ==
    [c EXCEPT !.groups =
        [g \in {x \in DOMAIN c.groups : Stays(r, c, x)} |-> c.groups[g]]]

\* Duplicates are dropped, and gpu_add_groups() keeps what is there already.
AddGroups(c, elements) ==
    [c EXCEPT !.groups =
        [g \in DOMAIN c.groups \cup {e.tag : e \in elements} |->
            IF g \in DOMAIN c.groups THEN c.groups[g]
            ELSE (CHOOSE e \in elements : e.tag = g).ranks],
              !.m_bonds_changed = FALSE]

(* The particles follow.                                                   *)

SendPtls(r, c, s) ==
    Pick(c.own, {i \in DOMAIN c.own : /\ Leaves(r, c, c.own[i].tag)
                                      /\ Dest(r, c, c.own[i].tag) = s})

\* removeParticlesGPU() takes out all particles with flags.
RemovePtls(r, c) ==
    [c EXCEPT !.own = Pick(c.own, {i \in DOMAIN c.own : ~Leaves(r, c, c.own[i].tag)})]

\* getShiftedBox(): the global box moves by half of the domain across the
\* boundary, and by a little more (tol).
ShiftedLo(r, a) ==
    IF Size(a) = 1 THEN 0
    ELSE (IF r[a] = Size(a) - 1 THEN (L \div 2) + 1 ELSE 0)
         - (IF r[a] = 0 THEN L \div 2 ELSE 0)

\* gpu_wrap_particles()
Wrapped(r, pos) ==
    [a \in {1, 2} |->
        LET n == Size(a) * L IN
        IF Size(a) = 1 THEN pos[a]
        ELSE IF pos[a] >= ShiftedLo(r, a) + n THEN pos[a] - n
        ELSE IF pos[a] < ShiftedLo(r, a) THEN pos[a] + n ELSE pos[a]]

AddPtls(r, c, ptls) ==
    [c EXCEPT !.own = @ \o [i \in DOMAIN ptls |->
                              [ptls[i] EXCEPT !.pos = Wrapped(r, @)]]]

-----------------------------------------------------------------------------
(* exchangeGhosts()                                                        *)

\* gpu_make_ghost_exchange_plan()
GhostLayers(r, c, pos) ==
    (UNION {(IF pos[a] >= Hi(r, a) - R THEN {Positive(a)} ELSE {})
            \cup (IF pos[a] < Lo(r, a) + R THEN {Negative(a)} ELSE {}) : a \in {1, 2}})
    \cap Mask(r, c)

\* Of two opposite directions the one on the side of the particle.
Disambiguated(r, flags, pos) ==
    flags \ UNION {IF ~({Positive(a), Negative(a)} \subseteq flags) THEN {}
                   ELSE IF 2 * (pos[a] - Lo(r, a)) > L THEN {Negative(a)}
                   ELSE {Positive(a)} : a \in {1, 2}}

\* Mutation: a corner is not considered a neighbor.
FlagsToFaces(r, c, s) ==
    (IF s \in Neighbors(r) /\ (s[1] = r[1] \/ s[2] = r[2]) THEN NeighFlags(r, s)
     ELSE {}) \cap Mask(r, c)

\* Only neighbors are considered, in the directions of the stage.
FlagsTo(r, c, s) ==
    (IF s \in Neighbors(r) THEN NeighFlags(r, s) ELSE {}) \cap Mask(r, c)

\* rtag of a tag among own particles and the ghosts received so far.
RTag(c, t) == {i \in DOMAIN All(c) : All(c)[i].tag = t}

\* gpu_mark_bonded_ghosts(): the directions in which the members of group g
\* go to rank s.  They are decided by the first member that is found, for all.
BondFlags(r, c, g, s) ==
    LET found == {i \in Slots(g) : RTag(c, Members[g][i]) # {}}
        first == CHOOSE i \in found : \A j \in found : i <= j
        at == CHOOSE i \in RTag(c, Members[g][first]) : TRUE
    IN  Disambiguated(r, FlagsTo(r, c, s), All(c)[at].pos)

GhostPlan(r, c, i) ==
    LET t == All(c)[i].tag IN
    GhostLayers(r, c, All(c)[i].pos)
    \cup UNION {UNION {BondFlags(r, c, g, s) :
                         s \in {c.groups[g][k] : k \in Slots(g)} \ {r}} :
                g \in {x \in DOMAIN c.groups : t \in Range(Members[x])}}

\* get_direction_mask()
DirectionMask(plan) == {o \in Offsets : SendFlags(o) \subseteq plan}

\* gpu_exchange_ghosts_make_indices(): what goes to rank s, and in which
\* directions.
IdxAdj(r, c, s) ==
    LET adj(i) == DirectionMask(GhostPlan(r, c, i)) \cap Adj(r, s)
        all == [i \in DOMAIN All(c) |-> [idx |-> i, adj |-> adj(i)]]
    IN  Pick(all, {i \in DOMAIN all : all[i].adj # {}})

\* gpu_pack_wrap_kernel(): a particle that crosses the boundary is wrapped.
PackWrap(r, pos, adj) ==
    [a \in {1, 2} |->
        IF Size(a) > 1 /\ r[a] = Size(a) - 1 /\ \E o \in adj : o[a] = 1
        THEN pos[a] - Size(a) * L
        ELSE IF Size(a) > 1 /\ r[a] = 0 /\ \E o \in adj : o[a] = -1
        THEN pos[a] + Size(a) * L
        ELSE pos[a]]

\* gpu_exchange_ghosts_pack()
Packed(r, c, list) ==
    [i \in DOMAIN list |->
        LET p == All(c)[list[i].idx]
        IN  [p EXCEPT !.pos = PackWrap(r, @, list[i].adj)]]

\* Neighbors of other stages are skipped.
MakeIndices(r, c) ==
    [c EXCEPT !.sends[c.stage] =
        [s \in Neighbors(r) |-> IF c.m_stages[s] = c.stage THEN IdxAdj(r, c, s)
                                                           ELSE <<>>]]

\* The ghosts received, in the order of the neighbors.
AddGhosts(r, c, body) ==
    LET order == InOrder(Neighbors(r)) IN
    [c EXCEPT !.ghosts = @ \o FlattenSeq([i \in DOMAIN order |-> body[order[i]]]),
              !.recvs[c.stage] = [s \in Neighbors(r) |-> Len(body[s])]]

-----------------------------------------------------------------------------
(* beginUpdateGhosts() and finishUpdateGhosts()                            *)

\* Where the ghosts from rank s in this stage begin.
FirstIdx(r, c, s) ==
    LET order == InOrder(Neighbors(r))
        n == Len(order)
        count(k, stage) == c.recvs[stage][order[k]]
        sum[stage \in 0 .. 2, k \in 0 .. n] ==
            IF k = 0 THEN (IF stage = 0 THEN 0 ELSE sum[stage - 1, n])
            ELSE sum[stage, k - 1] + count(k, stage)
    IN  sum[c.stage, (CHOOSE k \in 1 .. n : order[k] = s) - 1]

\* gpu_exchange_ghosts_copy_buf()
CopyBuf(r, c, body) ==
    [c EXCEPT !.ghosts = [i \in DOMAIN c.ghosts |->
        LET from == {s \in Neighbors(r) :
                       i - FirstIdx(r, c, s) \in 1 .. Len(body[s])}
        IN  IF from = {} THEN c.ghosts[i]
            ELSE LET s == CHOOSE x \in from : TRUE
                 IN  [c.ghosts[i] EXCEPT !.pos = body[s][i - FirstIdx(r, c, s)].pos]]]

-----------------------------------------------------------------------------
(* Messages.                                                               *)

\* The ranks that a rank sends to: a count always, an update only if there is
\* something to send.
Partners(r, c) ==
    CASE c.phase \in {"ranks", "groups"} -> Neighbors(r)
      [] c.phase \in {"particles", "exchange"} ->
           {s \in Neighbors(r) : c.m_stages[s] = c.stage}
      [] OTHER -> {s \in Neighbors(r) : c.sends[c.stage][s] # <<>>}

\* The ranks that it waits for.
Awaited(r, c) ==
    IF c.phase = "update" THEN {s \in Neighbors(r) : c.recvs[c.stage][s] > 0}
                          ELSE Partners(r, c)

Body(r, c, s) ==
    CASE c.phase = "ranks" -> RankElements(r, c, s)
      [] c.phase = "groups" -> GroupElements(r, c, s)
      [] c.phase = "particles" -> SendPtls(r, c, s)
      [] OTHER -> Packed(r, c, c.sends[c.stage][s])

Message(r, c, s) == [phase |-> c.phase, stage |-> c.stage, body |-> Body(r, c, s)]

\* What preparing the messages changes on the sender, before and after.
Prepared(r, c) == CASE c.phase = "ranks" -> MarkGroups(r, c)
                    [] c.phase = "exchange" -> MakeIndices(r, c)
                    [] OTHER -> c

Sent(r, c) == CASE c.phase = "groups" -> RemoveGroups(r, c)
                [] c.phase = "particles" -> RemovePtls(r, c)
                [] OTHER -> c

Received(r, c, body) ==
    LET elements == UNION {body[s] : s \in Awaited(r, c)}
        full == [s \in Neighbors(r) |-> IF s \in Awaited(r, c) THEN body[s] ELSE <<>>]
        order == InOrder(Awaited(r, c))
    IN  CASE c.phase = "ranks" -> UpdateRanksTable(c, elements)
          [] c.phase = "groups" -> AddGroups(c, elements)
          [] c.phase = "particles" ->
               AddPtls(r, c, FlattenSeq([i \in DOMAIN order |-> body[order[i]]]))
          [] c.phase = "exchange" -> AddGhosts(r, c, full)
          [] OTHER -> CopyBuf(r, c, full)

-----------------------------------------------------------------------------
(* The order of the exchanges.                                             *)

Enter(c, phase, stage) == [c EXCEPT !.phase = phase, !.stage = stage]

\* migrateGroups() returns if there are no groups.
BeginStage(c, stage) ==
    Enter(c, IF Groups = {} THEN "particles" ELSE "ranks", stage)

\* removeAllGhostParticles()
BeginMigrate(c) == BeginStage([c EXCEPT !.ghosts = <<>>], 0)

\* What follows an exchange.
Followed(r, c) ==
    LET last == c.stage + 1 = Num(r, c) IN
    CASE c.phase = "ranks" -> Enter(c, "groups", c.stage)
      [] c.phase = "groups" -> Enter(c, "particles", c.stage)
      [] c.phase = "particles" -> IF last THEN Enter(c, "exchange", 0)
                                  ELSE BeginStage(c, c.stage + 1)
      [] c.phase = "exchange" -> IF last THEN Enter(c, "migrated", 0)
                                 ELSE Enter(c, "exchange", c.stage + 1)
      [] c.phase = "update" -> IF last THEN Enter(c, "updated", 0)
                               ELSE Enter(c, "update", c.stage + 1)

\* Rank r goes on in state c until it waits again; n is the network.
Proceed(r, c, n) ==
    IF c.phase \in Exchanging
    THEN LET p == Prepared(r, c) IN
         /\ comm' = [comm EXCEPT ![r] = Sent(r, p)]
         /\ net' = [n EXCEPT ![r] =
               [s \in Ranks |-> IF s \in Partners(r, p)
                                THEN Append(n[r][s], Message(r, p, s)) ELSE n[r][s]]]
    ELSE /\ comm' = [comm EXCEPT ![r] = c]
         /\ net' = n

\* setMaxStages() forces a migration.
SetMaxStages(r, c, m) ==
    [c EXCEPT !.m_max_stages = m, !.m_stages = Stages(r, m, c.m_stages),
              !.m_force_migrate = TRUE]

\* The next call: communicate() that migrates or one that does not, unless a
\* migration is forced, after the integrator moved the particles; or
\* setMaxStages().
Call(r) ==
    LET c == comm[r] IN
    /\ c.phase \in Idle /\ c.call < Len(program)
    /\ LET n == [c EXCEPT !.call = @ + 1]
           kind == program[n.call]
       IN  \/ /\ kind = "one" /\ Proceed(r, SetMaxStages(r, n, 1), net)
           \/ /\ kind = "two" /\ Proceed(r, SetMaxStages(r, n, 2), net)
           \/ /\ kind = "three" /\ Proceed(r, SetMaxStages(r, n, 3), net)
           \/ /\ kind \in {"migrate", "update"}
              /\ \E d \in [DOMAIN c.own -> Moves] :
                   LET at(i) == <<c.own[i].pos[1] + d[i][1],
                                  c.own[i].pos[2] + d[i][2]>>
                       moved == [n EXCEPT !.own = [i \in DOMAIN c.own |->
                                            [c.own[i] EXCEPT !.pos = at(i)]]]
                   IN  /\ c.phase = "start" => \A i \in DOMAIN d : d[i] = <<0, 0>>
                       /\ \A i \in DOMAIN d : Within(r, at(i), Reach)
                       /\ Proceed(r, IF kind = "migrate" \/ c.m_force_migrate
                                     THEN BeginMigrate([moved EXCEPT
                                                          !.m_force_migrate = FALSE])
                                     ELSE Enter(moved, "update", 0), net)
    /\ UNCHANGED program

\* The message has been received, or its receiver waits for it.
SendCompleted(r, s) ==
    \/ net[r][s] = <<>>
    \/ /\ Len(net[r][s]) = 1 /\ comm[s].phase \in Exchanging
       /\ r \in Awaited(s, comm[s])

\* MPI_Waitall() returns.
Complete(r) ==
    LET c == comm[r]
        from == Awaited(r, c)
        body == [s \in from |-> Head(net[s][r]).body]
        n == [s \in Ranks |-> IF s \in from THEN [net[s] EXCEPT ![r] = Tail(@)]
                                            ELSE net[s]]
    IN  /\ c.phase \in Exchanging
        /\ \A s \in from : net[s][r] # <<>>
        /\ Eager \/ \A s \in Ranks : SendCompleted(r, s)
        /\ Proceed(r, Followed(r, Received(r, c, body)), n)
        /\ UNCHANGED program

\* All calls have returned on all ranks.
Terminated == /\ \A r \in Ranks : comm[r].phase \in Idle
                                  /\ comm[r].call = Len(program)
              /\ UNCHANGED vars

Next == (\E r \in Ranks : Call(r) \/ Complete(r)) \/ Terminated

Init ==
    /\ program \in Programs
    /\ \E place \in Starts, owner \in [Particles -> Ranks] :
          /\ \A t \in Particles : Within(owner[t], place[t], Reach)
          /\ comm = [r \in Ranks |->
               [call |-> 0, phase |-> "start", stage |-> 0,
                own |-> Pick([i \in 1 .. NParticles |->
                                [tag |-> i - 1, pos |-> place[i - 1]]],
                             {i \in 1 .. NParticles : owner[i - 1] = r}),
                ghosts |-> <<>>,
                groups |-> [g \in {x \in Groups : \E t \in Range(Members[x]) :
                                                     owner[t] = r} |->
                              [i \in Slots(g) |-> <<0, 0>>]],
                sends |-> [n \in 0 .. 2 |-> [s \in Neighbors(r) |-> <<>>]],
                recvs |-> [n \in 0 .. 2 |-> [s \in Neighbors(r) |-> 0]],
                m_max_stages |-> 1,
                m_stages |-> Stages(r, 1, [s \in Neighbors(r) |-> -1]),
                m_bonds_changed |-> TRUE, m_force_migrate |-> TRUE]]
    /\ net = [s \in Ranks |-> [r \in Ranks |-> <<>>]]

\* As long as some rank can take a step, some rank does.
Spec == Init /\ [][Next]_vars /\ WF_vars(Next)

-----------------------------------------------------------------------------
(* Properties.                                                             *)

Ptls == [tag : Particles, pos : Int \X Int]

TypeOK ==
    \A r \in Ranks : LET c == comm[r] IN
        /\ c.call \in 0 .. Len(program) /\ c.phase \in Exchanging \cup Idle
        /\ c.stage \in 0 .. (Num(r, c) - 1) /\ c.m_max_stages \in 1 .. 3
        /\ c.own \in Seq(Ptls) /\ c.ghosts \in Seq(Ptls)
        /\ DOMAIN c.groups \subseteq Groups
        /\ \A g \in DOMAIN c.groups : c.groups[g] \in [Slots(g) -> Ranks]
        /\ c.m_stages \in [Neighbors(r) -> -1 .. (Num(r, c) - 1)]
        /\ \A n \in 0 .. 2, s \in Neighbors(r) :
              /\ c.recvs[n][s] \in Nat
              /\ \A i \in DOMAIN c.sends[n][s] :
                    /\ c.sends[n][s][i].idx \in Nat \ {0}
                    /\ c.sends[n][s][i].adj \subseteq Adj(r, s)
        /\ {c.m_bonds_changed, c.m_force_migrate} \subseteq BOOLEAN

\* The message that a waiting rank receives next belongs to the exchange and
\* the stage it waits in, and brings as many positions as it has ghosts for,
\* whatever the pace of the ranks.
Matched ==
    \A r \in Ranks : LET c == comm[r] IN
        c.phase \in Exchanging =>
            \A s \in Awaited(r, c) : net[s][r] # <<>> =>
                LET m == Head(net[s][r]) IN
                /\ m.phase = c.phase /\ m.stage = c.stage
                /\ c.phase = "update" => Len(m.body) = c.recvs[c.stage][s]

AllAt(phase) == \E n \in DOMAIN program :
                   \A r \in Ranks : comm[r].phase = phase /\ comm[r].call = n

Owners(t) == {r \in Ranks : IsLocal(comm[r], t)}

\* After a migration every particle is on one rank, inside of its domain,
\* also if it crossed a corner of the grid or of the global box.
MigratedHome ==
    AllAt("migrated") =>
        /\ \A t \in Particles : Cardinality(Owners(t)) = 1
        /\ \A r \in Ranks : /\ Len(comm[r].own) =
                                  Cardinality({comm[r].own[i].tag : i \in DOMAIN comm[r].own})
                            /\ \A i \in DOMAIN comm[r].own :
                                  Within(r, comm[r].own[i].pos, 0)

\* The periodic images of a point that matter to its neighbors.
Images(pos) ==
    {<<pos[1] + i * W * L, pos[2] + j * H * L>> : i \in -1 .. 1, j \in -1 .. 1}

\* The particles of other ranks that rank r must see, where it must see them.
Layer(r) ==
    UNION {UNION {{[tag |-> comm[q].own[i].tag, pos |-> pos] :
                     pos \in {p \in Images(comm[q].own[i].pos) : Within(r, p, R)}}
                  : i \in DOMAIN comm[q].own}
           : q \in Ranks \ {r}}

\* After exchangeGhosts() a rank has every particle within the ghost layer
\* width of its domain, at the image next to the domain.
GhostsSuffice ==
    AllAt("migrated") => \A r \in Ranks : Layer(r) \subseteq Range(comm[r].ghosts)

\* It has no other ghosts if there are no bonds, and none twice: one message
\* to a neighbor serves all directions in which it is a neighbor, and what
\* reaches a corner in two stages does so on one way.
GhostsOnce ==
    AllAt("migrated") => \A r \in Ranks : LET g == comm[r].ghosts IN
        /\ Len(g) = Cardinality({g[i].tag : i \in DOMAIN g})
        /\ Groups = {} => Range(g) = Layer(r)

\* After a ghost update every ghost is at an image of the present position of
\* its particle, and at the one that matters if there is one.
GhostsCurrent ==
    AllAt("updated") => \A r \in Ranks : LET g == comm[r].ghosts IN
        \A i \in DOMAIN g :
            /\ \E q \in Ranks \ {r} : \E j \in DOMAIN comm[q].own :
                  /\ comm[q].own[j].tag = g[i].tag
                  /\ g[i].pos \in Images(comm[q].own[j].pos)
            /\ \A p \in Layer(r) : p.tag = g[i].tag => p.pos = g[i].pos

\* After a migration a group is known exactly where one of its members is,
\* and every copy knows the ranks of all members.
GroupsTrue ==
    AllAt("migrated") => \A g \in Groups :
        /\ {r \in Ranks : g \in DOMAIN comm[r].groups} =
              UNION {Owners(t) : t \in Range(Members[g])}
        /\ \A r \in Ranks : g \in DOMAIN comm[r].groups =>
              \A i \in Slots(g) : Owners(Members[g][i]) = {comm[r].groups[g][i]}

\* "mark particles that are members of incomplete of bonded groups as ghost":
\* where a group is known, all of its members can be found.
GroupsComplete ==
    AllAt("migrated") => \A r \in Ranks : \A g \in DOMAIN comm[r].groups :
        \A t \in Range(Members[g]) : RTag(comm[r], t) # {}
=============================================================================
