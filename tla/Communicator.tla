---------------------------- MODULE Communicator ----------------------------
(***************************************************************************)
(* libhoomd/communication/Communicator: the point-to-point exchanges that  *)
(* keep particles on the rank of their domain (migrateParticles), build    *)
(* the ghost layers (exchangeGhosts) and refresh them (beginUpdateGhosts), *)
(* and communicate(), which decides between them every time step.          *)
(*                                                                         *)
(* Ranks form a W x H grid of domains of L x L points (the third direction *)
(* is left out: it repeats the other two).  Every rank runs the same       *)
(* program of calls at its own pace.  A rank waits in two places only: in  *)
(* MPI_Waitall() for the message of one direction, and in the              *)
(* MPI_Allreduce() of the distance check.  Between two waits it runs in    *)
(* one step.                                                               *)
(***************************************************************************)
EXTENDS Integers, Sequences, FiniteSets

CONSTANTS
    W, H,       \* the domain grid
    L,          \* domain size
    R,          \* ghost layer width
    Reach,      \* how far a particle leaves its domain before it migrates
    Moves,      \* displacements of a particle in one time step
    NParticles, \* number of particles
    Starts,     \* positions of the particles before the first call
    Calls,      \* what a rank may be asked to do, see Program
    MaxCalls,   \* bound: number of calls
    Eager       \* whether MPI_Isend completes before the message is received

CommunicatorAssumption ==
    /\ W \in Nat \ {0} /\ H \in Nat \ {0} /\ W * H > 1
    /\ L \in Nat \ {0} /\ R \in Nat /\ 2 * R < L        \* checkBoxSize()
    /\ Reach \in Nat /\ 2 * Reach < L /\ NParticles \in Nat
    /\ Calls \subseteq {"plain", "precompute", "forced", "sort"}
    /\ MaxCalls \in Nat \ {0} /\ Eager \in BOOLEAN

VARIABLES
    program,    \* the calls: communicate() without or with precompute,
                \* forceMigrate() and communicate(), or SFCPackUpdater::update()
    comm,       \* comm[r]: the Communicator and the particles of rank r
    net,        \* net[s][r]: messages from s to r, in order
    votes       \* votes[n]: ranks that joined the allreduce of call n, and its
                \* result so far

vars == <<program, comm, net, votes>>

Particles == 0 .. (NParticles - 1)     \* tags
Ranks == (0 .. (W - 1)) \X (0 .. (H - 1))
Dirs == 0 .. 3      \* face_east, face_west, face_north, face_south

Size(a) == IF a = 1 THEN W ELSE H
Axis(dir) == (dir \div 2) + 1
Forward(dir) == dir % 2 = 0
Opposite(dir) == IF Forward(dir) THEN dir + 1 ELSE dir - 1

isCommunicating(dir) == Size(Axis(dir)) > 1
Route == SelectSeq(<<0, 1, 2, 3>>, isCommunicating)

\* DomainDecomposition.
getNeighborRank(r, dir) ==
    LET a == Axis(dir)
        i == r[a] + (IF Forward(dir) THEN 1 ELSE -1)
    IN  [r EXCEPT ![a] = i % Size(a)]

isAtBoundary(r, dir) ==
    r[Axis(dir)] = IF Forward(dir) THEN Size(Axis(dir)) - 1 ELSE 0

Lo(r, a) == r[a] * L
Hi(r, a) == (r[a] + 1) * L

\* The point is inside the domain of r widened by w where r has neighbors.
Within(r, pos, w) ==
    \A a \in {1, 2} : LET u == IF Size(a) > 1 THEN w ELSE 0
                      IN  pos[a] \in (Lo(r, a) - u) .. (Hi(r, a) + u - 1)

\* getShiftedBox(): the global box moves by half of the domain across the
\* boundary, and by a little more (tol).
Shift(r, dir) ==
    IF ~isAtBoundary(r, dir) \/ ~isCommunicating(dir) THEN 0
    ELSE IF Forward(dir) THEN (L \div 2) + 1 ELSE -(L \div 2)

getShiftedBox(r, a) == Shift(r, 2 * a - 2) + Shift(r, 2 * a - 1)

\* BoxDim::wrap() with the shifted box, periodic along the routes only.
wrap(r, pos) ==
    [a \in {1, 2} |->
        LET lo == getShiftedBox(r, a)
            n == Size(a) * L
        IN  IF Size(a) = 1 THEN pos[a]
            ELSE IF pos[a] >= lo + n THEN pos[a] - n
            ELSE IF pos[a] < lo THEN pos[a] + n ELSE pos[a]]

-----------------------------------------------------------------------------
(* The state of a rank: own and ghosts are the particle arrays, sequences  *)
(* of [tag, pos]; m_plan the itineraries of both; m_copy_ghosts[dir] the   *)
(* tags sent in that direction; m_num_recv_ghosts[dir] the number received;*)
(* phase and k say which message of which exchange is awaited.             *)

Exchanging == {"update", "migrate", "exchange", "reupdate"}
Idle == {"start", "updated", "exchanged"}
Phases == Exchanging \cup Idle \cup {"reduce", "sort"}

Ptls == [tag : Particles, pos : Int \X Int]

TypeOK ==
    /\ program \in [1 .. MaxCalls -> Calls]
    /\ \A r \in Ranks : LET c == comm[r] IN
          /\ c.call \in 0 .. MaxCalls /\ c.phase \in Phases
          /\ c.k \in 1 .. Len(Route)
          /\ c.own \in Seq(Ptls) /\ c.ghosts \in Seq(Ptls)
          /\ c.m_plan \in Seq(SUBSET Dirs)
          /\ c.m_copy_ghosts \in [Dirs -> Seq(Particles)]
          /\ c.m_num_recv_ghosts \in [Dirs -> Nat]
          /\ {c.m_is_first_step, c.m_force_migrate, c.m_is_communicating}
                \subseteq BOOLEAN
    /\ votes \in [1 .. MaxCalls -> [arrived : SUBSET Ranks, wants : BOOLEAN]]

Dir(c) == Route[c.k]
All(c) == c.own \o c.ghosts
Tags(s) == {s[i].tag : i \in DOMAIN s}

\* m_rtag: the index of a tag in the arrays.
rtag(c, tag) == CHOOSE i \in DOMAIN All(c) : All(c)[i].tag = tag

\* A particle of rank r left its box in direction dir.
Left(r, dir, pos) == LET a == Axis(dir)
                     IN  IF Forward(dir) THEN pos[a] >= Hi(r, a)
                                         ELSE pos[a] < Lo(r, a)

\* The directions in which a particle is within the ghost layer width.
Itinerary(r, pos) ==
    {dir \in Dirs : LET a == Axis(dir)
                    IN  IF Forward(dir) THEN pos[a] >= Hi(r, a) - R
                                        ELSE pos[a] < Lo(r, a) + R}

\* Mutation: ghosts received before are not forwarded.
PlannedOwn(c, dir) == {i \in DOMAIN c.own : dir \in c.m_plan[i]}

\* The indices to send in direction dir: own particles, and ghosts received
\* in earlier directions, whose plan says so.
Planned(c, dir) == {i \in DOMAIN All(c) : dir \in c.m_plan[i]}

\* The elements of s at the indices in S, in order.
Pick(s, S) ==
    LET pick[i \in 0 .. Len(s)] ==
            IF i = 0 THEN <<>>
            ELSE IF i \in S THEN Append(pick[i - 1], s[i]) ELSE pick[i - 1]
    IN  pick[Len(s)]

Apply(f(_), s) == [i \in DOMAIN s |-> f(s[i])]

-----------------------------------------------------------------------------
(* One direction of an exchange: what is packed, and what is done with the *)
(* message received from the opposite side.                                *)

\* The message of the direction c has reached.
Message(r, c) ==
    LET dir == Dir(c)
        leaving == {i \in DOMAIN c.own : Left(r, dir, c.own[i].pos)}
        planned == Planned(c, dir)
        place(tag) == All(c)[rtag(c, tag)].pos
    IN  CASE c.phase = "migrate" ->
               [kind |-> "migrate", dir |-> dir, body |-> Pick(c.own, leaving)]
          [] c.phase = "exchange" ->
               [kind |-> "exchange", dir |-> dir, body |-> Pick(All(c), planned),
                plan |-> Pick(c.m_plan, planned)]
          [] OTHER ->
               [kind |-> "update", dir |-> dir,
                body |-> Apply(place, c.m_copy_ghosts[dir])]

\* What packing it changes on the sender.
Packed(r, c) ==
    LET dir == Dir(c)
        staying == {i \in DOMAIN c.own : ~Left(r, dir, c.own[i].pos)}
        tagOf(p) == p.tag
    IN  CASE c.phase = "migrate" -> [c EXCEPT !.own = Pick(@, staying)]
          [] c.phase = "exchange" ->
               [c EXCEPT !.m_copy_ghosts[dir] =
                            Apply(tagOf, Pick(All(c), Planned(c, dir)))]
          [] OTHER -> c

\* Where the ghosts received in the direction of c begin.
StartIdx(c) ==
    LET count[k \in 0 .. 4] ==
            IF k = 0 THEN 0
            ELSE count[k - 1] + c.m_num_recv_ghosts[Route[k]]
    IN  count[c.k - 1]

\* beginUpdateGhosts() writes the positions directly into the arrays.
WithPositions(c, body) ==
    [i \in DOMAIN c.ghosts |->
        IF i - StartIdx(c) \in DOMAIN body
        THEN [c.ghosts[i] EXCEPT !.pos = body[i - StartIdx(c)]]
        ELSE c.ghosts[i]]

\* What the receiver does with message m.
Received(r, c, m) ==
    LET wrapped(p) == [p EXCEPT !.pos = wrap(r, @)]
        wrapPos(pos) == wrap(r, pos)
    IN  CASE c.phase = "migrate" ->
               [c EXCEPT !.own = @ \o Apply(wrapped, m.body)]
          [] c.phase = "exchange" ->
               [c EXCEPT !.ghosts = @ \o Apply(wrapped, m.body),
                         !.m_plan = @ \o m.plan,
                         !.m_num_recv_ghosts[Dir(c)] = Len(m.body)]
          [] OTHER ->
               [c EXCEPT !.ghosts = WithPositions(c, Apply(wrapPos, m.body))]

-----------------------------------------------------------------------------
(* communicate(): the order of the exchanges.                              *)

Precompute(c) == program[c.call] = "precompute"

\* notifyParticleSort() reaches forceMigrate(), which does nothing while the
\* rank communicates.
forceMigrate(c) == [c EXCEPT !.m_force_migrate = @ \/ ~c.m_is_communicating]

\* Mutation: a rank without particles is not told.
ForcedOwners(c, kind) == c.m_force_migrate \/ (kind = "forced" /\ c.own # <<>>)

\* System::run() and Integrator::prepRun() call forceMigrate() before communicate(), on
\* all ranks.
Forced(c, kind) == c.m_force_migrate \/ kind = "forced"

BeginUpdate(c, phase) == [c EXCEPT !.phase = phase, !.k = 1]

\* migrateParticles() removes the ghosts first.
BeginMigrate(c) == [forceMigrate(c) EXCEPT !.phase = "migrate", !.k = 1,
                                           !.ghosts = <<>>]

BeginExchange(r, c) ==
    [c EXCEPT !.phase = "exchange", !.k = 1,
              !.m_plan = [i \in DOMAIN c.own |-> Itinerary(r, c.own[i].pos)]]

Finished(c, phase) == [c EXCEPT !.phase = phase, !.k = 1,
                                !.m_is_communicating = FALSE]

\* The decision of communicate() once it is known whether to migrate.
Decided(c, migrate) ==
    IF migrate THEN BeginMigrate([c EXCEPT !.m_force_migrate = FALSE,
                                           !.m_is_first_step = FALSE])
    ELSE IF Precompute(c) THEN Finished(c, "updated")
    ELSE BeginUpdate(c, "reupdate")

\* m_migrate_requests() is asked, with its allreduce, unless a migration is
\* forced.
AskedToMigrate(c) == IF c.m_force_migrate THEN Decided(c, TRUE)
                     ELSE [c EXCEPT !.phase = "reduce", !.k = 1]

\* What follows the last direction of an exchange.
Followed(r, c) ==
    CASE c.phase = "update" -> AskedToMigrate(c)
      [] c.phase = "reupdate" -> Finished(c, "updated")
      [] c.phase = "migrate" -> IF c.m_is_communicating THEN BeginExchange(r, c)
                                ELSE [c EXCEPT !.phase = "sort", !.k = 1]
      [] c.phase = "exchange" -> Finished(c, "exchanged")

\* Rank r goes on in state c until it waits again; n is the network.
Proceed(r, c, n) ==
    IF c.phase \in Exchanging
    THEN LET s == getNeighborRank(r, Dir(c)) IN
         /\ comm' = [comm EXCEPT ![r] = Packed(r, c)]
         /\ net' = [n EXCEPT ![r][s] = Append(@, Message(r, c))]
    ELSE /\ comm' = [comm EXCEPT ![r] = c]
         /\ net' = n

-----------------------------------------------------------------------------
\* The integrator moves the particles of the rank, then the next call begins.
\* A particle does not move out of reach: the distance check has asked for a
\* migration before.
Call(r) ==
    LET c == comm[r] IN
    /\ c.phase \in Idle /\ c.call < MaxCalls
    /\ \E d \in [DOMAIN c.own -> Moves] :
         LET at(i) == <<c.own[i].pos[1] + d[i][1], c.own[i].pos[2] + d[i][2]>>
             moved == [i \in DOMAIN c.own |-> [c.own[i] EXCEPT !.pos = at(i)]]
             n == [c EXCEPT !.call = @ + 1, !.own = moved]
             kind == program[n.call]
             begun == [n EXCEPT !.m_is_communicating = TRUE,
                                !.m_force_migrate = Forced(c, kind)]
         IN  /\ c.phase = "start" => \A i \in DOMAIN c.own : d[i] = <<0, 0>>
             /\ \A i \in DOMAIN c.own : Within(r, at(i), Reach)
             /\ Proceed(r, IF kind = "sort" THEN BeginMigrate(n)
                           ELSE IF /\ ~begun.m_is_first_step
                                   /\ ~begun.m_force_migrate
                                   /\ Precompute(begun)
                                THEN BeginUpdate(begun, "update")
                                ELSE AskedToMigrate(begun), net)
    /\ UNCHANGED <<program, votes>>

\* The message has been received, or its receiver waits for it.
SendCompleted(r, c) ==
    LET s == getNeighborRank(r, Dir(c))
        e == comm[s]
    IN  \/ net[r][s] = <<>>
        \/ /\ Len(net[r][s]) = 1 /\ e.phase \in Exchanging
           /\ getNeighborRank(s, Opposite(Dir(e))) = r

\* MPI_Waitall() returns.
Complete(r) ==
    LET c == comm[r]
        s == getNeighborRank(r, Opposite(Dir(c)))
        m == Head(net[s][r])
        n == [net EXCEPT ![s][r] = Tail(@)]
        done == Received(r, c, m)
    IN  /\ c.phase \in Exchanging
        /\ net[s][r] # <<>>
        /\ Eager \/ SendCompleted(r, c)
        /\ Proceed(r, IF c.k < Len(Route) THEN [done EXCEPT !.k = @ + 1]
                      ELSE Followed(r, done), n)
        /\ UNCHANGED <<program, votes>>

\* The distance check of NeighborList: the rank joins the allreduce.
Vote(r, v) ==
    LET n == comm[r].call IN
    /\ comm[r].phase = "reduce" /\ r \notin votes[n].arrived
    /\ votes' = [votes EXCEPT ![n].arrived = @ \cup {r}, ![n].wants = @ \/ v]
    /\ UNCHANGED <<program, comm, net>>

\* Mutation: every rank goes by its own particles.
ReducedLocal(r) ==
    LET c == comm[r] IN
    /\ c.phase = "reduce" /\ r \in votes[c.call].arrived
    /\ Proceed(r, Decided(c, votes[c.call].wants \/ c.m_is_first_step), net)
    /\ UNCHANGED <<program, votes>>

\* All ranks have joined.
Reduced(r) ==
    LET c == comm[r] IN
    /\ c.phase = "reduce" /\ votes[c.call].arrived = Ranks
    /\ Proceed(r, Decided(c, votes[c.call].wants \/ c.m_is_first_step), net)
    /\ UNCHANGED <<program, votes>>

\* SFCPackUpdater::update() between migrateParticles() and exchangeGhosts().
Sort(r, order) ==
    LET c == comm[r]
        sorted == [i \in DOMAIN c.own |-> c.own[order[i]]]
    IN  /\ c.phase = "sort"
        /\ Proceed(r, BeginExchange(r, forceMigrate([c EXCEPT !.own = sorted])),
                   net)
        /\ UNCHANGED <<program, votes>>

Orders(n) == {f \in [1 .. n -> 1 .. n] :
                 \A i, j \in 1 .. n : f[i] = f[j] => i = j}

\* All calls have returned on all ranks.
Terminated == /\ \A r \in Ranks : comm[r].phase \in Idle
                                  /\ comm[r].call = MaxCalls
              /\ UNCHANGED vars

Step(r) == \/ Call(r) \/ Complete(r) \/ Reduced(r)
           \/ \E v \in BOOLEAN : Vote(r, v)
           \/ \E order \in Orders(Len(comm[r].own)) : Sort(r, order)

Next == (\E r \in Ranks : Step(r)) \/ Terminated

Init ==
    /\ program \in [1 .. MaxCalls -> Calls]
    /\ \E place \in [Particles -> Starts], owner \in [Particles -> Ranks] :
          /\ \A t \in Particles : Within(owner[t], place[t], Reach)
          /\ comm = [r \in Ranks |->
               [call |-> 0, phase |-> "start", k |-> 1,
                own |-> Pick([i \in 1 .. NParticles |->
                                [tag |-> i - 1, pos |-> place[i - 1]]],
                             {i \in 1 .. NParticles : owner[i - 1] = r}),
                ghosts |-> <<>>, m_plan |-> <<>>,
                m_copy_ghosts |-> [dir \in Dirs |-> <<>>],
                m_num_recv_ghosts |-> [dir \in Dirs |-> 0],
                m_is_first_step |-> TRUE, m_force_migrate |-> FALSE,
                m_is_communicating |-> FALSE]]
    /\ net = [s \in Ranks |-> [r \in Ranks |-> <<>>]]
    /\ votes = [n \in 1 .. MaxCalls |-> [arrived |-> {}, wants |-> FALSE]]

\* Every rank keeps running: no rank stays at a step it can take.
Spec == Init /\ [][Next]_vars /\ \A r \in Ranks : WF_vars(Step(r))

-----------------------------------------------------------------------------
(* Properties.                                                             *)

\* The message that a waiting rank receives next is the one it waits for:
\* ranks never disagree on whether to migrate or to update, whatever their
\* pace, and the number of positions is the number of ghosts.
Matched ==
    \A r \in Ranks : LET c == comm[r]
                         s == getNeighborRank(r, Opposite(Dir(c)))
                         m == Head(net[s][r]) IN
        c.phase \in Exchanging /\ net[s][r] # <<>> =>
            /\ m.kind = (IF c.phase = "reupdate" THEN "update" ELSE c.phase)
            /\ m.dir = Dir(c)
            /\ m.kind = "update" =>
                  Len(m.body) = c.m_num_recv_ghosts[Dir(c)]

Holds(r, t) == Cardinality({i \in DOMAIN comm[r].own : comm[r].own[i].tag = t})
Carries(s, r, t) ==
    Cardinality({<<n, i>> \in (DOMAIN net[s][r]) \X (1 .. NParticles) :
                   /\ net[s][r][n].kind = "migrate"
                   /\ i \in DOMAIN net[s][r][n].body
                   /\ net[s][r][n].body[i].tag = t})

\* A particle is on one rank or in one message, in the middle of a migration
\* too.
NoneLost ==
    \A t \in Particles :
        \/ \E r \in Ranks : /\ Holds(r, t) = 1
                            /\ \A q \in Ranks \ {r} : Holds(q, t) = 0
                            /\ \A q, s \in Ranks : Carries(q, s, t) = 0
        \/ /\ \A q \in Ranks : Holds(q, t) = 0
           /\ \E q, s \in Ranks : /\ Carries(q, s, t) = 1
                                  /\ \A x, y \in Ranks : <<x, y>> # <<q, s>> =>
                                        Carries(x, y, t) = 0

\* migrateParticles(): "Every particle on every processor can be found inside
\* the local domain boundaries", also when it crossed a corner of the grid or
\* the boundary of the global box.
InsideDomain ==
    \A r \in Ranks : comm[r].phase \in {"sort", "exchange", "exchanged"} =>
        \A i \in DOMAIN comm[r].own : Within(r, comm[r].own[i].pos, 0)

AllAt(phase) == \E n \in 1 .. MaxCalls :
                   \A r \in Ranks : comm[r].phase = phase /\ comm[r].call = n

\* The periodic images of a point that matter to its neighbors.
Images(pos) ==
    {<<pos[1] + i * W * L, pos[2] + j * H * L>> : i \in -1 .. 1, j \in -1 .. 1}

\* The particles of other ranks that rank r must see, where it must see them.
Layer(r) ==
    UNION {UNION {{[tag |-> comm[q].own[i].tag, pos |-> pos] :
                     pos \in {p \in Images(comm[q].own[i].pos) : Within(r, p, R)}}
                  : i \in DOMAIN comm[q].own}
           : q \in Ranks \ {r}}

\* After exchangeGhosts() a rank has exactly the particles within the ghost
\* layer width of its domain, each once, at the image next to the domain.
GhostsExact ==
    AllAt("exchanged") => \A r \in Ranks : LET g == comm[r].ghosts IN
        /\ {g[i] : i \in DOMAIN g} = Layer(r)
        /\ Len(g) = Cardinality(Layer(r))

\* After a ghost update every ghost is at an image of the present position of
\* its particle, and at the one that matters if there is one.
GhostsCurrent ==
    AllAt("updated") => \A r \in Ranks : LET g == comm[r].ghosts IN
        \A i \in DOMAIN g :
            /\ \E q \in Ranks \ {r} : \E j \in DOMAIN comm[q].own :
                  /\ comm[q].own[j].tag = g[i].tag
                  /\ g[i].pos \in Images(comm[q].own[j].pos)
            /\ \A p \in Layer(r) : p.tag = g[i].tag => p.pos = g[i].pos

\* Every call has returned on every rank.
AllReturned == \A r \in Ranks : comm[r].phase \in Idle /\ comm[r].call = MaxCalls
=============================================================================
