------------------------------ MODULE MCRanks -------------------------------
(***************************************************************************)
(* Instances of Teardown, where ranks stop after an error, and of          *)
(* Communicator: a ring of three domains with two particles that proceeds  *)
(* at any pace, a 2 x 2 grid with one particle that crosses corners, and   *)
(* two domains, each both neighbors of the other, in which calls must      *)
(* return. A behaviour belongs to one part.                                *)
(***************************************************************************)
EXTENDS Teardown, Sequences

CONSTANT Off

VARIABLES
    part,
    at2, step2, flag2, lock2, first2, second2, swapped2, program, comm, net, votes

Row == {<<-1, 0>>, <<0, 0>>, <<1, 0>>}
Cross == Row \cup {<<0, -1>>, <<0, 1>>}
RingStarts == (-1 .. 4) \X {0}

\* Three ranks in which no error was caught before the run, and MPI performs the
\* accesses of error() in their order: otherwise no rank may take the lock and all
\* that failed wait in the barrier.
Fresh == INSTANCE Teardown WITH
    Rank <- {1, 2, 3}, NSteps <- 2, Caught <- FALSE, Reordered <- FALSE,
    pc <- at2, step <- step2, flag <- flag2, lock <- lock2, first <- first2,
    second <- second2, swapped <- swapped2

\* Three domains in a row: a rank may be a call ahead of its neighbor.
Ring == INSTANCE Communicator WITH
    W <- 3, H <- 1, L <- 3, R <- 1, Reach <- 1, Moves <- Row,
    NParticles <- 2, Starts <- RingStarts, Calls <- {"precompute", "sort"},
    MaxCalls <- 2, Eager <- TRUE

\* Two by two domains: particles and ghosts that cross a corner.
Grid == INSTANCE Communicator WITH
    W <- 2, H <- 2, L <- 3, R <- 1, Reach <- 1, Moves <- Cross,
    NParticles <- 1, Starts <- (-1 .. 6) \X (-1 .. 6),
    Calls <- {"precompute"}, MaxCalls <- 2, Eager <- FALSE

\* Two domains: calls, with migrations that one rank forces, return on both.
Pair == INSTANCE Communicator WITH
    W <- 2, H <- 1, L <- 3, R <- 1, Reach <- 1, Moves <- Row,
    NParticles <- 1, Starts <- (-1 .. 9) \X {0},
    Calls <- {"plain", "forced", "sort"}, MaxCalls <- 2, Eager <- FALSE

ASSUME RanksAssumption ==
    /\ Fresh!TeardownAssumption
    /\ Ring!CommunicatorAssumption
    /\ Grid!CommunicatorAssumption
    /\ Pair!CommunicatorAssumption

mcvars == <<part, vars, at2, step2, flag2, lock2, first2, second2, swapped2,
            program, comm, net, votes>>

\* What the parts on Teardown leave alone.
besideCaught == <<part, at2, step2, flag2, lock2, first2, second2, swapped2,
                  program, comm, net, votes>>
BesideCaught ==
    /\ at2 = Off /\ step2 = Off /\ flag2 = Off /\ lock2 = Off /\ first2 = Off
    /\ second2 = Off /\ swapped2 = Off /\ program = Off /\ comm = Off /\ net = Off /\ votes = Off

\* What the parts on Teardown leave alone.
besideFresh == <<part, vars, program, comm, net, votes>>
BesideFresh ==
    /\ Init /\ program = Off /\ comm = Off /\ net = Off /\ votes = Off

\* What the parts on Communicator leave alone.
besideCommunicator == <<part, vars, at2, step2, flag2, lock2, first2, second2,
                        swapped2>>
BesideCommunicator ==
    /\ Init /\ at2 = Off /\ step2 = Off /\ flag2 = Off /\ lock2 = Off
    /\ first2 = Off /\ second2 = Off /\ swapped2 = Off

MCInit ==
    \/ part = "caught" /\ Init /\ BesideCaught
    \/ part = "fresh" /\ Fresh!Init /\ BesideFresh
    \/ part = "ring" /\ Ring!Init /\ BesideCommunicator
    \/ part = "grid" /\ Grid!Init /\ BesideCommunicator
    \/ part = "pair" /\ Pair!Init /\ BesideCommunicator

MCNext ==
    \/ part = "caught" /\ Next /\ UNCHANGED besideCaught
    \/ part = "fresh" /\ Fresh!Next /\ UNCHANGED besideFresh
    \/ part = "ring" /\ Ring!Next /\ UNCHANGED besideCommunicator
    \/ part = "grid" /\ Grid!Next /\ UNCHANGED besideCommunicator
    \/ part = "pair" /\ Pair!Next /\ UNCHANGED besideCommunicator
    \/ part \in {"caught", "fresh", "pair"} /\ UNCHANGED mcvars  \* may stop

\* The fairness of the components (see there).
MCFairness ==
    /\ \A r \in {1, 2, 3} : WF_mcvars(part = "fresh" /\ Fresh!RankNext(r) /\ UNCHANGED besideFresh)
    /\ \A r \in Pair!Ranks : WF_mcvars(part = "pair" /\ Pair!Step(r) /\ UNCHANGED besideCommunicator)

MCSpec == MCInit /\ [][MCNext]_mcvars /\ MCFairness

-----------------------------------------------------------------------------
(* Properties *)

\* Particles and ghosts are where they belong. A particle is on one rank or in
\* one message, in the middle of a migration too. After migrateParticles()
\* every particle is inside the domain of its rank, also when it crossed a
\* corner of the grid or the boundary of the global box. After
\* exchangeGhosts() a rank has exactly the particles within the ghost layer
\* width of its domain, each once, at the image next to the domain. After a
\* ghost update every ghost is at an image of the present position of its
\* particle, and at the one that matters if there is one.
GhostsRight ==
    /\ part = "ring" =>
          /\ Ring!TypeOK /\ Ring!NoneLost /\ Ring!InsideDomain
          /\ Ring!GhostsExact /\ Ring!GhostsCurrent
    /\ part = "grid" =>
          /\ Grid!TypeOK /\ Grid!NoneLost /\ Grid!InsideDomain
          /\ Grid!GhostsExact /\ Grid!GhostsCurrent
    /\ part = "pair" => Pair!TypeOK

\* The message that a waiting rank receives next is the one it waits for:
\* ranks never disagree on whether to migrate or to update, whatever their
\* pace, and the number of positions is the number of ghosts.
Matched ==
    /\ part = "ring" => Ring!Matched
    /\ part = "grid" => Grid!Matched
    /\ part = "pair" => Pair!Matched

\* Every call of communicate() returns on every rank. An exception on one rank
\* ends the processes of all ranks, whatever they wait for, if the accesses of
\* error() are performed in order.
Returns ==
    /\ <>(part = "pair" => Pair!AllReturned)
    /\ (part = "fresh" /\ \E r \in {1, 2, 3} : at2[r] \in {"thrown", "uncaught"})
           ~> (part = "fresh" /\ \A r \in {1, 2, 3} : at2[r] = "aborted")
=============================================================================
