-------------------------- MODULE MCNeighborLists ---------------------------
(***************************************************************************)
(* Instances of NeighborList (two lists with different periods on two      *)
(* ranks, two potentials on one list that precompute their forces, two     *)
(* lists on one rank) and of Exclusions (topology, changing particles),    *)
(* and NlistStorage itself, whose constants are those of the cfg.  A       *)
(* behaviour belongs to one part; the variables of the others stay Off, or *)
(* are those of an empty memory.                                           *)
(***************************************************************************)
EXTENDS NlistStorage

CONSTANT Off

VARIABLES
    part,
    phase, at, step, nl, seen, pot, forces, migrate, forced, overlap, rtags,
    order, bonds, listed, script, state, ops

\* Two lists with different buffers and check periods.
Host == INSTANCE NeighborList WITH
    pc <- phase, Rank <- {1, 2}, NList <- 2, Pot <- {1, 2}, ListOf <- <<1, 2>>,
    Every <- <<1, 2>>, DistCheck <- <<TRUE, TRUE>>, Reach <- <<1, 2>>,
    GPU <- FALSE, SortSteps <- {3}, LogSteps <- {1, 3}, EndSteps <- {5},
    MaxStep <- 7, MaxMove <- 3

\* One list with two potentials that compute while ghosts are communicated.
Overlap == INSTANCE NeighborList WITH
    pc <- phase, Rank <- {1, 2}, NList <- 1, Pot <- {1, 2}, ListOf <- <<1, 1>>,
    Every <- <<2>>, DistCheck <- <<TRUE>>, Reach <- <<2>>, GPU <- TRUE,
    SortSteps <- {3}, LogSteps <- {2}, EndSteps <- {5}, MaxStep <- 7,
    MaxMove <- 3

\* One rank, a list without distance check and one with a long period.
Serial == INSTANCE NeighborList WITH
    pc <- phase, Rank <- {1}, NList <- 2, Pot <- {1, 2}, ListOf <- <<1, 2>>,
    Every <- <<0, 3>>, DistCheck <- <<FALSE, TRUE>>, Reach <- <<1, 2>>,
    GPU <- TRUE, SortSteps <- {3}, LogSteps <- {1, 3}, EndSteps <- {5},
    MaxStep <- 9, MaxMove <- 3

\* Exclusions by bonds, angles and dihedrals of chains and stars.
Topology == INSTANCE Exclusions WITH
    nlist <- listed, NTags <- 4, NStart <- 4, NBonds <- 3, MAXNBONDS <- 3,
    Kinds <- {{"bond", "1-3"}, {"1-3", "1-4"}}, Rings <- FALSE, Ops <- 5

\* Exclusions while particles are added, removed and sorted.
Tags == INSTANCE Exclusions WITH
    nlist <- listed, NTags <- 4, NStart <- 3, NBonds <- 2, MAXNBONDS <- 8,
    Kinds <- {{"bond"}, {}}, Rings <- TRUE, Ops <- 6

ASSUME NeighborListsAssumption ==
    /\ Host!NeighborListAssumption
    /\ Overlap!NeighborListAssumption
    /\ Serial!NeighborListAssumption
    /\ Topology!ExclusionsAssumption
    /\ Tags!ExclusionsAssumption

mcvars == <<part, phase, at, step, nl, seen, pot, forces, migrate, forced,
            overlap, rtags, order, bonds, listed, script, state, ops, vars>>

\* No particles, no types, no memory: NlistStorage in the parts that have others.
NoStorage ==
    /\ type = <<>> /\ neigh = <<>> /\ ntypes = 0 /\ Nmax = <<>>
    /\ conditions = <<>> /\ head_list = <<>> /\ nlist = <<>> /\ n_neigh = <<>>
    /\ force = TRUE /\ pc = "idle" /\ builds = 0 /\ built = FALSE

\* What the parts on NeighborList leave alone.
besideLists == <<part, rtags, order, bonds, listed, script, state, ops, vars>>
BesideLists ==
    /\ NoStorage
    /\ rtags = Off /\ order = Off /\ bonds = Off /\ listed = Off
    /\ script = Off /\ state = Off /\ ops = Off

\* What the parts on Exclusions leave alone.
besideExclusions == <<part, phase, at, step, seen, pot, forces, migrate, forced,
                      overlap, vars>>
BesideExclusions ==
    /\ NoStorage
    /\ phase = Off /\ at = Off /\ step = Off /\ seen = Off /\ pot = Off
    /\ forces = Off /\ migrate = Off /\ forced = Off /\ overlap = Off

\* What the part on NlistStorage leaves alone.
besideStorage == <<part, phase, at, step, nl, seen, pot, forces, migrate, forced,
                   overlap, rtags, order, bonds, listed, script, state, ops>>
BesideStorage ==
    /\ phase = Off /\ at = Off /\ step = Off /\ nl = Off /\ seen = Off
    /\ pot = Off /\ forces = Off /\ migrate = Off /\ forced = Off
    /\ overlap = Off /\ rtags = Off /\ order = Off /\ bonds = Off
    /\ listed = Off /\ script = Off /\ state = Off /\ ops = Off

MCInit ==
    \/ part = "host" /\ Host!Init /\ BesideLists
    \/ part = "overlap" /\ Overlap!Init /\ BesideLists
    \/ part = "serial" /\ Serial!Init /\ BesideLists
    \/ part = "topology" /\ Topology!Init /\ BesideExclusions
    \/ part = "tags" /\ Tags!Init /\ BesideExclusions
    \/ part = "storage" /\ Init /\ BesideStorage

MCNext ==
    \/ part = "host" /\ Host!Next /\ UNCHANGED besideLists
    \/ part = "overlap" /\ Overlap!Next /\ UNCHANGED besideLists
    \/ part = "serial" /\ Serial!Next /\ UNCHANGED besideLists
    \/ part = "topology" /\ Topology!Next /\ UNCHANGED besideExclusions
    \/ part = "tags" /\ Tags!Next /\ UNCHANGED besideExclusions
    \/ part = "storage" /\ Next /\ UNCHANGED besideStorage
    \/ part \in {"host", "topology", "tags"} /\ UNCHANGED mcvars  \* may stop

\* The fairness of the components (see there).
MCFairness ==
    /\ \A r \in {1, 2} : WF_mcvars(part = "host" /\ Host!RankStep(r) /\ UNCHANGED besideLists)
    /\ WF_mcvars(part = "host" /\ Host!AskDistance /\ UNCHANGED besideLists)
    /\ WF_mcvars(part = "host" /\ Host!UpdateGhosts /\ UNCHANGED besideLists)
    /\ WF_mcvars(part = "host" /\ Host!Migrate /\ UNCHANGED besideLists)
    /\ WF_mcvars(part = "host" /\ Host!SortMigrate /\ UNCHANGED besideLists)
    /\ WF_mcvars(part = "host" /\ Host!EndRun /\ UNCHANGED besideLists)

MCSpec == MCInit /\ [][MCNext]_mcvars /\ MCFairness

-----------------------------------------------------------------------------
(* Properties *)

\* Forces that are used belong to the present particles at their present
\* positions, whoever asked for a migration, sorted, or precomputed them. A
\* list is used beyond the displacement it was built for only before the first
\* check that setEvery() allows; with a period of 0 or 1, never. The particle
\* that moved may be a ghost, whose owner notices.
ListsFresh ==
    /\ part = "host" =>
          /\ Host!TypeOK /\ Host!ForcesFresh /\ Host!UnsafeOnlyBetweenChecks
    /\ part = "overlap" =>
          /\ Overlap!TypeOK /\ Overlap!ForcesFresh
          /\ Overlap!UnsafeOnlyBetweenChecks
    /\ part = "serial" =>
          /\ Serial!TypeOK /\ Serial!ForcesFresh
          /\ Serial!UnsafeOnlyBetweenChecks

\* Ranks that have completed the same step have rebuilt each list at the same
\* step, so that the next check finds all of them in or all out of the
\* allreduce. Ranks that wait for the others wait in the same collective call,
\* and for the same list.
RanksAgree ==
    /\ part = "host" => Host!RebuildsAgree /\ Host!Matched
    /\ part = "overlap" => Overlap!RebuildsAgree /\ Overlap!Matched

\* Every rank completes the run: no forced rebuild on one rank leaves it alone
\* in an allreduce.
Completes == <>(part = "host" => Host!AllDone)

\* No list of exclusions is longer than the arrays are high, as addExclusion()
\* asserts. Exclusions are only used when the arrays have room for every tag
\* and were made for the particles that there are. The neighbor list holds
\* exactly the pairs that the script did not ask to exclude, each once, after
\* particles and bonds were added, removed and sorted.
ExclusionsRight ==
    /\ part = "topology" =>
          /\ Topology!TypeOK /\ Topology!ListsFit /\ Topology!PairsExact
    /\ part = "tags" => Tags!TypeOK /\ Tags!ListsCurrent /\ Tags!PairsExact
=============================================================================
