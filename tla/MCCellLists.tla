---------------------------- MODULE MCCellLists -----------------------------
(***************************************************************************)
(* Instances of CellList: a periodic box, cells narrower than the cutoff   *)
(* as the stencil list makes them, a domain that is split along both axes, *)
(* cells that overflow, and a call of compute() that must end. A behaviour *)
(* belongs to one part.                                                    *)
(***************************************************************************)
EXTENDS Integers, FiniteSets

VARIABLES
    part,
    box, pos, layer, par, flag, dim, ghost, Nmax, mem, cell_size, xyzf, cond,
    stencil, pc, overrun, ops

\* Boxes by their lengths along x and z.
Boxes(sx, sz) == [x : sx, z : sz]
Both == [a \in {"x", "z"} |-> TRUE]
Neither == [a \in {"x", "z"} |-> FALSE]

\* One domain, periodic along both axes: two local particles.
Serial == INSTANCE CellList WITH
    Particle <- {1, 2}, NLocal <- 2, Periodic <- Both, RBuff <- {0},
    Multiple <- {}, GhostLayer <- {0}, Narrow <- 0, GhostAlone <- FALSE,
    BuffAlone <- FALSE, Strays <- FALSE, MaxOps <- 1,
    Box <- Boxes({3, 5}, {5}), RCut <- {1, 2}

\* Cells narrower than the cutoff, as the stencil list makes them.
Stencil == INSTANCE CellList WITH
    Particle <- {1, 2}, NLocal <- 2, Periodic <- Both, RBuff <- {0},
    Multiple <- {}, GhostLayer <- {0}, Narrow <- 1, GhostAlone <- FALSE,
    BuffAlone <- FALSE, Strays <- FALSE, MaxOps <- 0,
    Box <- Boxes({5, 6}, {5}), RCut <- {2}

\* A domain that is split along both axes: one local particle, one ghost.
Split == INSTANCE CellList WITH
    Particle <- {1, 2}, NLocal <- 1, Periodic <- Neither, RBuff <- {0},
    Multiple <- {1, 2}, GhostLayer <- {1, 2}, Narrow <- 0,
    GhostAlone <- FALSE, BuffAlone <- FALSE, Strays <- TRUE, MaxOps <- 1,
    Box <- Boxes({2, 4}, {2}), RCut <- {1}

\* Three particles in four cells: cells overflow.
Overflow == INSTANCE CellList WITH
    Particle <- {1, 2, 3}, NLocal <- 3, Periodic <- Both, RBuff <- {0},
    Multiple <- {}, GhostLayer <- {0}, Narrow <- 0, GhostAlone <- FALSE,
    BuffAlone <- FALSE, Strays <- TRUE, MaxOps <- 0, Box <- Boxes({2}, {2}),
    RCut <- {1}

\* Two particles that may meet in a cell with room for one.
Ends == INSTANCE CellList WITH
    Particle <- {1, 2}, NLocal <- 2, Periodic <- Both, RBuff <- {0},
    Multiple <- {}, GhostLayer <- {0}, Narrow <- 0, GhostAlone <- FALSE,
    BuffAlone <- FALSE, Strays <- TRUE, MaxOps <- 1,
    Box <- Boxes({1, 2}, {1, 2}), RCut <- {1}

ASSUME CellListsAssumption ==
    /\ Serial!CellAssumption
    /\ Stencil!CellAssumption
    /\ Split!CellAssumption
    /\ Overflow!CellAssumption
    /\ Ends!CellAssumption

mcvars == <<part, box, pos, layer, par, flag, dim, ghost, Nmax, mem,
            cell_size, xyzf, cond, stencil, pc, overrun, ops>>

MCInit ==
    \/ part = "serial" /\ Serial!Init
    \/ part = "stencil" /\ Stencil!Init
    \/ part = "split" /\ Split!Init
    \/ part = "overflow" /\ Overflow!Init
    \/ part = "ends" /\ Ends!Init

MCNext ==
    \/ part = "serial" /\ Serial!Next /\ UNCHANGED part
    \/ part = "stencil" /\ Stencil!Next /\ UNCHANGED part
    \/ part = "split" /\ Split!Next /\ UNCHANGED part
    \/ part = "overflow" /\ Overflow!Next /\ UNCHANGED part
    \/ part = "ends" /\ Ends!Next /\ UNCHANGED part

\* The fairness of the components (see there).
MCFairness ==
    /\ WF_mcvars(part = "ends" /\ (Ends!Begin \/ Ends!ComputeCellList \/ Ends!CheckConditions \/ Ends!Stencil) /\ UNCHANGED part)

MCSpec == MCInit /\ [][MCNext]_mcvars /\ MCFairness

-----------------------------------------------------------------------------
(* Properties *)

\* No particle is written outside the arrays of the cell list, after changes
\* of the box, the cutoff, the buffer, the ghost layer and the number of
\* particles per cell. When compute() returns every local particle is listed
\* in one cell only, the one that contains its position now, and every listed
\* index is a particle.
CellsRight ==
    /\ part = "serial" =>
          /\ Serial!TypeOK /\ Serial!InBounds /\ Serial!EachInOneCell
    /\ part = "stencil" =>
          /\ Stencil!TypeOK /\ Stencil!InBounds /\ Stencil!EachInOneCell
    /\ part = "split" => Split!TypeOK /\ Split!InBounds /\ Split!EachInOneCell
    /\ part = "overflow" =>
          /\ Overflow!TypeOK /\ Overflow!InBounds /\ Overflow!EachInOneCell
    /\ part = "ends" => Ends!TypeOK /\ Ends!InBounds /\ Ends!EachInOneCell

\* A search through the adjacent cells, as the binned neighbor list makes it,
\* meets every particle within the list radius of a local one. A search along
\* the stencil meets every particle within the list radius of a local one
\* exactly once.
SearchComplete ==
    /\ part = "serial" => Serial!NeighboursFound /\ Serial!StencilOnce
    /\ part = "split" => Split!NeighboursFound
    /\ part = "stencil" => Stencil!StencilOnce

\* compute() comes back, however often a cell overflows.
ComputeEnds == (part = "ends" /\ pc = "bin") ~> pc \in {"done", "failed"}
=============================================================================
