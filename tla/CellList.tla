------------------------------ MODULE CellList ------------------------------
(***************************************************************************)
(* The cell list (computes/CellList.cc), the stencil over it               *)
(* (computes/CellListStencil.cc) and the search for neighbours that the    *)
(* binned and the stencil neighbour list make with them.  compute() acts   *)
(* on what changed since the last call: a parameter, the box, the order of *)
(* the particles, the time step.  Cells have room for m_Nmax particles; a  *)
(* pass that needs more is repeated with more memory.  Two axes, x and z;  *)
(* lengths are whole numbers, a cell is a rational part of the grid.       *)
(***************************************************************************)
EXTENDS Integers, FiniteSets, FiniteSetsExt

CONSTANTS
    Particle,       \* indices 1 .. N, the local ones first
    NLocal,         \* number of local particles
    Box,            \* box sizes: a set of functions from Axis to lengths
    Periodic,       \* [Axis -> BOOLEAN]: FALSE where the domain is split
    RCut, RBuff,    \* cutoffs and buffer radii a script may set
    Multiple,       \* multiples a script may set
    GhostLayer,     \* widths the ghost layer of the Communicator may have
    Narrow,         \* how much narrower than the cutoff cells may be (stencil)
    GhostAlone,     \* the ghost layer may change by itself
    BuffAlone,      \* setRBuff() may be called by itself
    Strays,         \* local particles may leave the box
    MaxOps          \* bound: changes between calls of compute()

Axis == {"x", "z"}

CellAssumption ==
    /\ Particle = 1 .. Cardinality(Particle) /\ NLocal \in Nat
    /\ \A b \in Box : \A a \in Axis : b[a] \in Nat \ {0}
    /\ RCut \union RBuff \union Multiple \union GhostLayer \subseteq Nat
    /\ MaxOps \in Nat

VARIABLES
    box, pos,           \* m_pdata: the local box and the positions
    layer,              \* the width of the Communicator's ghost layer
    par,                \* r_cut, r_buff, m_nominal_width, m_multiple
    flag,               \* m_params_changed, m_box_changed, m_particles_sorted,
                        \* a time step not computed yet, restencil, m_compute_stencil
    dim, ghost,         \* m_dim, m_ghost_width
    Nmax,               \* m_Nmax
    mem,                \* the indexers: cells per axis and room per cell
    cell_size, xyzf,    \* the cell list: counts of the cells that are not
                        \* empty, and <<slot, particle>> for what is stored
    cond,               \* m_conditions: the largest cell, a particle outside
    stencil,            \* the offsets of the stencil
    pc, overrun, ops

vars == <<box, pos, layer, par, flag, dim, ghost, Nmax, mem, cell_size, xyzf,
          cond, stencil, pc, overrun, ops>>

-----------------------------------------------------------------------------
(* Cells of the grid.                                                      *)

Abs(i) == IF i < 0 THEN -i ELSE i
CeilDiv(a, b) == (a + b - 1) \div b
Total(b, g, a) == b[a] + 2 * g[a]

\* The indexer Index3D of the cells.
Index(d, c) == c.z * d.x + c.x

\* The cells inside the domain: as many as are at least as wide as asked.
Inner(b, p, a) == ((b[a] \div p.width) \div p.multiple) * p.multiple

\* computeDimensions with the ghost width m_ghost_width.
computeDimensions(b, p, g) ==
    LET cells(a) ==
          LET n == Inner(b, p, a)
              m == IF Periodic[a] \/ n = 0 THEN n ELSE n + CeilDiv(g[a] * n, b[a])
          IN IF m = 0 THEN 1 ELSE m
    IN [x |-> cells("x"), z |-> cells("z")]

\* The ghost width a cell list takes from the Communicator.
GhostWidth ==
    [x |-> IF Periodic["x"] THEN 0 ELSE layer, z |-> IF Periodic["z"] THEN 0 ELSE layer]

Estimate(d) ==
    LET n == CeilDiv(Cardinality(Particle), d["x"] * d["z"])
    IN IF n = 0 THEN 1 ELSE n

\* initializeMemory: m_Nmax is estimated once, then the arrays are allocated.
initializeMemory(d, n) ==
    /\ Nmax' = (IF n = 0 THEN Estimate(d) ELSE n)
    /\ mem' = [x |-> d["x"], z |-> d["z"], room |-> Nmax']

\* The bin of a coordinate along one axis, before the checks.
Bin(q, a) == ((q[a] + ghost[a]) * dim[a]) \div Total(box, ghost, a)

Wrapped(q) ==
    LET bin(a) == IF Bin(q, a) = dim[a] /\ Periodic[a] THEN 0 ELSE Bin(q, a)
    IN [x |-> bin("x"), z |-> bin("z")]

\* Inside the unit cell and the ghost layer, and in a cell of the grid.
InGrid(q) ==
    /\ \A a \in Axis : q[a] + ghost[a] \in 0 .. Total(box, ghost, a)
    /\ \A a \in Axis : Wrapped(q)[a] < dim[a]

-----------------------------------------------------------------------------
Idle == [params |-> FALSE, box |-> FALSE, sorted |-> FALSE, step |-> FALSE,
         restencil |-> FALSE, stencil |-> FALSE]

\* Where a local particle or a ghost may be after a migration and an exchange.
Coordinate(n, b, g, a) ==
    IF n <= NLocal THEN 0 .. b[a] - (IF Periodic[a] THEN 0 ELSE 1)
    ELSE IF Periodic[a] THEN 0 .. b[a] - 1 ELSE -g .. b[a] + g
Place(n, b, g) == [x : Coordinate(n, b, g, "x"), z : Coordinate(n, b, g, "z")]

\* A particle that has crossed its domain and the ghost layer.
Astray == [x |-> box["x"] + layer + 1, z |-> 0]

Width(rc, rb) == Max({1, rc + rb - Narrow})

Init ==
    /\ box \in Box /\ layer \in GhostLayer
    /\ \E rc \in RCut, rb \in RBuff :
          par = [rcut |-> rc, rbuff |-> rb, width |-> Width(rc, rb), multiple |-> 1]
    /\ \E p \in [1 .. NLocal -> Place(1, box, layer)],
          q \in [Particle \ 1 .. NLocal -> Place(NLocal + 1, box, layer)] :
          pos = [n \in Particle |-> IF n <= NLocal THEN p[n] ELSE q[n]]
    /\ flag = [Idle EXCEPT !.params = TRUE, !.step = TRUE, !.restencil = TRUE, !.stencil = TRUE]
    /\ dim = [x |-> 0, z |-> 0] /\ ghost = [x |-> 0, z |-> 0] /\ Nmax = 0
    /\ mem = [x |-> 0, z |-> 0, room |-> 0]
    /\ cell_size = <<>> /\ xyzf = {} /\ cond = [x |-> 0, z |-> 0]
    /\ stencil = {} /\ pc = "idle" /\ overrun = FALSE /\ ops = 0

-----------------------------------------------------------------------------
(* What changes between two calls of compute().                            *)

Between == pc \in {"idle", "done"} /\ ops < MaxOps /\ ops' = ops + 1 /\ pc' = "idle"
KeepLists == UNCHANGED <<dim, ghost, Nmax, mem, cell_size, xyzf, cond, stencil, overrun>>

\* A time step moves particle n by one unit, or too far.
Move(n, q) ==
    /\ Between
    /\ \/ q \in Place(n, box, layer) /\ q # pos[n] /\ \A a \in Axis : Abs(q[a] - pos[n][a]) <= 1
       \/ Strays /\ n <= NLocal /\ q = Astray
    /\ pos' = [pos EXCEPT ![n] = q]
    /\ flag' = [flag EXCEPT !.step = TRUE]
    /\ UNCHANGED <<box, layer, par>> /\ KeepLists

\* The sorter exchanges two local particles: slotParticlesSorted.
Sort(n) ==
    /\ Between /\ n + 1 \in Particle /\ n + 1 <= NLocal
    /\ pos' = [pos EXCEPT ![n] = pos[n + 1], ![n + 1] = pos[n]]
    /\ flag' = [flag EXCEPT !.sorted = TRUE]
    /\ UNCHANGED <<box, layer, par>> /\ KeepLists

\* The box changes (slotBoxChanged, requestCompute of the stencil) and the
\* particles with it.
BoxChange(b) ==
    /\ Between /\ b # box
    /\ \A n \in Particle : pos[n] \in Place(n, b, layer)
    /\ box' = b
    /\ flag' = [flag EXCEPT !.box = TRUE, !.step = TRUE, !.stencil = TRUE]
    /\ UNCHANGED <<pos, layer, par>> /\ KeepLists

\* setRCutPair: a new cutoff, and with it the width of the cells.
SetRCut(rc) ==
    /\ Between /\ rc # par.rcut
    /\ par' = [par EXCEPT !.rcut = rc, !.width = Width(rc, par.rbuff)]
    /\ flag' = [flag EXCEPT !.params = TRUE, !.restencil = TRUE, !.step = TRUE]
    /\ UNCHANGED <<box, pos, layer>> /\ KeepLists

\* setRBuff; the script interface sets the cutoffs again before it runs.
SetRBuff(rb) ==
    /\ Between /\ rb # par.rbuff
    /\ par' = [par EXCEPT !.rbuff = rb,
                          !.width = IF BuffAlone THEN @ ELSE Width(par.rcut, rb)]
    /\ flag' = [flag EXCEPT !.params = @ \/ ~BuffAlone, !.restencil = TRUE, !.step = TRUE]
    /\ UNCHANGED <<box, pos, layer>> /\ KeepLists

\* setMultiple does not report a change of the parameters.
SetMultiple(m) ==
    /\ Between /\ m # par.multiple
    /\ par' = [par EXCEPT !.multiple = IF m = 0 THEN 1 ELSE m]
    /\ UNCHANGED <<box, pos, layer, flag>> /\ KeepLists

\* Another client widens the ghost layer of the Communicator.  With the one
\* neighbour list of the default script that comes with a new cutoff.
SetGhostLayer(g) ==
    /\ Between /\ g # layer
    /\ \A n \in Particle : pos[n] \in Place(n, box, g)
    /\ layer' = g
    /\ flag' = [flag EXCEPT !.step = TRUE, !.params = @ \/ ~GhostAlone]
    /\ UNCHANGED <<box, pos, par>> /\ KeepLists

-----------------------------------------------------------------------------
(* compute().                                                              *)

Forced == flag.params \/ flag.box \/ flag.sorted
DimChanged(b, p, g) == computeDimensions(b, p, g) # dim

\* Mutation: a new box only updates the widths, never the memory.
ReinitializesParamsOnly == flag.params

\* initializeAll is called for new parameters, and for a new box if the number
\* of cells (with the ghost width in use) is another one.
Reinitializes == flag.params \/ (flag.box /\ DimChanged(box, par, ghost))

\* The flags are worked off; initializeWidth signals the new width to the
\* stencil.  Without a reason for a pass the list stays.
Begin ==
    LET newdim == computeDimensions(box, par, GhostWidth)
    IN
    /\ pc = "idle"
    /\ ghost' = (IF flag.params \/ flag.box THEN GhostWidth ELSE ghost)
    /\ dim' = (IF flag.params \/ flag.box THEN newdim ELSE dim)
    /\ IF Reinitializes THEN initializeMemory(newdim, Nmax) ELSE UNCHANGED <<Nmax, mem>>
    /\ flag' = [flag EXCEPT !.params = FALSE, !.box = FALSE, !.sorted = FALSE, !.step = FALSE,
                            !.stencil = @ \/ flag.params \/ flag.box]
    /\ pc' = IF Forced \/ flag.step THEN "bin" ELSE "binned"
    /\ UNCHANGED <<box, pos, layer, par, cell_size, xyzf, cond, stencil, overrun, ops>>

Cells == mem.x * mem.z
\* The bins of the particles inside the grid, by the indexer of the memory.
Bins == [n \in {m \in Particle : InGrid(pos[m])} |-> Index(mem, Wrapped(pos[n]))]

HasRoom(offset) == offset < Nmax

\* computeCellList: every particle in the grid is counted in its cell and
\* stored, at Index2D(room), if there is room; a local particle outside is an
\* error.
ComputeCellList ==
    LET bins == Bins
        in == DOMAIN bins
        offset == [n \in in |-> Cardinality({m \in in : m < n /\ bins[m] = bins[n]})]
        stored == {n \in in : HasRoom(offset[n])}
        slot == [n \in stored |-> bins[n] * mem.room + offset[n]]
    IN
    /\ pc = "bin"
    /\ cell_size' = [b \in {bins[n] : n \in in} |-> Cardinality({n \in in : bins[n] = b})]
    /\ xyzf' = {<<slot[n], n>> : n \in stored}
    /\ cond' = [x |-> Max({0} \union {offset[n] + 1 : n \in in \ stored}),
                z |-> Max({0} \union {n \in Particle \ in : n <= NLocal})]
    /\ overrun' = (overrun \/ \E n \in stored : bins[n] >= Cells \/ slot[n] >= Cells * mem.room)
    /\ pc' = "check"
    /\ UNCHANGED <<box, pos, layer, par, flag, dim, ghost, Nmax, mem, stencil, ops>>

\* Mutation: the overflow value is not kept, memory of the old size comes back.
CheckConditionsForgets ==
    /\ pc = "check"
    /\ IF cond.x > Nmax /\ cond.z = 0
       THEN pc' = "bin" /\ initializeMemory(dim, Nmax)
       ELSE pc' = (IF cond.z # 0 THEN "failed" ELSE "binned") /\ UNCHANGED <<Nmax, mem>>
    /\ UNCHANGED <<box, pos, layer, par, flag, dim, ghost, cell_size, xyzf, cond, stencil,
                   overrun, ops>>

\* checkConditions: m_Nmax takes the overflow value; an error is thrown after
\* that and before the memory is allocated; initializeAll sets the width anew.
CheckConditions ==
    /\ pc = "check"
    /\ LET n == IF cond.x > Nmax THEN cond.x ELSE Nmax
           d == computeDimensions(box, par, GhostWidth)
       IN CASE cond.z # 0 -> /\ pc' = "failed" /\ Nmax' = n
                             /\ UNCHANGED <<mem, dim, ghost, cond, flag>>
            [] cond.z = 0 /\ cond.x > Nmax ->
                 /\ pc' = "bin" /\ initializeMemory(d, n)
                 /\ dim' = d /\ ghost' = GhostWidth
                 /\ cond' = [x |-> 0, z |-> 0]
                 /\ flag' = [flag EXCEPT !.stencil = TRUE]
            [] OTHER -> pc' = "binned" /\ UNCHANGED <<Nmax, mem, dim, ghost, cond, flag>>
    /\ UNCHANGED <<box, pos, layer, par, cell_size, xyzf, stencil, overrun, ops>>

\* A script catches the error, puts the particle back and runs again; a run
\* sets the cutoffs first (update_rcut), and setRCutPair the width of the cells.
Retry(n, q) ==
    /\ pc = "failed" /\ n = cond.z /\ q \in Place(n, box, layer)
    /\ pos' = [pos EXCEPT ![n] = q]
    /\ flag' = [flag EXCEPT !.step = TRUE, !.params = TRUE, !.restencil = TRUE] /\ pc' = "idle"
    /\ UNCHANGED <<box, layer, par, ops>> /\ KeepLists

-----------------------------------------------------------------------------
(* The stencil.                                                            *)

RList == par.rcut + par.rbuff

\* The reach of the stencil along an axis, in cells.
Reach(a) == CeilDiv(RList * dim[a], Total(box, ghost, a))
Site == [x : -Reach("x") .. Reach("x"), z : -Reach("z") .. Reach("z")]

\* Whether the code takes axis a for periodic: along x it asks for z.
TestsPeriodic(a) == Periodic["z"]

OutsideOfGrid(s, a) == (dim[a] - 1) \div 2 + s[a] < 0 \/ (dim[a] - 1) \div 2 + s[a] >= dim[a]

\* Mutation: the closest point of a cell is taken one cell further out.
GapFull(i) == Abs(i)

\* Whole cells between the reference cell and one i cells away.
Gap(i) == IF i = 0 THEN 0 ELSE Abs(i) - 1

\* The closest point of the cell is nearer than the search radius; the two
\* axes are brought to the common denominator.
Near(s) ==
    LET part(a, o) == Gap(s[a]) * Total(box, ghost, a) * dim[o]
    IN part("x", "z") * part("x", "z") + part("z", "x") * part("z", "x")
         < RList * RList * dim["x"] * dim["x"] * dim["z"] * dim["z"]

\* updateRStencil and CellListStencil::compute; the own cell is always there.
Stencil ==
    /\ pc = "binned"
    /\ stencil' = IF flag.restencil \/ flag.stencil
                  THEN {s \in Site : /\ ~\E a \in Axis : TestsPeriodic(a) /\ OutsideOfGrid(s, a)
                                     /\ Near(s)} \union {[x |-> 0, z |-> 0]}
                  ELSE stencil
    /\ flag' = [flag EXCEPT !.restencil = FALSE, !.stencil = FALSE]
    /\ pc' = "done"
    /\ UNCHANGED <<box, pos, layer, par, dim, ghost, Nmax, mem, cell_size, xyzf, cond,
                   overrun, ops>>

-----------------------------------------------------------------------------
Next ==
    \/ \E n \in Particle : \E q \in Place(n, box, layer) \union {Astray} :
          Move(n, q) \/ Retry(n, q)
    \/ \E n \in Particle : Sort(n)
    \/ \E b \in Box : BoxChange(b)
    \/ \E r \in RCut : SetRCut(r)
    \/ \E r \in RBuff : SetRBuff(r)
    \/ \E m \in Multiple : SetMultiple(m)
    \/ \E g \in GhostLayer : SetGhostLayer(g)
    \/ Begin \/ ComputeCellList \/ CheckConditions \/ Stencil

\* compute() is one call: it goes on until it returns or throws.
Spec == Init /\ [][Next]_vars /\ WF_vars(Begin \/ ComputeCellList \/ CheckConditions \/ Stencil)

-----------------------------------------------------------------------------
TypeOK ==
    /\ pc \in {"idle", "bin", "check", "binned", "done", "failed"}
    /\ Nmax \in 0 .. Cardinality(Particle) /\ mem.room \in 0 .. Cardinality(Particle)
    /\ \A a \in Axis : dim[a] \in Nat /\ ghost[a] \in Nat
    /\ \A e \in xyzf : e[1] \in Nat /\ e[2] \in Particle
    /\ overrun \in BOOLEAN /\ ops \in 0 .. MaxOps

\* No particle is written outside the arrays of the cell list.
InBounds == ~overrun

\* What a reader of cell b finds: the entries at the offsets below its size.
Size(b) == IF b \in DOMAIN cell_size THEN cell_size[b] ELSE 0
Content(b) == {e \in xyzf : e[1] \in b * mem.room .. b * mem.room + Size(b) - 1}
Lists(b, n) == \E e \in Content(b) : e[2] = n

\* When compute() returns every local particle is listed in one cell only, the
\* one that contains its position now, and every listed index is a particle.
EachInOneCell ==
    pc = "done" =>
        /\ \A n \in 1 .. NLocal : {b \in DOMAIN cell_size : Lists(b, n)} = {Index(mem, Wrapped(pos[n]))}
        /\ \A b \in DOMAIN cell_size : Cardinality(Content(b)) = cell_size[b]

\* The distance between two particles, the nearest image along periodic axes.
Distance(p, q, a) ==
    LET d == Abs(p[a] - q[a])
    IN IF Periodic[a] /\ d > box[a] - d THEN box[a] - d ELSE d
InRange(p, q) == Distance(p, q, "x") * Distance(p, q, "x") + Distance(p, q, "z") * Distance(p, q, "z")
                   <= RList * RList

\* buildNlist refuses boxes that are not larger than twice the cutoff.
BoxFits == \A a \in Axis : Periodic[a] => box[a] > 2 * RList

\* The cells of cell_adj (initializeCellAdj, radius 1) around cell c.
Adjacent(c) == [x : {(c.x + i) % mem.x : i \in -1 .. 1}, z : {(c.z + i) % mem.z : i \in -1 .. 1}]

\* A search through the adjacent cells, as the binned neighbour list makes it,
\* meets every particle within the list radius of a local one.
NeighboursFound ==
    (pc = "done" /\ BoxFits) =>
        \A n \in 1 .. NLocal, m \in Particle :
            (n # m /\ InRange(pos[n], pos[m])) =>
                \E c \in Adjacent(Wrapped(pos[n])) : Lists(Index(mem, c), m)

\* The sites of the stencil that lead from cell c to cell d (buildNlist of the
\* stencil neighbour list: periodic axes wrap once, others end).
Leads(c, d) ==
    {s \in stencil : \A a \in Axis :
        LET t == c[a] + s[a]
        IN d[a] = (IF ~Periodic[a] THEN t
                   ELSE IF t >= dim[a] THEN t - dim[a] ELSE IF t < 0 THEN t + dim[a] ELSE t)}

\* A search along the stencil meets every particle within the list radius of a
\* local one exactly once.
StencilOnce ==
    (pc = "done" /\ BoxFits) =>
        \A n \in 1 .. NLocal, m \in Particle :
            (n # m /\ InRange(pos[n], pos[m])) =>
                Cardinality(Leads(Wrapped(pos[n]), Wrapped(pos[m]))) = 1

\* compute() comes back, however often a cell overflows.
ComputeEnds == pc = "bin" ~> pc \in {"done", "failed"}
=============================================================================
