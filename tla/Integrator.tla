------------------------------ MODULE Integrator ------------------------------
(***************************************************************************)
(* Integrator and IntegratorTwoStep (updaters/), ForceCompute (computes/)  *)
(* and the calls of hoomd_script's run().  A step moves the particles with *)
(* the accelerations of the last step, communicates, sums the forces at    *)
(* the new positions, lets the constraint forces read the sum and add to   *)
(* it, and sets the accelerations from it.  A force is evaluated at most   *)
(* once per time step: compute() returns early unless the time step is new *)
(* or the particles were sorted.  SIGINT ends a run after a step without   *)
(* counting it, so that the next run integrates the step again.            *)
(*                                                                         *)
(* Numbers are abstracted to where they come from.  A sum is a function    *)
(* from the force objects to "absent", "stale" (taken at other positions   *)
(* or in another order of the particles), "current" or "twice".            *)
(***************************************************************************)
EXTENDS Naturals, FiniteSets, SequencesExt

CONSTANTS
    ForceList,      \* globals.forces of hoomd_script, in order
    ConstraintList, \* globals.constraint_forces
    MethodList,     \* globals.integration_methods
    Particle,
    Members,        \* [methods -> SUBSET Particle]: the group of each method
    Restarted,      \* methods with valid restart information
    Aniso,          \* forces that couple to the orientation
    Logged,         \* forces whose energy is logged
    Removes,        \* [constraints -> Nat]: getNDOFRemoved()
    Thermos,        \* the groups of compute.thermo
    Dims,           \* getNDimensions()
    UIntSpan,       \* number of values of an unsigned int, 2^32 in the build
    Scripts,        \* what the script enables before a run
    DeltaTs,        \* time step sizes; none is 0, which unset objects have
    Gpu,            \* exec_mode is GPU
    Decomposed,     \* the integrator has a communicator
    Edits,          \* scripts and updaters move particles
    Interrupts,     \* SIGINT may arrive
    MaxStep         \* bound: time steps

Force == ToSet(ForceList)
Constraint == ToSet(ConstraintList)
Method == ToSet(MethodList)
Obj == Force \union Constraint

IntegratorAssumption ==
    /\ Members \in [Method -> SUBSET Particle] /\ Restarted \subseteq Method
    /\ Aniso \subseteq Obj /\ Logged \subseteq Force
    /\ Removes \in [Constraint -> Nat]
    /\ Thermos \subseteq SUBSET Particle /\ Dims \in {2, 3}
    /\ Scripts \subseteq [forces : SUBSET Force, constraints : SUBSET Constraint,
                          methods : SUBSET Method]
    /\ DeltaTs \subseteq Nat \ {0} /\ MaxStep \in Nat
    /\ {Gpu, Decomposed, Edits, Interrupts} \subseteq BOOLEAN
    /\ Decomposed => \A s \in Scripts : s.constraints = {}

VARIABLES
    dt,             \* m_deltaT of the integrator
    forces,         \* m_forces
    constraints,    \* m_constraint_forces
    methods,        \* m_methods
    mode,           \* m_aniso_mode
    first,          \* m_first_step
    objdt,          \* m_deltaT of every force, constraint and method
    rotates,        \* m_aniso of every method
    fc,             \* [Obj -> the state of ForceCompute]
    net,            \* the net force of ParticleData, a sum
    virial,         \* the net virial, a sum
    asked,          \* the flags ask for the virial in this step
    accel,          \* [Particle -> where its acceleration comes from]
    ndof,           \* [Thermos -> m_ndof of ComputeThermo]
    t,              \* the time step
    pc              \* where System::run() is

\* History, not in the code.
VARIABLES
    redone,         \* the step numbers of states that SIGINT made ambiguous: a step
                    \* was integrated from or to them and not counted
    netof,          \* what the net force was summed from: the objects, and if
                    \* all of them were evaluated for that sum
    accelof,        \* the same of the accelerations, and the particles that have them
    renewed         \* this run has set accelerations

history == <<redone, netof, accelof, renewed>>
vars == <<dt, forces, constraints, methods, mode, first, objdt, rotates, fc, net,
          virial, asked, accel, ndof, t, pc, history>>

setup == <<dt, forces, constraints, methods, mode, first, objdt, rotates, ndof>>

Status == {"absent", "stale", "current", "twice"}
Zero == [o \in Obj |-> "absent"]

-----------------------------------------------------------------------------
(* ForceCompute.                                                           *)

FreshForce == [firstc |-> TRUE, last |-> 0, sorted |-> FALSE, val |-> "stale", sees |-> Zero]

\* Compute::shouldCompute(): a new time step, or the first call ever.
ShouldCompute(f, ts) == f.firstc \/ f.last # ts

\* ForceCompute::compute().  After a sort shouldCompute() is not called, so that
\* m_first_compute and m_last_computed keep their values.  A constraint reads the
\* net force sum.
Compute(f, ts, sum) ==
    CASE f.sorted -> [f EXCEPT !.sorted = FALSE, !.val = "current", !.sees = sum]
      [] ~f.sorted /\ ~ShouldCompute(f, ts) -> f
      [] OTHER -> [f EXCEPT !.firstc = FALSE, !.last = ts, !.val = "current", !.sees = sum]

\* All objects of a list are computed; those of other lists are left alone.
ComputeAll(c, list, ts, sum) ==
    [o \in Obj |-> IF o \in ToSet(list) THEN Compute(c[o], ts, sum) ELSE c[o]]

\* Positions changed: what was evaluated before is stale now.
Old(s) == IF s = "current" THEN "stale" ELSE s
Aged(sum) == [o \in Obj |-> Old(sum[o])]
AgedForces(c) == [o \in Obj |-> [c[o] EXCEPT !.val = Old(@), !.sees = Aged(@)]]
AgedAccel == [p \in Particle |->
    IF accel[p].from = "sum" THEN [accel[p] EXCEPT !.sum = Aged(@)]
    ELSE [accel[p] EXCEPT !.from = "unset"]]

\* setParticlesSorted(), the slot of the sort signal: the arrays of a force keep
\* the old order, the arrays of ParticleData move with the particles.
Reordered(c) == [o \in Obj |-> [c[o] EXCEPT !.sorted = TRUE, !.val = Old(@)]]

-----------------------------------------------------------------------------
(* Integrator::computeNetForce() and computeNetForceGPU().                 *)

\* The value of o is added to a sum.
Add(sum, o, c) == [sum EXCEPT ![o] = IF @ = "absent" THEN c[o].val ELSE "twice"]
AddAll(sum, list, c) == FoldLeft(LAMBDA s, o : Add(s, o, c), sum, list)

\* gpu_force_list has six slots.
Slots == 6

\* The g-th group of at most six forces, counted from 0.
Batch(list, g) ==
    SubSeq(list, Slots * g + 1,
           IF Slots * g + Slots < Len(list) THEN Slots * g + Slots ELSE Len(list))

Batches(list) == [i \in 1 .. (Len(list) + Slots - 1) \div Slots |-> i - 1]

\* Mutation: every launch of the kernel clears.
LaunchSumClearsAll(old, list, c, clear) ==
    FoldLeft(LAMBDA s, g : AddAll(IF clear THEN Zero ELSE s, Batch(list, g), c),
             old, Batches(list))

\* gpu_integrator_sum_net_force for every group; only the first may clear.
LaunchSum(old, list, c, clear) ==
    FoldLeft(LAMBDA s, g : AddAll(IF g = 0 /\ clear THEN Zero ELSE s, Batch(list, g), c),
             old, Batches(list))

\* The sum over m_forces: on the host the arrays are zeroed, on the device the
\* first launch clears, or a memset if there are no forces.
ForceSum(old, c, gpu) ==
    IF gpu THEN LaunchSum(IF forces = <<>> THEN Zero ELSE old, forces, c, TRUE)
    ELSE AddAll(Zero, forces, c)

\* The sum over m_constraint_forces on top of it.
ConstraintSum(sum, c, gpu) ==
    IF gpu THEN LaunchSum(sum, constraints, c, forces = <<>>)
    ELSE AddAll(sum, constraints, c)

\* The forces are computed and summed, then the constraints; the device sums the
\* virial only if the flags ask for it.
NetForce(c, oldnet, oldvir, ts, gpu, vir) ==
    LET c1 == ComputeAll(c, forces, ts, Zero)
        n1 == ForceSum(oldnet, c1, gpu)
        v1 == IF gpu /\ ~vir THEN oldvir ELSE ForceSum(oldvir, c1, gpu)
        c2 == ComputeAll(c1, constraints, ts, n1)
    IN [fc |-> c2, net |-> ConstraintSum(n1, c2, gpu),
        virial |-> IF gpu /\ ~vir THEN v1 ELSE ConstraintSum(v1, c2, gpu)]

-----------------------------------------------------------------------------
(* What the script does between runs.                                      *)

Init ==
    /\ dt \in DeltaTs /\ forces = <<>> /\ constraints = <<>> /\ methods = <<>>
    /\ mode = "Automatic" /\ first = TRUE
    /\ objdt = [o \in Obj \union Method |-> 0]
    /\ rotates = [m \in Method |-> FALSE]
    /\ fc = [o \in Obj |-> FreshForce]
    /\ net = Zero /\ virial = Zero /\ asked = FALSE
    /\ accel = [p \in Particle |->
                  [from |-> IF Restarted = {} THEN "unset" ELSE "file", sum |-> Zero]]
    /\ ndof = [q \in Thermos |-> 1]
    /\ t = 0 /\ pc = "script"
    /\ redone = {} /\ renewed = FALSE
    /\ netof = [objs |-> {}, exact |-> TRUE]
    /\ accelof = [objs |-> {}, exact |-> TRUE, moved |-> {}]

\* integrate.mode_standard() once more: a new C++ integrator without forces.
NewIntegrator(d) ==
    /\ pc = "script" /\ ~first
    /\ dt' = d /\ forces' = <<>> /\ constraints' = <<>> /\ methods' = <<>>
    /\ mode' = "Automatic" /\ first' = TRUE
    /\ UNCHANGED <<objdt, rotates, fc, net, virial, asked, accel, ndof, t, pc, history>>

\* IntegratorTwoStep::setDeltaT().
SetDeltaT(d) ==
    /\ pc = "script"
    /\ dt' = d
    /\ objdt' = [o \in Obj \union Method |->
                   IF o \in ToSet(forces) \union ToSet(constraints) \union ToSet(methods)
                   THEN d ELSE objdt[o]]
    /\ UNCHANGED <<forces, constraints, methods, mode, first, rotates, ndof, fc, net,
                   virial, asked, accel, t, pc, history>>

SetAnisotropicMode(a) ==
    /\ pc = "script" /\ mode # a
    /\ mode' = a
    /\ UNCHANGED <<dt, forces, constraints, methods, first, objdt, rotates, ndof, fc,
                   net, virial, asked, accel, t, pc, history>>

Enabled(list, set) == SelectSeq(list, LAMBDA o : o \in set)

\* addIntegrationMethod: the new group meets the group of a method in the list.
Overlap(ms, k) == \E i \in 1 .. k - 1 : Members[ms[k]] \intersect Members[ms[i]] # {}

\* update_methods() throws at the first overlap, or if there is no method.
Refused(ms) == ms = <<>> \/ \E k \in DOMAIN ms : Overlap(ms, k)

\* The methods that were added when addIntegrationMethod() returned or threw.
Added(ms) ==
    SelectSeq(ms, LAMBDA m : \A k \in DOMAIN ms :
        (\E i \in k .. Len(ms) : ms[i] = m) => ~Overlap(ms, k))

\* update_forces() and update_methods(): all lists are cleared and filled again, and
\* every object that is added gets the time step of the integrator.
Fill(s) ==
    LET ms == Added(Enabled(MethodList, s.methods))
    IN /\ forces' = Enabled(ForceList, s.forces)
       /\ constraints' = Enabled(ConstraintList, s.constraints)
       /\ methods' = ms
       /\ objdt' = [o \in Obj \union Method |->
                      IF o \in s.forces \union s.constraints \union ToSet(ms)
                      THEN dt ELSE objdt[o]]

\* run() of hoomd_script ends with an exception.
RunRefused(s) ==
    /\ pc = "script" /\ Refused(Enabled(MethodList, s.methods))
    /\ Fill(s)
    /\ UNCHANGED <<dt, mode, first, rotates, ndof, fc, net, virial, asked, accel, t, pc,
                   history>>

Sum(f, S) == MapThenFoldSet(+, 0, LAMBDA x : f[x], LAMBDA X : CHOOSE x \in X : TRUE, S)

\* IntegratorTwoStep::getNDOF(): int arithmetic returned as an unsigned int; then
\* ComputeThermo::setNDOF(), which replaces 0 by 1.
NDOF(q, ms, cs) ==
    LET granted == Sum([m \in ms |-> Dims * Cardinality(q \intersect Members[m])], ms)
        n == (UIntSpan + granted - Dims - Sum(Removes, cs)) % UIntSpan
    IN IF n = 0 THEN 1 ELSE n

\* run() of hoomd_script up to System::run(): the lists and the thermos.
Run(s) ==
    /\ pc = "script" /\ t < MaxStep /\ ~Refused(Enabled(MethodList, s.methods))
    /\ Fill(s)
    /\ ndof' = [q \in Thermos |-> NDOF(q, s.methods, s.constraints)]
    /\ pc' = "prepare" /\ renewed' = FALSE
    /\ UNCHANGED <<dt, mode, first, rotates, fc, net, virial, asked, accel, t, redone,
                   netof, accelof>>

-----------------------------------------------------------------------------
(* prepRun() and the steps of a run.                                       *)

\* Integrator::getAnisotropic().
GetAnisotropic == \E o \in ToSet(forces) \union ToSet(constraints) : o \in Aniso

\* The case for Isotropic has no break: it goes on with Automatic.
Rotation == IF mode = "Anisotropic" THEN TRUE ELSE GetAnisotropic

\* A migration signals a sort: communicate() after forceMigrate(), or the end of
\* a run.
Migrated(c) == IF Decomposed THEN Reordered(c) ELSE c

\* isValidRestart(): all methods have restart information.
IsValidRestart == ToSet(methods) \subseteq Restarted

\* The objects of the present lists.
Active == ToSet(forces) \union ToSet(constraints)

\* prepRun() of the first run of an integrator: the net force on the host, and the
\* accelerations of all particles if they did not come from a file.
PrepFirst ==
    /\ pc = "prepare" /\ first
    /\ rotates' = [m \in Method |-> IF m \in ToSet(methods) THEN Rotation ELSE rotates[m]]
    /\ first' = FALSE
    /\ LET r1 == NetForce(Migrated(fc), net, virial, t, FALSE, TRUE)
           r2 == NetForce(Migrated(r1.fc), r1.net, r1.virial, t, FALSE, TRUE)
           r  == IF IsValidRestart THEN r1 ELSE r2
       IN /\ fc' = r.fc /\ net' = r.net /\ virial' = r.virial
          /\ accel' = IF IsValidRestart THEN accel
                      ELSE [p \in Particle |-> [from |-> "sum", sum |-> r.net]]
    /\ netof' = [objs |-> Active, exact |-> t \notin redone]
    /\ IF IsValidRestart THEN UNCHANGED <<accelof, renewed>>
       ELSE /\ accelof' = [objs |-> Active, exact |-> t \notin redone, moved |-> Particle]
            /\ renewed' = TRUE
    /\ pc' = "first"
    /\ UNCHANGED <<dt, forces, constraints, methods, mode, objdt, ndof, asked, t, redone>>

\* prepRun() of a later run only hands the rotation mode to the methods.
PrepAgain ==
    /\ pc = "prepare" /\ ~first
    /\ rotates' = [m \in Method |-> IF m \in ToSet(methods) THEN Rotation ELSE rotates[m]]
    /\ pc' = "again"
    /\ UNCHANGED <<dt, forces, constraints, methods, mode, first, objdt, ndof, fc, net,
                   virial, asked, accel, t, history>>

Begin ==
    /\ pc \in {"first", "again"} /\ pc' = "ready"
    /\ UNCHANGED <<setup, fc, net, virial, asked, accel, t, history>>

\* The Logger asks a force for its energy, whether the integrator uses it or not.
Log(o) ==
    /\ pc = "ready"
    /\ fc' = [fc EXCEPT ![o] = Compute(@, t, Zero)]
    /\ UNCHANGED <<setup, net, virial, asked, accel, t, pc, history>>

\* SFCPackUpdater sorts the particles.
Sort ==
    /\ pc = "ready"
    /\ fc' = Reordered(fc)
    /\ UNCHANGED <<setup, net, virial, asked, accel, t, pc, history>>

\* The script or an updater moves particles, without a signal.
Edit ==
    /\ Edits /\ pc \in {"script", "ready"}
    /\ fc' = AgedForces(fc) /\ net' = Aged(net) /\ virial' = Aged(virial)
    /\ accel' = AgedAccel
    /\ netof' = [netof EXCEPT !.exact = FALSE] /\ accelof' = [accelof EXCEPT !.exact = FALSE]
    /\ UNCHANGED <<setup, asked, t, pc, redone, renewed>>

Moves == \E m \in ToSet(methods) : Members[m] # {}

\* update(t): integrateStepOne of all methods, then communicate(t + 1), which may
\* migrate.  System set the flags for the step before the call.
StepOne(migrate, vir) ==
    /\ pc = "ready" /\ t < MaxStep
    /\ migrate => Decomposed
    /\ LET moved == IF Moves THEN AgedForces(fc) ELSE fc
       IN fc' = IF migrate THEN Reordered(moved) ELSE moved
    /\ IF Moves THEN /\ net' = Aged(net) /\ virial' = Aged(virial) /\ accel' = AgedAccel
       ELSE UNCHANGED <<net, virial, accel>>
    /\ asked' = vir
    /\ pc' = "moved"
    /\ UNCHANGED <<setup, t, history>>

\* update(t): the net force at t + 1.
ComputeNetForce ==
    /\ pc = "moved"
    /\ LET r == NetForce(fc, net, virial, t + 1, Gpu, asked)
       IN fc' = r.fc /\ net' = r.net /\ virial' = r.virial
    /\ netof' = [objs |-> Active, exact |-> t + 1 \notin redone]
    /\ pc' = "summed"
    /\ UNCHANGED <<setup, asked, accel, t, redone, accelof, renewed>>

Held == {p \in Particle : \E m \in ToSet(methods) : p \in Members[m]}

\* System::run() counts the step, or returns at once if SIGINT was received.
Count(interrupted) ==
    IF interrupted THEN t' = t /\ pc' = "script" /\ redone' = redone \union {t, t + 1}
    ELSE t' = t + 1 /\ pc' = "ready" /\ redone' = redone

\* update(t): integrateStepTwo of all methods sets the acceleration of the members.
StepTwo(interrupted) ==
    /\ pc = "summed" /\ (interrupted => Interrupts)
    /\ accel' = [p \in Particle |->
                   IF p \in Held THEN [from |-> "sum", sum |-> net] ELSE accel[p]]
    /\ accelof' = [objs |-> netof.objs, exact |-> netof.exact, moved |-> Held]
    /\ renewed' = TRUE
    /\ Count(interrupted)
    /\ UNCHANGED <<setup, fc, net, virial, asked, netof>>

\* A communicator migrates the particles once more after the last step.
EndRun ==
    /\ pc = "ready" /\ pc' = "script"
    /\ fc' = Migrated(fc)
    /\ UNCHANGED <<setup, net, virial, asked, accel, t, history>>

Next ==
    \/ \E d \in DeltaTs : NewIntegrator(d) \/ SetDeltaT(d)
    \/ \E a \in {"Automatic", "Anisotropic", "Isotropic"} : SetAnisotropicMode(a)
    \/ \E s \in Scripts : Run(s) \/ RunRefused(s)
    \/ PrepFirst \/ PrepAgain \/ Begin \/ EndRun
    \/ \E o \in Logged : Log(o)
    \/ Sort \/ Edit
    \/ \E migrate, vir \in BOOLEAN : StepOne(migrate, vir)
    \/ ComputeNetForce
    \/ \E interrupted \in BOOLEAN : StepTwo(interrupted)

Spec == Init /\ [][Next]_vars

-----------------------------------------------------------------------------
(* Properties.                                                             *)

\* Every variable has its type.
TypeOK ==
    /\ dt \in DeltaTs /\ forces \in Seq(Force) /\ constraints \in Seq(Constraint)
    /\ methods \in Seq(Method) /\ mode \in {"Automatic", "Anisotropic", "Isotropic"}
    /\ objdt \in [Obj \union Method -> DeltaTs \union {0}]
    /\ rotates \in [Method -> BOOLEAN] /\ {first, asked, renewed} \subseteq BOOLEAN
    /\ fc \in [Obj -> [firstc : BOOLEAN, last : 0 .. MaxStep, sorted : BOOLEAN,
                       val : {"stale", "current"}, sees : [Obj -> Status]]]
    /\ {net, virial} \subseteq [Obj -> Status]
    /\ accel \in [Particle -> [from : {"unset", "file", "sum"}, sum : [Obj -> Status]]]
    /\ ndof \in [Thermos -> Nat] /\ t \in 0 .. MaxStep /\ redone \subseteq 0 .. MaxStep
    /\ netof \in [objs : SUBSET Obj, exact : BOOLEAN]
    /\ accelof \in [objs : SUBSET Obj, exact : BOOLEAN, moved : SUBSET Particle]
    /\ pc \in {"script", "prepare", "first", "again", "ready", "moved", "summed"}

\* A sum of the objects of a record as above, each once.  They were evaluated at
\* the present positions in the present order, except in a repeated step.
Once(sum, of) ==
    \A o \in Obj :
        sum[o] \in IF o \notin of.objs THEN {"absent"}
                  ELSE IF of.exact THEN {"current"} ELSE {"current", "stale"}

\* The same of the present forces and constraints.
SumOf(objs) == [objs |-> objs, exact |-> netof.exact]

\* Whatever the script sets, adds, removes or is refused, the integrator, its forces,
\* its constraints and its methods agree on the size of the time step.
DeltaTAgrees ==
    \A o \in ToSet(forces) \union ToSet(constraints) \union ToSet(methods) : objdt[o] = dt

\* When the second half of a step begins, the net force holds every force and every
\* constraint once, evaluated at the new positions and in the new order, and so does
\* the virial if the flags ask for it.  In a step that is integrated again the
\* forces may be those of the first time, but none is missing or counted twice.
SummedOnce ==
    pc = "summed" => Once(net, SumOf(Active)) /\ (asked => Once(virial, SumOf(Active)))

\* Every constraint read the net force of all forces, and of no constraint.
ConstraintSees ==
    pc = "summed" /\ netof.exact =>
        \A c \in ToSet(constraints) : Once(fc[c].sees, SumOf(ToSet(forces)))

\* In a run no particle belongs to the groups of two methods.
OneMethod ==
    pc # "script" =>
        \A i, j \in DOMAIN methods :
            i # j => Members[methods[i]] \intersect Members[methods[j]] = {}

\* When a run begins, the net force is that of the last step, at the present
\* positions, whatever the script changed since; for a new integrator it is that
\* of the forces of the run.  The virial too, if it was asked for.
PreparedNet ==
    /\ pc \in {"first", "again"} =>
          Once(net, netof) /\ (pc = "first" \/ ~Gpu \/ asked => Once(virial, netof))
    /\ pc = "first" => netof.objs = Active

\* When a step begins, every particle that a method moved in the last step has an
\* acceleration that holds each force of that step once, at the present positions.
\* As soon as the run has set accelerations, in prepRun() or a step, these are the
\* forces of the run, and every particle that a method moves has one.
AccelRight ==
    pc \in {"first", "again", "ready"} =>
        /\ \A p \in accelof.moved : accel[p].from = "sum" /\ Once(accel[p].sum, accelof)
        /\ renewed => Held \subseteq accelof.moved /\ accelof.objs = Active

\* The same from the first step of every run, where the forces and the groups stay
\* the same; or the acceleration is that of the restart file.
AccelCurrent ==
    pc \in {"first", "again", "ready"} =>
        \A p \in Held :
            \/ accel[p].from = "file"
            \/ accel[p].from = "sum" /\ Once(accel[p].sum, [objs |-> Active, exact |-> accelof.exact])
===============================================================================
