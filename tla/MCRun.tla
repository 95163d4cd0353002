------------------------------- MODULE MCRun --------------------------------
(***************************************************************************)
(* Instances of RunLoop (runs with an analyzer, an updater and callbacks,  *)
(* undisturbed or with SIGINT) and of Integrator (forces and methods that change between the   *)
(* runs, time steps, a decomposed system, restarts). A behaviour belongs   *)
(* to one part.                                                            *)
(***************************************************************************)
EXTENDS RunLoop

CONSTANT Off

VARIABLES
    part,
    dt, forces, constraints, methods, mode, first, objdt, rotates, fc, netforce,
    virial, asked, accel, ndof, t, at, redone, netof, accelof, renewed

PhaseOne == {1}

\* A period function that first asks for a later step, then for earlier ones.
Dips == [n \in 1..2 |-> IF n = 1 THEN 2 ELSE -3]

\* Runs that SIGINT may end.
Signalled == INSTANCE RunLoop WITH
    Periods <- {2}, Phases <- {-1, 0}, Frames <- [n \in 1..1 |-> 2], MaxFrames <- 1,
    MaxStep <- 3, Signals <- TRUE

\* The groups of nve and npt share a particle.
Overlapping ==
    [m \in {"nve", "nvt", "npt"} |-> IF m = "nvt" THEN {2} ELSE {1}]

Setup(f, c, m) == [forces |-> f, constraints |-> c, methods |-> m]
SevenForces == {"f1", "f2", "f3", "f4", "f5", "f6", "f7"}

\* Forces and methods come and go between the runs; f is one of the forces.
Varied(all, f) ==
    {Setup(all, {"sphere"}, {"nve", "nvt"}), Setup({}, {"sphere"}, {"nvt"}),
     Setup({f}, {}, {"nve", "nvt", "npt"}), Setup({f}, {}, {})}
SameAgain == {Setup({"pair", "gay_berne"}, {"sphere"}, {"nve"})}
\* The group that is integrated grows and a force goes, or the other way round.
GroupGrows ==
    {Setup({"pair", "gay_berne"}, {}, {"nve"}), Setup({"pair"}, {}, {"nvt"})}

\* Seven forces, one more than the slots of a launch, and forces and methods
\* that come and go.
Varying == INSTANCE Integrator WITH
    Thermos <- {}, Particle <- {1, 2}, Dims <- 3, UIntSpan <- 65536,
    Restarted <- {}, Aniso <- {"f2"}, DeltaTs <- {1}, Gpu <- TRUE,
    Decomposed <- FALSE, Interrupts <- FALSE, Edits <- FALSE,
    ForceList <- <<"f1", "f2", "f3", "f4", "f5", "f6", "f7">>,
    ConstraintList <- <<"sphere">>, Removes <- [c \in {"sphere"} |-> 1],
    Logged <- {"f7"}, MethodList <- <<"nve", "nvt", "npt">>,
    Members <- Overlapping, Scripts <- Varied(SevenForces, "f2"),
    MaxStep <- 2, net <- netforce, pc <- at

\* Time steps of two sizes.
Steps == INSTANCE Integrator WITH
    Thermos <- {}, Particle <- {1, 2}, Dims <- 3, UIntSpan <- 65536,
    Restarted <- {}, Aniso <- {"gay_berne"}, DeltaTs <- {1, 2}, Gpu <- TRUE,
    Decomposed <- FALSE, Interrupts <- FALSE, Edits <- FALSE,
    ForceList <- <<"pair", "gay_berne">>, ConstraintList <- <<"sphere">>,
    Removes <- [c \in {"sphere"} |-> 1], Logged <- {},
    MethodList <- <<"nve", "nvt", "npt">>, Members <- Overlapping,
    Scripts <- Varied({"pair", "gay_berne"}, "gay_berne"), MaxStep <- 1,
    net <- netforce, pc <- at

\* A system that is decomposed, with particles that scripts move and a group
\* that grows.
Spread == INSTANCE Integrator WITH
    Thermos <- {}, Particle <- {1, 2}, Dims <- 3, UIntSpan <- 65536,
    Restarted <- {}, Aniso <- {"gay_berne"}, DeltaTs <- {1}, Gpu <- FALSE,
    Decomposed <- TRUE, Interrupts <- TRUE, Edits <- TRUE, ForceList <- <<"pair", "gay_berne">>,
    ConstraintList <- <<>>, Removes <- [c \in {} |-> 1],
    Logged <- {}, MethodList <- <<"nve", "nvt">>,
    Members <- [m \in {"nve", "nvt"} |-> IF m = "nve" THEN {1} ELSE {1, 2}],
    Scripts <- GroupGrows, MaxStep <- 2, net <- netforce, pc <- at

\* Runs with the same forces and methods.
Steady == INSTANCE Integrator WITH
    Thermos <- {}, Particle <- {1, 2}, Dims <- 3, UIntSpan <- 65536,
    Restarted <- {}, Aniso <- {"gay_berne"}, DeltaTs <- {1}, Gpu <- FALSE,
    Decomposed <- FALSE, Interrupts <- TRUE, Edits <- FALSE,
    ForceList <- <<"pair", "gay_berne">>, ConstraintList <- <<"sphere">>,
    Removes <- [c \in {"sphere"} |-> 1], Logged <- {"pair"},
    MethodList <- <<"nve">>, Members <- [m \in {"nve"} |-> {1, 2}],
    Scripts <- SameAgain, MaxStep <- 3, net <- netforce, pc <- at

\* A method with restart information.
Restarting == INSTANCE Integrator WITH
    Thermos <- {}, Particle <- {1, 2}, Dims <- 3, UIntSpan <- 65536,
    Restarted <- {"nve"}, Aniso <- {"gay_berne"}, DeltaTs <- {1},
    Gpu <- FALSE, Decomposed <- FALSE, Interrupts <- TRUE, Edits <- FALSE,
    ForceList <- <<"pair", "gay_berne">>, ConstraintList <- <<"sphere">>,
    Removes <- [c \in {"sphere"} |-> 1], Logged <- {"pair"},
    MethodList <- <<"nve">>, Members <- [m \in {"nve"} |-> {1, 2}],
    Scripts <- SameAgain, MaxStep <- 2, net <- netforce, pc <- at

ASSUME RunAssumption ==
    /\ Signalled!RunLoopAssumption
    /\ Varying!IntegratorAssumption
    /\ Steps!IntegratorAssumption
    /\ Spread!IntegratorAssumption
    /\ Steady!IntegratorAssumption
    /\ Restarting!IntegratorAssumption

integrator == <<dt, forces, constraints, methods, mode, first, objdt, rotates,
                fc, netforce, virial, asked, accel, ndof, t, at, redone, netof,
                accelof, renewed>>

mcvars == <<part, vars, integrator>>

\* What the parts on RunLoop leave alone.
besideSchedule == <<part, integrator>>
BesideSchedule ==
    /\ dt = Off /\ forces = Off /\ constraints = Off /\ methods = Off
    /\ mode = Off /\ first = Off /\ objdt = Off /\ rotates = Off /\ fc = Off
    /\ netforce = Off /\ virial = Off /\ asked = Off /\ accel = Off /\ ndof = Off
    /\ t = Off /\ at = Off /\ redone = Off /\ netof = Off /\ accelof = Off
    /\ renewed = Off

\* What the parts on Integrator leave alone.
besideIntegrator == <<part, vars>>
BesideIntegrator ==
    /\ Init

MCInit ==
    \/ part = "schedule" /\ Init /\ BesideSchedule
    \/ part = "signalled" /\ Signalled!Init /\ BesideSchedule
    \/ part = "varied" /\ Varying!Init /\ BesideIntegrator
    \/ part = "deltat" /\ Steps!Init /\ BesideIntegrator
    \/ part = "decomposed" /\ Spread!Init /\ BesideIntegrator
    \/ part = "steady" /\ Steady!Init /\ BesideIntegrator
    \/ part = "restart" /\ Restarting!Init /\ BesideIntegrator

MCNext ==
    \/ part = "schedule" /\ Next /\ UNCHANGED besideSchedule
    \/ part = "signalled" /\ Signalled!Next /\ UNCHANGED besideSchedule
    \/ part = "varied" /\ Varying!Next /\ UNCHANGED besideIntegrator
    \/ part = "deltat" /\ Steps!Next /\ UNCHANGED besideIntegrator
    \/ part = "decomposed" /\ Spread!Next /\ UNCHANGED besideIntegrator
    \/ part = "steady" /\ Steady!Next /\ UNCHANGED besideIntegrator
    \/ part = "restart" /\ Restarting!Next /\ UNCHANGED besideIntegrator

\* The fairness of the components (see there).
MCFairness ==
    /\ WF_mcvars(/\ part = "schedule" /\ UNCHANGED besideSchedule
                 /\ Continue \/ LastStep \/ Analyze \/ Update \/ Integrate)
    /\ WF_mcvars(/\ part = "signalled" /\ UNCHANGED besideSchedule
                 /\ \/ Signalled!Continue \/ Signalled!LastStep \/ Signalled!Analyze
                    \/ Signalled!Update \/ Signalled!Integrate)

MCSpec == MCInit /\ [][MCNext]_mcvars /\ MCFairness

-----------------------------------------------------------------------------
(* Properties *)

\* The flags, sums and time steps of integrator, forces and methods have their
\* types. After computeNetForce() the net force and virial hold every force of
\* the run exactly once, however many launches the GPU needs, and evaluated at
\* the new positions unless the step is integrated again after SIGINT. A constraint
\* force was computed from the net force of all forces, each once. A run begins
\* with the net force and the accelerations of the last step, whatever forces
\* and methods the script changed; from its first step on, and at once with a
\* new integrator, they are those of the present forces, also with restart
\* information. Integrator, forces, constraints and methods use the same time
\* step. No particle is integrated by two methods, or the run is refused.
NetForceRight ==
    /\ part = "varied" =>
          /\ Varying!TypeOK /\ Varying!SummedOnce /\ Varying!ConstraintSees
          /\ Varying!PreparedNet /\ Varying!AccelRight /\ Varying!OneMethod
    /\ part = "deltat" => Steps!TypeOK /\ Steps!DeltaTAgrees /\ Steps!OneMethod
    /\ part = "decomposed" =>
          /\ Spread!TypeOK /\ Spread!SummedOnce /\ Spread!PreparedNet /\ Spread!AccelRight
    /\ part = "steady" =>
          /\ Steady!TypeOK /\ Steady!SummedOnce /\ Steady!ConstraintSees
          /\ Steady!PreparedNet /\ Steady!AccelRight /\ Steady!AccelCurrent
    /\ part = "restart" => Restarting!TypeOK /\ Restarting!AccelRight /\ Restarting!AccelCurrent
=============================================================================
