----------------------------- MODULE MCSupport ------------------------------
(***************************************************************************)
(* Instances of IMDInterface (a run that starts paused, with clients that  *)
(* go on, pause again, send forces and vanish) and of Autotuner (two ranks *)
(* that agree on a parameter, one that tunes alone). A behaviour belongs   *)
(* to one part.                                                            *)
(***************************************************************************)
EXTENDS IMDInterface

CONSTANT Off

VARIABLES
    part,
    tun, todo, at, opt

\* Two ranks that combine their samples.
Together == INSTANCE Autotuner WITH
    Rank <- {1, 2}, NParams <- 2, nsamples <- 1, Periods <- {1},
    Times <- {1, 2}, Sync <- TRUE, Mode <- "avg", Lead <- 2, pc <- at

\* One rank, medians of three samples.
Alone == INSTANCE Autotuner WITH
    Rank <- {1}, NParams <- 2, nsamples <- 2, Periods <- {1},
    Times <- {1, 2}, Sync <- FALSE, Mode <- "median", Lead <- 1, pc <- at

ASSUME SupportAssumption ==
    /\ Together!AutotunerAssumption
    /\ Alone!AutotunerAssumption

mcvars == <<part, pc, why, initialized, sock, active, paused, trate, count,
            force, nglobal, N, sigint, called, taken, gone, inbox, half,
            sent, went, tun, todo, at, opt>>

\* What the parts on IMDInterface leave alone.
besideCommands == <<part, tun, todo, at, opt>>
BesideCommands ==
    /\ tun = Off /\ todo = Off /\ at = Off /\ opt = Off

\* What the parts on Autotuner leave alone.
besideTuner == <<part, pc, why, initialized, sock, active, paused, trate,
                 count, force, nglobal, N, sigint, called, taken, gone,
                 inbox, half, sent, went>>
BesideTuner ==
    /\ Init

MCInit ==
    \/ part = "commands" /\ Init /\ BesideCommands
    \/ part = "sync" /\ Together!Init /\ BesideTuner
    \/ part = "alone" /\ Alone!Init /\ BesideTuner

MCNext ==
    \/ part = "commands" /\ Next /\ UNCHANGED besideCommands
    \/ part = "sync" /\ Together!Next /\ UNCHANGED besideTuner
    \/ part = "alone" /\ Alone!Next /\ UNCHANGED besideTuner

\* The fairness of the components (see there) that the liveness properties need.
MCFairness ==
    /\ WF_mcvars(part = "commands" /\ Host /\ UNCHANGED besideCommands)
    /\ SF_mcvars(part = "sync" /\ Together!Issue(<<"call">>) /\ UNCHANGED besideTuner)
    /\ \A r \in {1, 2} : WF_mcvars(part = "sync" /\ Together!RankNext(r) /\ UNCHANGED besideTuner)

MCSpec == MCInit /\ [][MCNext]_mcvars /\ MCFairness

-----------------------------------------------------------------------------
(* Properties *)

\* Indices stay inside m_parameters and m_samples. Two ranks that executed the
\* same operations launch with the same parameter: the precompute switch of
\* Communicator is the same on all ranks. A rank waits in the barrier of the
\* optimum only for one that is there or still has operations to execute. No
\* optimum is computed from a sample that was never taken (its time, 0, would
\* win). While no rank samples, the parameter in use is the first of those with
\* the smallest median, also after a scan was cut short.
TunerRight ==
    /\ part = "sync" =>
          /\ Together!TypeOK /\ Together!ParamsAgree /\ Together!BarrierFills
          /\ Together!SamplesTaken
    /\ part = "alone" => Alone!TypeOK /\ Alone!SamplesTaken /\ Alone!BestInUse

\* A tuner that stays enabled samples again and again, and comes to a result
\* again and again: no rank is left in the barrier.
KeepsTuning ==
    \A r \in {1, 2} :
        <>[](part = "sync" /\ tun[r].enabled) =>
            /\ []<>(part = "sync" /\ tun[r].state = "SCANNING")
            /\ []<>(part = "sync" /\ tun[r].state = "IDLE")
=============================================================================
