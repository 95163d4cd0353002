------------------------- MODULE IMDInterfaceProofs -------------------------
(***************************************************************************)
(* The safety of the viewer's connection, for any number of clients and    *)
(* commands.  The inductive invariant adds to the properties the types the *)
(* steps need and the facts of Inside, and follows one step of analyze()   *)
(* at a time; the clients and the script cannot touch any of it but the    *)
(* number of particles, and that only between two calls.                   *)
(***************************************************************************)
EXTENDS IMDInterface, TLAPS

Steps == {"idle", "establish", "dispatch", "more", "signal", "energies",
          "coords", "stopped"}

\* What the steps need to know of the types.
Types == /\ pc \in Steps
         /\ active \in BOOLEAN /\ paused \in BOOLEAN
         /\ called \in 0 .. MaxClients /\ taken \in 0 .. called
         /\ sock \in Clients \cup {NULL} /\ went \subseteq Clients

\* Inside a call of analyze() the interface is initialized and the number of
\* particles is the one it was initialized with; an active client is one that
\* sent GO.
Inside == /\ pc \notin {"idle", "stopped"} => initialized /\ N = nglobal
          /\ active => sock \in went
          /\ ~HasForce => force = NULL

Safe == SocketThere /\ FramesWanted /\ ForceOfClient /\ BufferFits /\ PausedByClient

IInv == Types /\ Inside /\ Safe

\* Nothing is active, connected or forced at the start, and only the
\* constructor has paused the run.
LEMMA InitIInv == Init => IInv
<1> SUFFICES ASSUME Init PROVE IInv
  OBVIOUS
<1>1. Types
  <2>1. active \in BOOLEAN /\ paused \in BOOLEAN
    BY IMDAssumption, Zenon DEF Init
  <2>2. called \in 0 .. MaxClients /\ taken \in 0 .. called
    BY IMDAssumption DEF Init
  <2>3. pc \in Steps /\ sock \in Clients \cup {NULL} /\ went \subseteq Clients
    BY DEF Init, Steps
  <2> QED
    BY <2>1, <2>2, <2>3 DEF Types
<1>2. Inside
  BY DEF Init, Inside
<1>3. Safe
  BY DEF Init, Safe, SocketThere, FramesWanted, ForceOfClient, BufferFits,
         PausedByClient
<1> QED
  BY <1>1, <1>2, <1>3 DEF IInv

\* A step that leaves the interface alone, and the particles as well inside a
\* call, keeps the invariant.
LEMMA QuietStep ==
    ASSUME IInv, UNCHANGED <<host, went>>, called' \in 0 .. MaxClients,
           taken' \in 0 .. called', pc' \in {"idle", "stopped"} \/ UNCHANGED <<pc, N>>,
           pc' \in Steps
    PROVE  IInv'
  <1>1. Types'
    BY DEF IInv, Types, host
  <1>2. Inside'
    BY DEF IInv, Inside, host
  <1>3. Safe'
    BY DEF IInv, Safe, SocketThere, FramesWanted, ForceOfClient, BufferFits,
           PausedByClient, host
  <1> QED
    BY <1>1, <1>2, <1>3 DEF IInv

\* A step that drops the client keeps it, wherever analyze() goes on from there
\* without touching a socket.
LEMMA DropStep ==
    ASSUME IInv, processDeadConnection, UNCHANGED <<initialized, nglobal, N, called,
           taken, went>>, pc \notin {"idle", "stopped"},
           pc' \in {"idle", "more", "signal", "stopped"}
    PROVE  IInv'
  <1>1. sock' = NULL /\ active' = FALSE /\ paused' = FALSE /\ force' = NULL
    BY DEF processDeadConnection, IInv, Inside
  <1>2. Types'
    <2>1. active' \in BOOLEAN /\ paused' \in BOOLEAN
      BY <1>1
    <2>2. called' \in 0 .. MaxClients /\ taken' \in 0 .. called'
      BY DEF IInv, Types
    <2>3. pc' \in Steps /\ sock' \in Clients \cup {NULL} /\ went' \subseteq Clients
      BY <1>1 DEF IInv, Types, Steps
    <2> QED
      BY <2>1, <2>2, <2>3 DEF Types
  <1>3. Inside'
    BY <1>1 DEF IInv, Inside
  <1>4. Safe'
    BY <1>1 DEF Safe, SocketThere, FramesWanted, ForceOfClient, BufferFits,
                PausedByClient
  <1> QED
    BY <1>2, <1>3, <1>4 DEF IInv

\* The steps of the clients, of the script and of the signal.
LEMMA OutsideStep ==
    ASSUME IInv,
           \/ InitFails \/ RunAgain \/ Signal \/ ChangeN \/ Call
           \/ \E c \in Clients : Begin(c) \/ Finish(c) \/ Vanish(c)
    PROVE  IInv'
  <1>0. pc \in Steps /\ called \in 0 .. MaxClients /\ taken \in 0 .. called
    BY DEF IInv, Types
  <1>1. CASE InitFails
    BY <1>0, <1>1, QuietStep DEF InitFails, Throw, client, Steps
  <1>2. CASE RunAgain
    BY <1>0, <1>2, QuietStep DEF RunAgain, client, Steps
  <1>3. CASE Signal
    BY <1>0, <1>3, QuietStep DEF Signal, client, Steps
  <1>4. CASE ChangeN
    BY <1>0, <1>4, QuietStep DEF ChangeN, client, Steps
  <1>5. CASE Call
    <2>1. called' \in 0 .. MaxClients /\ taken' \in 0 .. called'
      BY <1>0, <1>5, IMDAssumption DEF Call
    <2> QED
      BY <1>0, <1>5, <2>1, QuietStep DEF Call
  <1>6. ASSUME NEW c \in Clients, Begin(c) \/ Finish(c) \/ Vanish(c) PROVE IInv'
    <2>1. UNCHANGED <<pc, host, N, called, taken, went>>
      BY <1>6 DEF Begin, Finish, Vanish
    <2> QED
      BY <1>0, <2>1, QuietStep
  <1> QED
    BY <1>1, <1>2, <1>3, <1>4, <1>5, <1>6

\* The head of analyze(): the number of particles is compared on every call.
LEMMA AnalyzeStep == ASSUME IInv, Analyze PROVE IInv'
  <1>1. UNCHANGED <<sock, active, paused, force, N, called, taken, went>> /\ pc = "idle"
    BY DEF Analyze, client
  <1>2. \/ pc' = "stopped"
        \/ pc' = "establish" /\ initialized' = TRUE /\ N' = nglobal'
    <2>1. CASE nglobal' = N
      BY <1>1, <2>1 DEF Analyze
    <2>2. CASE nglobal' # N
      BY <2>2 DEF Analyze, Throw
    <2> QED
      BY <2>1, <2>2
  <1>3. Types'
    BY <1>1, <1>2 DEF IInv, Types, Steps
  <1>4. Inside'
    BY <1>1, <1>2 DEF IInv, Inside
  <1>5. Safe'
    BY <1>1, <1>2 DEF IInv, Safe, SocketThere, FramesWanted, ForceOfClient,
                      BufferFits, PausedByClient
  <1> QED
    BY <1>3, <1>4, <1>5 DEF IInv

\* A new client is neither active nor has it forces.
LEMMA EstablishStep == ASSUME IInv, Establish PROVE IInv'
  <1>0. /\ UNCHANGED <<initialized, active, paused, force, nglobal, N, called, went>>
        /\ pc = "establish" /\ called \in 0 .. MaxClients /\ taken \in 0 .. called
        /\ active \in BOOLEAN /\ paused \in BOOLEAN /\ sock \in Clients \cup {NULL}
    BY DEF Establish, IInv, Types
  <1>1. \/ sock' = sock /\ taken' = taken
        \/ sock = NULL /\ taken < called /\ taken' = taken + 1 /\ sock' \in {taken + 1, NULL}
    BY DEF Establish
  <1>2. \/ pc' = "dispatch" /\ sock' # NULL
        \/ pc' = "signal"
    <2>1. taken < called => taken + 1 # NULL
      BY <1>0, IMDAssumption
    <2> QED
      BY <2>1 DEF Establish
  <1>3. Types'
    <2>1. called' \in 0 .. MaxClients /\ taken' \in 0 .. called'
      BY <1>0, <1>1, IMDAssumption
    <2>2. sock' \in Clients \cup {NULL}
      BY <1>0, <1>1, IMDAssumption DEF Clients
    <2>3. active' \in BOOLEAN /\ paused' \in BOOLEAN /\ went' \subseteq Clients
      BY <1>0 DEF IInv, Types
    <2> QED
      BY <1>2, <2>1, <2>2, <2>3 DEF Types, Steps
  <1>4. sock = NULL => ~active /\ force = NULL
    <2>1. NULL \notin went
      BY IMDAssumption DEF IInv, Types, Clients
    <2> QED
      BY <2>1 DEF IInv, Inside, Safe, ForceOfClient
  <1>5. Inside'
    BY <1>0, <1>1, <1>4 DEF IInv, Inside
  <1>6. Safe'
    BY <1>0, <1>1, <1>2, <1>4 DEF IInv, Safe, SocketThere, FramesWanted,
                                 ForceOfClient, BufferFits, PausedByClient
  <1> QED
    BY <1>3, <1>5, <1>6 DEF IInv

\* A step of analyze() that leaves the client as it is and goes on to a call on
\* its socket only if there is one.
LEMMA KeepStep ==
    ASSUME IInv, UNCHANGED <<initialized, sock, active, paused, force, nglobal, N,
           called, taken, went>>, pc \notin {"idle", "stopped"}, pc' \in Steps,
           pc' = "dispatch" => sock # NULL,
           pc' \in {"energies", "coords"} => sock # NULL /\ sock \in went /\ ~paused
    PROVE  IInv'
  <1>1. Types'
    BY DEF IInv, Types
  <1>2. Inside'
    BY DEF IInv, Inside
  <1>3. Safe'
    BY DEF IInv, Inside, Safe, SocketThere, FramesWanted, ForceOfClient, BufferFits,
           PausedByClient
  <1> QED
    BY <1>1, <1>2, <1>3 DEF IInv

\* The commands that keep the client: a GO makes it active, forces are its own.
LEMMA CommandStep == ASSUME IInv, DispatchCommand PROVE IInv'
  <1> DEFINE m == Head(inbox[sock])
  <1>0. /\ UNCHANGED <<initialized, sock, nglobal, N, called, taken>>
        /\ pc = "dispatch" /\ pc' = "more" /\ sock # NULL /\ sock \in Clients
        /\ went \subseteq Clients
    BY DEF DispatchCommand, IInv, Types, Safe, SocketThere
  <1>1. force' = force \/ (HasForce /\ force' = sock)
    BY DEF DispatchCommand, processIMD_MDCOMM
  <1>2. /\ active' = active \/ (active' = TRUE /\ m = "GO")
        /\ went' = went \/ (m = "GO" /\ went' = went \cup {sock})
        /\ m = "GO" => sock \in went'
    <2>1. active' = IF m = "GO" THEN TRUE ELSE active
      BY DEF DispatchCommand, processIMD_GO
    <2>2. went' = IF m = "GO" THEN went \cup {sock} ELSE went
      BY DEF DispatchCommand
    <2> QED
      BY <2>1, <2>2
  <1>3. active' \in BOOLEAN /\ paused' \in BOOLEAN
    <2>1. paused' \in {FALSE, ~paused, paused}
      BY DEF DispatchCommand, processIMD_PAUSE
    <2> QED
      BY <1>2, <2>1 DEF IInv, Types
  <1>4. active' => sock \in went'
    BY <1>0, <1>2 DEF IInv, Inside
  <1>5. Types'
    <2>1. went' \subseteq Clients
      BY <1>0, <1>2
    <2> QED
      BY <1>0, <1>3, <2>1 DEF IInv, Types, Steps
  <1>6. Inside'
    BY <1>0, <1>1, <1>4 DEF IInv, Inside
  <1>7. Safe'
    BY <1>0, <1>1 DEF IInv, Safe, SocketThere, FramesWanted, ForceOfClient, BufferFits,
                      PausedByClient
  <1> QED
    BY <1>5, <1>6, <1>7 DEF IInv

\* dispatch() and the loop over the commands.
LEMMA DispatchStep == ASSUME IInv, Dispatch \/ More PROVE IInv'
  <1>1. CASE DispatchNone
    <2>1. /\ UNCHANGED <<initialized, nglobal, N, called, taken, went>>
          /\ pc = "dispatch" /\ pc' = "more"
      BY <1>1 DEF DispatchNone, client
    <2>2. CASE processDeadConnection
      BY <2>1, <2>2, DropStep
    <2>3. CASE UNCHANGED <<sock, active, paused, force>>
      BY <2>1, <2>3, KeepStep DEF Steps
    <2> QED
      BY <1>1, <2>2, <2>3 DEF DispatchNone
  <1>2. CASE DispatchIOERROR
    BY <1>2, DropStep DEF DispatchIOERROR, client
  <1>3. CASE DispatchCommand
    BY <1>3, CommandStep
  <1>4. CASE DispatchEnd
    <2>1. pc' \in {"more", "stopped"}
      BY <1>4 DEF DispatchEnd, Throw
    <2> QED
      BY <1>4, <2>1, DropStep DEF DispatchEnd
  <1>5. CASE More
    <2>1. /\ UNCHANGED <<initialized, nglobal, N, called, taken, went>>
          /\ pc = "more"
      BY <1>5 DEF More, client
    <2>2. CASE processDeadConnection /\ pc' = "signal"
      BY <2>1, <2>2, DropStep
    <2>3. CASE /\ UNCHANGED <<sock, active, paused, force>>
               /\ pc' = "signal" \/ (pc' = "dispatch" /\ sock # NULL)
      BY <2>1, <2>3, KeepStep DEF Steps
    <2> QED
      BY <1>5, <2>2, <2>3 DEF More
  <1> QED
    BY <1>1, <1>2, <1>3, <1>4, <1>5 DEF Dispatch

\* The end of the loop sends only to an active client of a run that goes on.
LEMMA SendStep == ASSUME IInv, EndOfLoop \/ Send PROVE IInv'
  <1>1. CASE EndOfLoop
    <2>1. UNCHANGED <<host, N, called, taken, went>> /\ pc = "signal"
      BY <1>1 DEF EndOfLoop, client
    <2>2. \/ pc' \in {"stopped", "establish", "idle"}
          \/ pc' = "energies" /\ sock # NULL /\ active /\ ~paused
      BY <1>1 DEF EndOfLoop, Throw
    <2>3. active => sock \in went
      BY DEF IInv, Inside
    <2> QED
      BY <2>1, <2>2, <2>3, KeepStep DEF host, Steps
  <1>2. CASE Send
    <2>1. /\ UNCHANGED <<initialized, nglobal, N, called, taken, went>>
          /\ pc \in {"energies", "coords"} /\ pc' \in {"coords", "idle"}
      BY <1>2 DEF Send, client
    <2>2. CASE processDeadConnection /\ pc' = "idle"
      BY <2>1, <2>2, DropStep
    <2>3. CASE UNCHANGED <<sock, active, paused, force>>
      <3>1. sock # NULL /\ sock \in went /\ ~paused
        BY <2>1 DEF IInv, Safe, SocketThere, FramesWanted
      <3> QED
        BY <2>1, <2>3, <3>1, KeepStep DEF Steps
    <2> QED
      BY <1>2, <2>2, <2>3 DEF Send
  <1> QED
    BY <1>1, <1>2

LEMMA NextIInv == IInv /\ [Next]_vars => IInv'
<1> SUFFICES ASSUME IInv, [Next]_vars PROVE IInv'
  OBVIOUS
<1>1. CASE Host
  BY <1>1, AnalyzeStep, EstablishStep, DispatchStep, SendStep DEF Host
<1>2. CASE \/ InitFails \/ RunAgain \/ Signal \/ ChangeN \/ Call
           \/ \E c \in Clients : Begin(c) \/ Finish(c) \/ Vanish(c)
  BY <1>2, OutsideStep
<1>3. CASE UNCHANGED vars
  <2>1. pc \in Steps /\ called \in 0 .. MaxClients /\ taken \in 0 .. called
    BY DEF IInv, Types
  <2> QED
    BY <1>3, <2>1, QuietStep DEF vars, client
<1> QED
  BY <1>1, <1>2, <1>3 DEF Next

\* The types that the other steps do not need.  A connected client was taken, so
\* the clients whose GO was received were.
OtherTypes ==
    /\ why \in {"none", "init", "N", "kill", "signal"}
    /\ initialized \in BOOLEAN /\ trate \in Rates /\ count \in 0 .. (Period - 1)
    /\ gone \subseteq 1 .. called /\ went \subseteq 1 .. taken
    /\ sock # NULL => sock \in 1 .. taken

\* The clients do not move the counters back, and vanish after they called.
LEMMA ClientTypes ==
    ASSUME IInv, OtherTypes,
           Call \/ \E c \in Clients : Begin(c) \/ Finish(c) \/ Vanish(c)
    PROVE  OtherTypes'
  <1>1. called \in Nat /\ taken \in Nat /\ taken <= called
    BY IMDAssumption DEF IInv, Types
  <1>2. CASE Call
    <2>1. called' = called + 1 /\ UNCHANGED <<why, host, taken, gone, went>>
      BY <1>2 DEF Call
    <2> QED
      BY <1>1, <2>1 DEF OtherTypes, host
  <1>3. CASE \E c \in Clients : Begin(c) \/ Finish(c)
    BY <1>3 DEF Begin, Finish, OtherTypes, host
  <1>4. ASSUME NEW c \in Clients, Vanish(c) PROVE OtherTypes'
    <2>1. /\ c \in 1 .. called /\ gone' = gone \cup {c}
          /\ UNCHANGED <<why, host, called, taken, went>>
      BY <1>1, <1>4 DEF Vanish, Clients
    <2> QED
      BY <2>1 DEF OtherTypes, host
  <1> QED
    BY <1>2, <1>3, <1>4

\* Counting modulo Period stays below Period.
LEMMA CountType ==
    ASSUME NEW n \in 0 .. (Period - 1)
    PROVE  (n + 1) % Period \in 0 .. (Period - 1)
  BY IMDAssumption

\* analyze() writes the other types as its callees do.
LEMMA HostTypes == ASSUME IInv, OtherTypes, Host PROVE OtherTypes'
  <1>0. called \in Nat /\ taken \in Nat /\ taken <= called
    BY IMDAssumption DEF IInv, Types
  <1>1. CASE Analyze
    <2>1. UNCHANGED <<sock, trate, called, taken, gone, went>> /\ initialized' = TRUE
      BY <1>1 DEF Analyze, client
    <2>2. count' \in {count, (count + 1) % Period} /\ why' \in {why, "N"}
      BY <1>1 DEF Analyze, Throw
    <2>3. count' \in 0 .. (Period - 1)
      BY <2>2, CountType DEF OtherTypes
    <2> QED
      BY <2>1, <2>2, <2>3 DEF OtherTypes
  <1>2. CASE Establish
    <2>1. UNCHANGED <<why, initialized, trate, count, called, gone, went>>
      BY <1>2 DEF Establish
    <2>2. \/ taken' = taken /\ sock' = sock
          \/ taken' = taken + 1 /\ sock' \in {taken + 1, NULL}
      BY <1>2 DEF Establish
    <2> QED
      BY <1>0, <2>1, <2>2 DEF OtherTypes
  <1>3. CASE DispatchNone \/ DispatchIOERROR \/ More \/ Send
    <2>1. UNCHANGED <<why, initialized, trate, count, called, taken, gone, went>>
      BY <1>3 DEF DispatchNone, DispatchIOERROR, More, Send, client
    <2>2. sock' \in {sock, NULL}
      BY <1>3 DEF DispatchNone, DispatchIOERROR, More, Send, processDeadConnection
    <2> QED
      BY <2>1, <2>2 DEF OtherTypes
  <1>4. CASE DispatchCommand
    <2>1. UNCHANGED <<why, initialized, sock, count, called, taken, gone>>
      BY <1>4 DEF DispatchCommand
    <2>2. trate' \in Rates /\ went' \in {went, went \cup {sock}}
      BY <1>4 DEF DispatchCommand, OtherTypes
    <2>3. sock \in 1 .. taken
      BY <1>4 DEF DispatchCommand, IInv, Safe, SocketThere, OtherTypes
    <2> QED
      BY <2>1, <2>2, <2>3 DEF OtherTypes
  <1>5. CASE DispatchEnd
    <2>1. UNCHANGED <<initialized, trate, count, called, taken, gone, went>>
      BY <1>5 DEF DispatchEnd
    <2>2. sock' = NULL /\ why' \in {why, "kill"}
      BY <1>5 DEF DispatchEnd, processDeadConnection, Throw
    <2> QED
      BY <2>1, <2>2 DEF OtherTypes
  <1>6. CASE EndOfLoop
    BY <1>6 DEF EndOfLoop, Throw, host, client, OtherTypes
  <1> QED
    BY <1>1, <1>2, <1>3, <1>4, <1>5, <1>6 DEF Host, Dispatch

LEMMA NextOtherTypes == IInv /\ OtherTypes /\ [Next]_vars => OtherTypes'
<1> SUFFICES ASSUME IInv, OtherTypes, [Next]_vars PROVE OtherTypes'
  OBVIOUS
<1>1. CASE InitFails \/ RunAgain \/ Signal \/ ChangeN \/ UNCHANGED vars
  BY <1>1 DEF InitFails, RunAgain, Signal, ChangeN, Throw, vars, host, client,
              OtherTypes
<1> QED
  BY <1>1, HostTypes, ClientTypes DEF Next

\* Every socket call is made on a client that is there, frames go to clients
\* that want them, forces are those of the connected client, and the buffer
\* fits: in every behaviour, for any number of clients, commands and particles.
THEOREM Connection == Spec => []ConnectionSafe
<1>1. Init => OtherTypes
  <2>1. 0 \in 0 .. (Period - 1)
    BY IMDAssumption
  <2> QED
    BY <2>1, IMDAssumption DEF Init, OtherTypes
<1>2. IInv /\ OtherTypes => TypeOK
  <2> SUFFICES ASSUME IInv, OtherTypes PROVE TypeOK
    OBVIOUS
  <2>1. force \in Clients \cup {NULL}
    BY DEF IInv, Types, Safe, ForceOfClient
  <2>2. taken <= called
    BY IMDAssumption DEF IInv, Types
  <2> QED
    BY <2>1, <2>2 DEF IInv, Types, Steps, OtherTypes, TypeOK
<1>3. IInv /\ OtherTypes => ConnectionSafe
  BY <1>2 DEF ConnectionSafe, IInv, Safe
<1> QED
  BY InitIInv, NextIInv, NextOtherTypes, <1>1, <1>3, PTL DEF Spec
=============================================================================
