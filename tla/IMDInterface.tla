---------------------------- MODULE IMDInterface ----------------------------
(***************************************************************************)
(* IMDInterface: an analyzer that lets a viewer (VMD) watch, pause and     *)
(* steer a run over a socket.  analyze() is called by the run loop; it     *)
(* accepts a client, takes its commands, keeps the run waiting while it is *)
(* paused, and sends coordinates.                                          *)
(*                                                                         *)
(* One process takes the steps of analyze() between which the clients act: *)
(* every call on a socket is a step.  Clients call, send commands (some of *)
(* them in parts), and vanish at any time; they queue at the listening     *)
(* socket while another one is connected.                                  *)
(*                                                                         *)
(* Abstractions: coordinates and energies have no values; the forces of a  *)
(* client are its name; m_count is kept modulo Period, the least common    *)
(* multiple of the rates clients ask for.                                  *)
(***************************************************************************)
EXTENDS Integers, Sequences, FiniteSets

CONSTANTS
    Pause, Rate, HasForce,  \* arguments of the constructor
    Rates,        \* the rates clients ask for, 0 among them
    Period,       \* a multiple of every rate
    Commands,     \* the commands clients send
    MaxClients,   \* bound of the model: clients that ever call
    MaxSent,      \* bound of the model: commands of one client
    Sizes,        \* the numbers of particles the system can have
    NULL          \* no socket

ASSUME IMDAssumption ==
    /\ Pause \in BOOLEAN /\ HasForce \in BOOLEAN /\ Rate \in Rates
    /\ Rates \subseteq Nat /\ Period \in Nat \ {0} /\ MaxClients \in Nat
    /\ NULL \notin 1 .. MaxClients
    /\ Commands \subseteq {"DISCONNECT", "GO", "KILL", "MDCOMM", "TRATE",
                           "PAUSE", "UNKNOWN"}

Clients == 1 .. MaxClients

VARIABLES
    \* the interface
    pc,           \* the next socket call of analyze(); "idle" between calls
    why,          \* the exception that ended the run, "none" if there is none
    initialized,  \* m_is_initialized
    sock,         \* m_connected_sock: NULL or a client
    active, paused, trate, count,   \* m_active, m_paused, m_trate, m_count
    force,        \* the client whose forces m_force holds; NULL: no force
    nglobal,      \* m_nglobal: number of particles the buffer was made for
    N,            \* the number of particles
    sigint,       \* g_sigint_recvd
    \* the clients
    called,       \* clients that have called so far
    taken,        \* clients that were accepted or turned away so far
    gone,         \* clients that vanished
    inbox,        \* inbox[c]: whole commands on their way from c
    half,         \* half[c]: part of a command has arrived from c
    sent,         \* sent[c]: number of commands c has begun to send
    \* history
    went          \* clients whose GO was received

host == <<initialized, sock, active, paused, trate, count, force, nglobal>>
client == <<called, taken, gone, inbox, half, sent>>
vars == <<pc, why, host, N, sigint, client, went>>

Init ==
    /\ pc = "idle" /\ why = "none" /\ initialized = FALSE
    /\ sock = NULL /\ active = FALSE /\ paused = Pause /\ trate = Rate
    /\ count = 0 /\ force = NULL /\ nglobal = 0
    /\ N \in Sizes /\ sigint = FALSE
    /\ called = 0 /\ taken = 0 /\ gone = {}
    /\ inbox = [c \in Clients |-> <<>>]
    /\ half = [c \in Clients |-> FALSE] /\ sent = [c \in Clients |-> 0]
    /\ went = {}

----------------------------------------------------------------------------
(* The clients *)

Call == /\ called < MaxClients
        /\ called' = called + 1
        /\ UNCHANGED <<pc, why, host, N, sigint, taken, gone, inbox, half, sent,
                       went>>

\* A connected client sends the first bytes of a command, ...
Begin(c) ==
    /\ sock = c /\ c \notin gone /\ ~half[c] /\ sent[c] < MaxSent
    /\ half' = [half EXCEPT ![c] = TRUE]
    /\ sent' = [sent EXCEPT ![c] = @ + 1]
    /\ UNCHANGED <<pc, why, host, N, sigint, called, taken, gone, inbox, went>>

\* ... and the rest of it.
Finish(c) ==
    /\ half[c] /\ c \notin gone
    /\ half' = [half EXCEPT ![c] = FALSE]
    /\ \E m \in Commands : inbox' = [inbox EXCEPT ![c] = Append(@, m)]
    /\ UNCHANGED <<pc, why, host, N, sigint, called, taken, gone, sent, went>>

Vanish(c) ==
    /\ c <= called /\ c \notin gone
    /\ gone' = gone \cup {c}
    /\ UNCHANGED <<pc, why, host, N, sigint, called, taken, inbox, half, sent,
                   went>>

----------------------------------------------------------------------------
(* The run around analyze() *)

Signal == /\ ~sigint
          /\ sigint' = TRUE
          /\ UNCHANGED <<pc, why, host, N, client, went>>

\* Particles are added or removed between two calls.
ChangeN == /\ pc \in {"idle", "stopped"}
           /\ \E n \in Sizes \ {N} : N' = n
           /\ UNCHANGED <<pc, why, host, sigint, client, went>>

\* The script that caught the exception runs again.
RunAgain == /\ pc = "stopped"
            /\ pc' = "idle" /\ why' = "none"
            /\ UNCHANGED <<host, N, sigint, client, went>>

Throw(reason) == pc' = "stopped" /\ why' = reason

----------------------------------------------------------------------------
(* analyze() *)

\* initConnection(), which can fail at the listening socket.
InitFails ==
    /\ pc = "idle" /\ ~initialized
    /\ Throw("init")
    /\ UNCHANGED <<host, N, sigint, client, went>>

\* The head of analyze(): the connection is initialized on the first call; a
\* changed number of particles is an error.
Analyze ==
    /\ pc = "idle"
    /\ initialized' = TRUE
    /\ nglobal' = IF initialized THEN nglobal ELSE N
    /\ IF nglobal' # N
       THEN Throw("N") /\ UNCHANGED count
       ELSE pc' = "establish" /\ count' = (count + 1) % Period /\ UNCHANGED why
    /\ UNCHANGED <<sock, active, paused, trate, force, N, sigint, client, went>>

\* Mutation: the forces of the client stay.
DropKeepsForce ==
    /\ sock' = NULL /\ active' = FALSE /\ paused' = FALSE
    /\ UNCHANGED force

\* processDeadConnection(): the socket, the state and the forces of the client
\* go.
processDeadConnection ==
    /\ sock' = NULL /\ active' = FALSE /\ paused' = FALSE
    /\ force' = IF HasForce THEN NULL ELSE force

\* Top of the loop: establishConnectionAttempt(), unless there is a client.
\* A client at the listening socket is accepted, or its handshake fails; if
\* there is none select() returns at once or, in a paused run, after 5 s.
Establish ==
    /\ pc = "establish"
    /\ \/ sock # NULL /\ pc' = "dispatch" /\ UNCHANGED <<sock, taken>>
       \/ /\ sock = NULL /\ taken < called
          /\ taken' = taken + 1
          /\ \/ sock' = taken + 1 /\ pc' = "dispatch"
             \/ sock' = NULL /\ pc' = "signal"
       \/ sock = NULL /\ taken = called /\ pc' = "signal" /\ UNCHANGED <<sock, taken>>
    /\ UNCHANGED <<why, initialized, active, paused, trate, count, force, nglobal,
                   N, sigint, called, gone, inbox, half, sent, went>>

\* What selread on the connected socket can return: 1 for a command, part of
\* one, or the end of the stream; -1 for an error on a broken connection.
Readable == inbox[sock] # <<>> \/ half[sock] \/ sock \in gone
Broken == sock \in gone

\* dispatch(), nothing to read or an error.
DispatchNone ==
    /\ pc = "dispatch" /\ pc' = "more"
    /\ \/ Broken /\ processDeadConnection
       \/ ~Readable /\ UNCHANGED <<sock, active, paused, force>>
    /\ UNCHANGED <<why, initialized, trate, count, nglobal, N, sigint, client,
                   went>>

\* Mutation: the error is reported and the connection kept.
IOERRORIgnored ==
    /\ pc = "dispatch" /\ pc' = "more"
    /\ inbox[sock] = <<>> /\ sock \in gone
    /\ UNCHANGED <<why, host, N, sigint, client, went>>
\* dispatch(), the stream ends inside or before a header, IMD_IOERROR, or
\* inside the forces of an MDCOMM: both drop the client.
DispatchIOERROR ==
    /\ pc = "dispatch" /\ pc' = "more"
    /\ inbox[sock] = <<>> /\ sock \in gone
    /\ processDeadConnection
    /\ UNCHANGED <<why, initialized, trate, count, nglobal, N, sigint, client,
                   went>>

\* How the commands change m_active and m_paused.
processIMD_GO(m) == active' = IF m = "GO" THEN TRUE ELSE active
processIMD_PAUSE(m) ==
    paused' = CASE m = "GO" -> FALSE [] m = "PAUSE" -> ~paused [] OTHER -> paused

\* processIMD_MDCOMM(): the forces replace the earlier ones.
processIMD_MDCOMM(m) == force' = IF m = "MDCOMM" /\ HasForce THEN sock ELSE force

\* dispatch() of a command that leaves the client connected.  A command of
\* which only a part has come blocks the call, so that a step needs a whole one.
DispatchCommand ==
    /\ pc = "dispatch" /\ pc' = "more"
    /\ inbox[sock] # <<>>
    /\ LET m == Head(inbox[sock])
       IN  /\ m \in {"GO", "PAUSE", "MDCOMM", "TRATE"}
           /\ processIMD_GO(m)
           /\ processIMD_PAUSE(m)
           /\ processIMD_MDCOMM(m)
           /\ IF m = "TRATE" THEN trate' \in Rates ELSE UNCHANGED trate
           /\ went' = IF m = "GO" THEN went \cup {sock} ELSE went
    /\ inbox' = [inbox EXCEPT ![sock] = Tail(@)]
    /\ UNCHANGED <<why, initialized, sock, count, nglobal, N, sigint, called,
                   taken, gone, half, sent>>

\* dispatch() of a command that ends the connection: DISCONNECT, one that is
\* not known, and KILL, which also throws.
DispatchEnd ==
    /\ pc = "dispatch"
    /\ inbox[sock] # <<>>
    /\ LET m == Head(inbox[sock])
       IN  /\ m \in {"DISCONNECT", "UNKNOWN", "KILL"}
           /\ IF m = "KILL" THEN Throw("kill") ELSE pc' = "more" /\ UNCHANGED why
    /\ inbox' = [inbox EXCEPT ![sock] = Tail(@)]
    /\ processDeadConnection
    /\ UNCHANGED <<initialized, trate, count, nglobal, N, sigint, called, taken,
                   gone, half, sent, went>>

\* messagesAvailable(), if there still is a client.
More ==
    /\ pc = "more"
    /\ \/ /\ sock # NULL => ~Readable
          /\ pc' = "signal" /\ UNCHANGED <<sock, active, paused, force>>
       \/ /\ sock # NULL /\ Readable
          /\ pc' = "dispatch" /\ UNCHANGED <<sock, active, paused, force>>
       \/ /\ sock # NULL /\ Broken
          /\ processDeadConnection /\ pc' = "signal"
    /\ UNCHANGED <<why, initialized, trate, count, nglobal, N, sigint, client,
                   went>>

\* The end of the loop: a signal is an exception; a paused run stays.  Past
\* the loop the frame is sent when the client is active and the rate matches.
EndOfLoop ==
    /\ pc = "signal"
    /\ IF sigint
       THEN sigint' = FALSE /\ Throw("signal")
       ELSE /\ pc' = IF paused THEN "establish"
                     ELSE IF sock # NULL /\ active /\ (trate = 0 \/ count % trate = 0)
                     THEN "energies" ELSE "idle"
            /\ UNCHANGED <<why, sigint>>
    /\ UNCHANGED <<host, N, client, went>>

\* sendCoords(): two writes, each of which can fail when the client is gone.
Send ==
    /\ \/ /\ pc = "energies" /\ pc' = "coords"
          /\ UNCHANGED <<sock, active, paused, force>>
       \/ /\ pc = "coords" /\ pc' = "idle"
          /\ UNCHANGED <<sock, active, paused, force>>
       \/ /\ pc \in {"energies", "coords"} /\ pc' = "idle"
          /\ sock \in gone /\ processDeadConnection
    /\ UNCHANGED <<why, initialized, trate, count, nglobal, N, sigint, client,
                   went>>

Dispatch == DispatchNone \/ DispatchIOERROR \/ DispatchCommand \/ DispatchEnd

Host == Analyze \/ Establish \/ Dispatch \/ More \/ EndOfLoop \/ Send

Next ==
    \/ Host \/ InitFails \/ RunAgain \/ Signal \/ ChangeN
    \/ Call
    \/ \E c \in Clients : Begin(c) \/ Finish(c) \/ Vanish(c)

\* The process goes on as long as it is not killed, and the run loop calls
\* analyze() again and again.  Nothing is assumed of the clients.
Spec == Init /\ [][Next]_vars /\ WF_vars(Host)

----------------------------------------------------------------------------
(* Properties *)

TypeOK ==
    /\ pc \in {"idle", "establish", "dispatch", "more", "signal", "energies",
               "coords", "stopped"}
    /\ why \in {"none", "init", "N", "kill", "signal"}
    /\ sock \in Clients \cup {NULL} /\ force \in Clients \cup {NULL}
    /\ active \in BOOLEAN /\ paused \in BOOLEAN /\ initialized \in BOOLEAN
    /\ trate \in Rates /\ count \in 0 .. (Period - 1)
    /\ taken <= called /\ gone \subseteq 1 .. called /\ went \subseteq 1 .. taken

\* Every socket call is made on a client that was accepted and not dropped,
\* whatever the commands before it did: dispatch() and sendCoords() have the
\* precondition that the socket is connected.
SocketThere == pc \in {"dispatch", "energies", "coords"} => sock # NULL

\* Frames go to a client that asked for them itself: the GO of an earlier
\* client does not make a new one active, and nothing is sent from a paused run.
FramesWanted == pc \in {"energies", "coords"} => sock \in went /\ ~paused

\* The forces on the particles are those of the client that is connected: they
\* vanish with it, however the connection ended, and never pass to the next.
ForceOfClient == force # NULL => force = sock

\* A run is paused without a client only if it was constructed paused and
\* nobody has connected yet: a client that pauses the run and dies does not
\* leave it waiting for ever.
PausedByClient == paused /\ sock = NULL => Pause /\ went = {}

\* The buffer for the coordinates was made for as many particles as are sent,
\* through additions, removals and runs that were interrupted.
BufferFits == pc \in {"energies", "coords"} => N = nglobal

\* What holds of the connection at every moment.
ConnectionSafe ==
    TypeOK /\ SocketThere /\ FramesWanted /\ ForceOfClient /\ PausedByClient /\ BufferFits

\* A client that vanished is noticed, in a paused run as well, unless the run
\* has ended.
Noticed == \A c \in Clients : sock = c /\ c \in gone ~> sock # c \/ pc = "stopped"
=============================================================================
