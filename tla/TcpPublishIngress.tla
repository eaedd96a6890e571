--------------------------- MODULE TcpPublishIngress ---------------------------
(***************************************************************************)
(* The TCP publish ingress: sockets that send lines, each line a command    *)
(* that runs after the ones before it on its socket; limits on the commands *)
(* that wait, on the connections, and on the time a socket may stay silent; *)
(* and the closing of the server with commands running.                    *)
(*                                                                         *)
(* The commands of a socket are a number: the first of them is where step  *)
(* says, the others wait.  Handlers of socket events and the code between   *)
(* two awaits of a command are one action each.                            *)
(***************************************************************************)
EXTENDS Integers, FiniteSets, FiniteSetsExt

CONSTANTS
  Sockets,                 \* connections
  MaxConnections,          \* maxConnections
  MaxQueuedCommands,       \* maxQueuedCommands, of a socket
  MaxGlobalQueuedCommands, \* maxGlobalQueuedCommands
  MaxLines                 \* bound on the lines of one chunk

ASSUME TcpAssumption ==
  /\ IsFiniteSet(Sockets)
  /\ MaxConnections \in Nat \ {0}
  /\ MaxQueuedCommands \in Nat \ {0}
  /\ MaxGlobalQueuedCommands \in Nat \ {0}
  /\ MaxLines \in Nat

VARIABLES
  connection,       \* the socket itself: "new", "open", "destroyed", "gone"
  chain,            \* commands of the socket that have not finished
  step,             \* where the first of them is
  queuedCommands,   \* state.queuedCommands
  globalCommands,   \* serverState.queuedCommands
  socketClosed,     \* sockets with state.closed
  deadline,         \* sockets with a preCommandDeadline
  sockets,          \* serverState.sockets
  socketStates,     \* the keys of serverState.socketStates
  server            \* "open", "closing" or "closed"

counters == <<queuedCommands, globalCommands>>
commandVars == <<chain, step, counters>>
socketVars == <<connection, socketClosed, deadline, sockets, socketStates>>
tcpVars == <<commandVars, socketVars, server>>

TcpInit ==
  /\ connection = [s \in Sockets |-> "new"]
  /\ chain = [s \in Sockets |-> 0]
  /\ step = [s \in Sockets |-> "waiting"]
  /\ queuedCommands = [s \in Sockets |-> 0]
  /\ globalCommands = 0
  /\ socketClosed = {}
  /\ deadline = {}
  /\ sockets = {}
  /\ socketStates = {}
  /\ server = "open"

ServerClosed == server # "open"
-------------------------------------------------------------------------------
(* Connections.  One over the limit is told so: it counts as a socket until  *)
(* it is gone but is never read.                                           *)

Accept(s) ==
  /\ connection[s] = "new"
  /\ server # "closed"
  /\ \/ /\ ServerClosed
        /\ connection' = [connection EXCEPT ![s] = "destroyed"]
        /\ UNCHANGED <<sockets, socketStates, deadline>>
     \/ /\ ~ServerClosed
        /\ connection' = [connection EXCEPT ![s] = "open"]
        /\ sockets' = sockets \union {s}
        /\ IF Cardinality(sockets) >= MaxConnections
           THEN UNCHANGED <<socketStates, deadline>>
           ELSE socketStates' = socketStates \union {s} /\ deadline' = deadline \union {s}
  /\ UNCHANGED <<commandVars, socketClosed, server>>

\* The peer goes, an error, a timeout, or the deadline fires.
Destroy(s) ==
  /\ connection[s] = "open"
  /\ connection' = [connection EXCEPT ![s] = "destroyed"]
  /\ UNCHANGED <<commandVars, socketClosed, deadline, sockets, socketStates, server>>

\* The event "close".  A running command of an accepted socket is interrupted, and
\* its state is dropped when the commands it has at this time are done.
SocketGone(s) ==
  /\ connection[s] = "destroyed"
  /\ connection' = [connection EXCEPT ![s] = "gone"]
  /\ sockets' = sockets \ {s}
  /\ socketClosed' = socketClosed \union ({s} \intersect socketStates)
  /\ deadline' = deadline \ {s}
  /\ socketStates' = IF chain[s] = 0 THEN socketStates \ {s} ELSE socketStates
  /\ UNCHANGED <<commandVars, server>>
-------------------------------------------------------------------------------
(* Data. *)

\* Of n lines those within both limits are queued; the first one over a limit
\* ends the connection, and the rest are ignored.
Room(s) ==
  Min({MaxQueuedCommands - queuedCommands[s], MaxGlobalQueuedCommands - globalCommands})

\* A chunk of n lines, followed or not by a line that is too long.
Data(s, n, tooLong) ==
  LET queued == Min({n, Room(s)})
  IN  /\ connection[s] = "open"
      /\ s \in socketStates \ socketClosed
      /\ ~ServerClosed
      /\ chain' = [chain EXCEPT ![s] = @ + queued]
      /\ queuedCommands' = [queuedCommands EXCEPT ![s] = @ + queued]
      /\ globalCommands' = globalCommands + queued
      /\ socketClosed' = IF n > queued \/ tooLong THEN socketClosed \union {s} ELSE socketClosed
      /\ UNCHANGED <<connection, step, deadline, sockets, socketStates, server>>
-------------------------------------------------------------------------------
(* Commands. *)

Stopped(s) == s \in socketClosed \/ ServerClosed

StepTo(s, next) == step' = [step EXCEPT ![s] = next]

\* The first command starts, unless the socket or the server was closed.
Begin(s) ==
  /\ chain[s] > 0
  /\ step[s] = "waiting"
  /\ StepTo(s, IF Stopped(s) THEN "finishing" ELSE "authorising")
  /\ UNCHANGED <<chain, counters, socketVars, server>>

\* The line is a command and its sender is authorised: a deadline no longer runs.
Authorise(s) ==
  /\ step[s] = "authorising"
  /\ deadline' = deadline \ {s}
  /\ StepTo(s, "mutating")
  /\ UNCHANGED <<chain, counters, connection, socketClosed, sockets, socketStates, server>>

\* The command succeeds, fails or is interrupted; its answer is written while
\* there is someone to read it.
EndFiber(s) ==
  /\ step[s] \in {"authorising", "mutating"}
  /\ StepTo(s, IF Stopped(s) \/ connection[s] # "open" THEN "finishing" ELSE "writing")
  /\ UNCHANGED <<chain, counters, socketVars, server>>

\* The answer is written, or the socket closes instead.
Written(s) ==
  /\ step[s] = "writing"
  /\ StepTo(s, "finishing")
  /\ UNCHANGED <<chain, counters, socketVars, server>>

\* MUTANT of FinishCommand: nothing is counted down once the socket or the server is closed.
FinishCommandIfOpen(s) ==
  /\ step[s] = "finishing"
  /\ chain' = [chain EXCEPT ![s] = @ - 1]
  /\ StepTo(s, "waiting")
  /\ IF Stopped(s)
     THEN UNCHANGED counters
     ELSE /\ queuedCommands' = [queuedCommands EXCEPT ![s] = @ - 1]
          /\ globalCommands' = globalCommands - 1
  /\ deadline' = IF ~Stopped(s) /\ connection[s] = "open" /\ queuedCommands'[s] = 0
                 THEN deadline \union {s} ELSE deadline
  /\ socketStates' = IF s \in socketClosed THEN socketStates \ {s} ELSE socketStates
  /\ UNCHANGED <<connection, socketClosed, sockets, server>>

\* The command is done and counted down; a socket with nothing more to run has
\* a deadline again.  The next command may start.
FinishCommand(s) ==
  /\ step[s] = "finishing"
  /\ chain' = [chain EXCEPT ![s] = @ - 1]
  /\ StepTo(s, "waiting")
  /\ queuedCommands' = [queuedCommands EXCEPT ![s] = @ - 1]
  /\ globalCommands' = globalCommands - 1
  /\ deadline' = IF ~Stopped(s) /\ connection[s] = "open" /\ queuedCommands'[s] = 0
                 THEN deadline \union {s} ELSE deadline
  /\ socketStates' = IF s \in socketClosed THEN socketStates \ {s} ELSE socketStates
  /\ UNCHANGED <<connection, socketClosed, sockets, server>>
-------------------------------------------------------------------------------
(* Closing. *)

CloseServer ==
  /\ server = "open"
  /\ server' = "closing"
  /\ socketClosed' = socketClosed \union socketStates
  /\ connection' = [s \in Sockets |->
                      IF s \in sockets /\ connection[s] = "open" THEN "destroyed" ELSE connection[s]]
  /\ UNCHANGED <<commandVars, deadline, sockets, socketStates>>

\* All commands have finished and the listening server has no connection left.
ServerDrained ==
  /\ server = "closing"
  /\ \A s \in Sockets : chain[s] = 0 /\ connection[s] \in {"new", "gone"}
  /\ server' = "closed"
  /\ UNCHANGED <<commandVars, socketVars>>
-------------------------------------------------------------------------------
CommandStep(s) == Begin(s) \/ Authorise(s) \/ EndFiber(s) \/ Written(s) \/ FinishCommand(s)

TcpNext ==
  \/ \E s \in Sockets :
       \/ Accept(s) \/ Destroy(s) \/ SocketGone(s) \/ CommandStep(s)
       \/ \E n \in 0 .. MaxLines, tooLong \in BOOLEAN : Data(s, n, tooLong)
  \/ CloseServer \/ ServerDrained

TcpSpec == TcpInit /\ [][TcpNext]_tcpVars
-------------------------------------------------------------------------------
(* Properties. *)

TcpTypeOK ==
  /\ connection \in [Sockets -> {"new", "open", "destroyed", "gone"}]
  /\ chain \in [Sockets -> Nat]
  /\ step \in [Sockets -> {"waiting", "authorising", "mutating", "writing", "finishing"}]
  /\ queuedCommands \in [Sockets -> Int]
  /\ globalCommands \in Int
  /\ socketClosed \subseteq Sockets
  /\ deadline \subseteq Sockets
  /\ sockets \subseteq Sockets
  /\ socketStates \subseteq Sockets
  /\ server \in {"open", "closing", "closed"}

\* The commands of a socket, the first one first, and of all sockets.
CommandsOf(s) == {s} \X (1 .. chain[s])
AllCommands == UNION {CommandsOf(s) : s \in Sockets}

\* Both counters are the numbers of commands not finished, closed sockets and
\* interrupted commands included, and never above their limits: no command is
\* counted down twice or never (executeLine, tcp-publish-ingress.ts:695).
CommandsCounted ==
  /\ globalCommands = Cardinality(AllCommands)
  /\ globalCommands <= MaxGlobalQueuedCommands
  /\ \A s \in Sockets : queuedCommands[s] = chain[s] /\ queuedCommands[s] <= MaxQueuedCommands

\* A connection that is open, accepted and has nothing to run has a deadline: none
\* stays for ever without sending a command.
IdleIsTimed ==
  \A s \in socketStates \ socketClosed :
    connection[s] = "open" /\ queuedCommands[s] = 0 => s \in deadline

\* No more connections are read than the limit allows.
ConnectionsLimited ==
  Cardinality({s \in socketStates : connection[s] # "gone"}) <= MaxConnections

\* What is kept of a connection is kept until it is gone and its commands are done,
\* and no longer.
GoneIsForgotten ==
  \A s \in Sockets :
    /\ connection[s] = "gone" => s \notin sockets \union deadline
    /\ connection[s] = "gone" /\ chain[s] = 0 => s \notin socketStates
    /\ connection[s] = "open" => s \in sockets

\* When the server has closed no command runs or waits and no connection is read.
ClosedIsQuiet ==
  server = "closed" => /\ globalCommands = 0
                       /\ sockets = {} /\ socketStates = {} /\ deadline = {}

CommandsAreAccounted ==
  /\ TcpTypeOK
  /\ CommandsCounted
  /\ IdleIsTimed
  /\ ConnectionsLimited
  /\ GoneIsForgotten
  /\ ClosedIsQuiet
===============================================================================
