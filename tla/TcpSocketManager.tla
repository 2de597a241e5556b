--------------------------- MODULE TcpSocketManager ---------------------------
(***************************************************************************)
(* The tracker's connection to the server: the singleton                   *)
(* TcpSocketManager.java and the TcpClients it creates (TcpClient.java).   *)
(*                                                                         *)
(* The main thread calls startTcpConnect(), sopTcpConnect() and            *)
(* sendMessage(), the thread of the wifi check the first and the last.     *)
(* startTcpConnect() spawns a thread that creates a client and starts it;  *)
(* a started client runs two watchdog threads; messages are written by a   *)
(* single-threaded executor.  Nothing is synchronized: an access to a      *)
(* shared field that another thread can come between is a step of its own. *)
(*                                                                         *)
(* A thread of startTcpConnect() creates one TcpClient, opens at most one  *)
(* Socket and starts at most one pair of watchdogs, so one set of          *)
(* identities Thread names the threads, the clients they create and the    *)
(* sockets they open.  |Thread| bounds the connection attempts.            *)
(***************************************************************************)
EXTENDS Naturals, Sequences

CONSTANTS
  Thread,      \* threads of startTcpConnect(), with the client each creates
  None,        \* Java's null
  MaxMessage,  \* bound: messages handed to sendMessage()
  NetMayFail   \* connecting may fail and connections may break

ASSUME ThreadAssumption == None \notin Thread
ASSUME MessageAssumption == MaxMessage \in Nat
ASSUME NetAssumption == NetMayFail \in BOOLEAN

VARIABLES
  client,     \* TcpSocketManager.client
  main,       \* the main thread: idle, between the steps of sopTcpConnect(), or
              \* idle again after a stop
  check,      \* the wifi check: idle, past the test of `client', or gone for good
  pc,         \* where each thread of startTcpConnect() is
  target,     \* the client that thread calls start() on
  running,    \* TcpClient.running
  socket,     \* TcpClient.socket, named by the thread that opened it
  conn,       \* the TCP connection each thread opened
  keepAlive,  \* the KeepAliveWatchDog each thread started
  receive,    \* the ReceiveWatchDog each thread started
  submitted,  \* messages handed to sendMessage() so far: 1..submitted
  tasks,      \* the executor's queue
  sending,    \* the executor's task: the message and the client it read
  written,    \* messages written to a connection, in order
  lost,       \* messages whose exception was swallowed
  crashed     \* an uncaught NullPointerException killed the process

startVars == <<pc, target>>
clientVars == <<running, socket>>
dogVars == <<keepAlive, receive>>
sendVars == <<submitted, tasks, sending, written, lost>>
vars == <<client, main, check, startVars, clientVars, conn, dogVars, sendVars, crashed>>

Ref == Thread \cup {None}
Idle == [msg |-> 0, via |-> None]

TypeOK ==
  /\ client \in Ref
  /\ main \in {"idle", "stopping", "stopped"}
  /\ check \in {"idle", "tested", "gone"}
  /\ pc \in [Thread -> {"unborn", "assign", "start", "connect", "opened", "done"}]
  /\ target \in [Thread -> Ref]
  /\ running \in [Thread -> BOOLEAN]
  /\ socket \in [Thread -> Ref]
  /\ conn \in [Thread -> {"none", "up", "closed", "reset"}]
  /\ keepAlive \in [Thread -> {"none", "alive", "ended"}]
  /\ receive \in [Thread -> {"none", "alive", "ended"}]
  /\ submitted \in 0..MaxMessage
  /\ tasks \in Seq(1..MaxMessage)
  /\ sending \in [msg : 0..MaxMessage, via : Ref]
  /\ written \in Seq(1..MaxMessage)
  /\ lost \in SUBSET (1..MaxMessage)
  /\ crashed \in BOOLEAN

Init ==
  /\ client = None
  /\ main = "idle"
  /\ check = "idle"
  /\ pc = [t \in Thread |-> "unborn"]
  /\ target = [t \in Thread |-> None]
  /\ running = [t \in Thread |-> FALSE]
  /\ socket = [t \in Thread |-> None]
  /\ conn = [t \in Thread |-> "none"]
  /\ keepAlive = [t \in Thread |-> "none"]
  /\ receive = [t \in Thread |-> "none"]
  /\ submitted = 0
  /\ tasks = << >>
  /\ sending = Idle
  /\ written = << >>
  /\ lost = {}
  /\ crashed = FALSE

-----------------------------------------------------------------------------
(* The main thread *)

(* startTcpConnect(): nothing if the current client runs, else a new thread *)
startTcpConnect ==
  IF client # None /\ running[client]
  THEN UNCHANGED pc
  ELSE \E t \in Thread : pc[t] = "unborn" /\ pc' = [pc EXCEPT ![t] = "assign"]

Start ==
  /\ main # "stopping"
  /\ startTcpConnect
  /\ UNCHANGED <<client, main, check, target, clientVars, conn, dogVars, sendVars, crashed>>

(* Mutant: the message before the last one is queued. *)
sendMessage_offByOne ==
  /\ main # "stopping" /\ submitted < MaxMessage
  /\ startTcpConnect
  /\ submitted' = submitted + 1
  /\ tasks' = Append(tasks, submitted)
  /\ UNCHANGED <<client, main, check, target, clientVars, conn, dogVars, sending, written, lost, crashed>>

(* sendMessage(): startTcpConnect(), then a task for the executor *)
sendMessage ==
  /\ main # "stopping"
  /\ submitted < MaxMessage
  /\ startTcpConnect
  /\ submitted' = submitted + 1
  /\ tasks' = Append(tasks, submitted')
  /\ UNCHANGED <<client, main, check, target, clientVars, conn, dogVars, sending, written, lost, crashed>>

(* sopTcpConnect(): client.stop() ... *)
sopTcpConnect ==
  /\ main # "stopping"
  /\ client # None
  /\ running' = [running EXCEPT ![client] = FALSE]
  /\ main' = "stopping"
  /\ UNCHANGED <<client, check, startVars, socket, conn, dogVars, sendVars, crashed>>

(* ... and client = null, whichever client that is by now *)
sopForgets ==
  /\ main = "stopping"
  /\ client' = None
  /\ main' = "stopped"
  /\ UNCHANGED <<check, startVars, clientVars, conn, dogVars, sendVars, crashed>>

-----------------------------------------------------------------------------
(* The thread of the wifi check.  It calls startTcpConnect(), alone or as part
   of sendMessage(); between the two times startTcpConnect() reads `client' the
   main thread may stop it. *)
Queued ==
  \/ UNCHANGED <<submitted, tasks>>
  \/ /\ submitted < MaxMessage
     /\ submitted' = submitted + 1
     /\ tasks' = Append(tasks, submitted')

CheckSeesNone ==
  /\ check = "idle"
  /\ client = None
  /\ startTcpConnect
  /\ Queued
  /\ UNCHANGED <<client, main, check, target, clientVars, conn, dogVars, sending, written, lost, crashed>>

CheckSeesClient ==
  /\ check = "idle"
  /\ client # None
  /\ check' = "tested"
  /\ UNCHANGED <<client, main, startVars, clientVars, conn, dogVars, sendVars, crashed>>

CheckStarts ==
  /\ check = "tested"
  /\ client # None
  /\ startTcpConnect
  /\ Queued
  /\ check' = "idle"
  /\ UNCHANGED <<client, main, target, clientVars, conn, dogVars, sending, written, lost, crashed>>

(* client.isRunning() on null: the scheduler that runs the check swallows the
   exception and never runs it again. *)
CheckNull ==
  /\ check = "tested"
  /\ client = None
  /\ check' = "gone"
  /\ UNCHANGED <<client, main, startVars, clientVars, conn, dogVars, sendVars, crashed>>

CheckStep ==
  \/ CheckSeesNone
  \/ CheckSeesClient
  \/ CheckStarts
  \/ CheckNull

-----------------------------------------------------------------------------
(* A thread of startTcpConnect() *)

(* Mutant: the client is assigned only after start() was called on it. *)
AssignClient_late(t) ==
  /\ pc[t] = "assign"
  /\ pc' = [pc EXCEPT ![t] = "start"]
  /\ UNCHANGED <<client, main, check, target, clientVars, conn, dogVars, sendVars, crashed>>

(* client = new TcpClient(ip, port) *)
AssignClient(t) ==
  /\ pc[t] = "assign"
  /\ client' = t
  /\ pc' = [pc EXCEPT ![t] = "start"]
  /\ UNCHANGED <<main, check, target, clientVars, conn, dogVars, sendVars, crashed>>

(* Mutant: `running' is set before the socket is opened. *)
CallStart_runsFirst(t) ==
  /\ pc[t] = "start"
  /\ client # None
  /\ target' = [target EXCEPT ![t] = client]
  /\ pc' = [pc EXCEPT ![t] = IF running[client] THEN "done" ELSE "connect"]
  /\ running' = [running EXCEPT ![client] = TRUE]
  /\ UNCHANGED <<client, main, check, socket, conn, dogVars, sendVars, crashed>>

(* client.start(): the field is read again, and may be another thread's
   client, or null *)
CallStart(t) ==
  /\ pc[t] = "start"
  /\ client # None
  /\ target' = [target EXCEPT ![t] = client]
  /\ pc' = [pc EXCEPT ![t] = IF running[client] THEN "done" ELSE "connect"]
  /\ UNCHANGED <<client, main, check, clientVars, conn, dogVars, sendVars, crashed>>

CallStartNull(t) ==
  /\ pc[t] = "start"
  /\ client = None
  /\ crashed' = TRUE
  /\ UNCHANGED <<client, main, check, startVars, clientVars, conn, dogVars, sendVars>>

(* socket = new Socket(serverIp, port): blocks until connected or refused *)
Connects(t) ==
  /\ pc[t] = "connect"
  /\ conn' = [conn EXCEPT ![t] = "up"]
  /\ socket' = [socket EXCEPT ![target[t]] = t]
  /\ pc' = [pc EXCEPT ![t] = "opened"]
  /\ UNCHANGED <<client, main, check, target, running, dogVars, sendVars, crashed>>

ConnectFails(t) ==
  /\ NetMayFail
  /\ pc[t] = "connect"
  /\ pc' = [pc EXCEPT ![t] = "done"]
  /\ UNCHANGED <<client, main, check, target, clientVars, conn, dogVars, sendVars, crashed>>

(* running = true, and the two watchdogs *)
RunClient(t) ==
  /\ pc[t] = "opened"
  /\ running' = [running EXCEPT ![target[t]] = TRUE]
  /\ keepAlive' = [keepAlive EXCEPT ![t] = "alive"]
  /\ receive' = [receive EXCEPT ![t] = "alive"]
  /\ pc' = [pc EXCEPT ![t] = "done"]
  /\ UNCHANGED <<client, main, check, target, socket, conn, sendVars, crashed>>

-----------------------------------------------------------------------------
(* The watchdogs of the client that thread t started *)

(* The socket the client of t uses now. *)
Current(t) == socket[target[t]]

(* A minute has passed: send the keep-alive bytes.  The first write after the
   server closed is answered by a reset, the next one throws. *)
KeepAliveSends(t) ==
  /\ keepAlive[t] = "alive"
  /\ running[target[t]]
  /\ conn[Current(t)] \in {"up", "closed"}
  /\ conn' = [conn EXCEPT ![Current(t)] = IF @ = "up" THEN "up" ELSE "reset"]
  /\ UNCHANGED <<client, main, check, startVars, clientVars, dogVars, sendVars, crashed>>

(* Mutant: the exception of a keep-alive is only printed. *)
KeepAliveThrows_goesOn(t) ==
  /\ keepAlive[t] = "alive"
  /\ running[target[t]]
  /\ conn[Current(t)] = "reset"
  /\ UNCHANGED vars

KeepAliveThrows(t) ==
  /\ keepAlive[t] = "alive"
  /\ running[target[t]]
  /\ conn[Current(t)] = "reset"
  /\ running' = [running EXCEPT ![target[t]] = FALSE]
  /\ UNCHANGED <<client, main, check, startVars, socket, conn, dogVars, sendVars, crashed>>

(* Mutant: the loop is left only after an exception. *)
KeepAliveEnds_onlyBroken(t) ==
  /\ keepAlive[t] = "alive"
  /\ ~running[target[t]]
  /\ conn[Current(t)] = "reset"
  /\ keepAlive' = [keepAlive EXCEPT ![t] = "ended"]
  /\ UNCHANGED <<client, main, check, startVars, clientVars, conn, receive, sendVars, crashed>>

KeepAliveEnds(t) ==
  /\ keepAlive[t] = "alive"
  /\ ~running[target[t]]
  /\ keepAlive' = [keepAlive EXCEPT ![t] = "ended"]
  /\ UNCHANGED <<client, main, check, startVars, clientVars, conn, receive, sendVars, crashed>>

(* doAction() throws on bytes it cannot parse: any exception stops the client.
   The end of the stream is not noticed, available() stays 0. *)
ReceiveThrows(t) ==
  /\ NetMayFail
  /\ receive[t] = "alive"
  /\ running[target[t]]
  /\ conn[Current(t)] = "up"
  /\ running' = [running EXCEPT ![target[t]] = FALSE]
  /\ UNCHANGED <<client, main, check, startVars, socket, conn, dogVars, sendVars, crashed>>

ReceiveEnds(t) ==
  /\ receive[t] = "alive"
  /\ ~running[target[t]]
  /\ receive' = [receive EXCEPT ![t] = "ended"]
  /\ UNCHANGED <<client, main, check, startVars, clientVars, conn, keepAlive, sendVars, crashed>>

-----------------------------------------------------------------------------
(* The executor: take the next task and read the field `client' ... *)
ExecutorTakes ==
  /\ sending = Idle
  /\ tasks # << >>
  /\ sending' = [msg |-> Head(tasks), via |-> client]
  /\ tasks' = Tail(tasks)
  /\ UNCHANGED <<client, main, check, startVars, clientVars, conn, dogVars, submitted, written, lost, crashed>>

(* ... then write to that client's socket.  No client, no socket or a broken
   connection: the exception is printed and the message is gone. *)
Reaches(c) == c # None /\ socket[c] # None /\ conn[socket[c]] = "up"

ExecutorWrites ==
  /\ sending # Idle
  /\ Reaches(sending.via)
  /\ written' = Append(written, sending.msg)
  /\ sending' = Idle
  /\ UNCHANGED <<client, main, check, startVars, clientVars, conn, dogVars, submitted, tasks, lost, crashed>>

(* Mutant: a message that failed is queued again, behind the others. *)
ExecutorLoses_requeues ==
  /\ sending # Idle
  /\ ~Reaches(sending.via)
  /\ tasks' = Append(tasks, sending.msg)
  /\ sending' = Idle
  /\ UNCHANGED <<client, main, check, startVars, clientVars, conn, dogVars, submitted, lost, written, crashed>>

ExecutorLoses ==
  /\ sending # Idle
  /\ ~Reaches(sending.via)
  /\ lost' = lost \cup {sending.msg}
  /\ conn' = IF sending.via # None /\ socket[sending.via] # None
             THEN [conn EXCEPT ![socket[sending.via]] = "reset"] ELSE conn
  /\ sending' = Idle
  /\ UNCHANGED <<client, main, check, startVars, clientVars, dogVars, submitted, tasks, written, crashed>>

(* The environment: the server closes a connection. *)
ServerCloses(t) ==
  /\ NetMayFail
  /\ conn[t] = "up"
  /\ conn' = [conn EXCEPT ![t] = "closed"]
  /\ UNCHANGED <<client, main, check, startVars, clientVars, dogVars, sendVars, crashed>>

-----------------------------------------------------------------------------
StartThreadStep(t) ==
  \/ AssignClient(t)
  \/ CallStart(t)
  \/ CallStartNull(t)
  \/ Connects(t)
  \/ ConnectFails(t)
  \/ RunClient(t)

KeepAliveStep(t) ==
  \/ KeepAliveSends(t)
  \/ KeepAliveThrows(t)
  \/ KeepAliveEnds(t)

ExecutorStep ==
  \/ ExecutorTakes
  \/ ExecutorWrites
  \/ ExecutorLoses

Next ==
  /\ ~crashed
  /\ \/ Start
     \/ sendMessage
     \/ sopTcpConnect
     \/ sopForgets
     \/ CheckStep
     \/ ExecutorStep
     \/ \E t \in Thread :
          \/ StartThreadStep(t)
          \/ KeepAliveStep(t)
          \/ ReceiveThrows(t)
          \/ ReceiveEnds(t)
          \/ ServerCloses(t)

Spec == Init /\ [][Next]_vars

(* A watchdog that can go on goes on, and a minute passes.  Nothing else has to
   happen: nobody has to call the manager, no message has to be written, no
   attempt has to end and no connection has to break. *)
Fairness ==
  \A t \in Thread :
    /\ WF_vars(~crashed /\ KeepAliveStep(t))
    /\ WF_vars(~crashed /\ ReceiveEnds(t))

FairSpec == Spec /\ Fairness

-----------------------------------------------------------------------------
(* The watchdogs use the socket of a running client without a test: a client
   never runs before it has a socket, however starts and stops interleave. *)
RunningHasSocket == \A c \in Thread : running[c] => socket[c] # None

(* Messages reach the server in the order in which sendMessage() was called,
   none twice, across any number of reconnections. *)
SentInOrder ==
  /\ \A i, j \in 1..Len(written) : i < j => written[i] < written[j]
  /\ \A i \in 1..Len(written) :
       /\ written[i] \notin lost
       /\ \A j \in 1..Len(tasks) : written[i] < tasks[j]

(* A client whose connection the server closed does not run for ever: the
   keep-alive finds out, so that the next sendMessage() reconnects. *)
Broken(c) == running[c] /\ socket[c] # None /\ conn[socket[c]] \in {"closed", "reset"}
DeadIsNoticed == \A c \in Thread : Broken(c) ~> (~Broken(c) \/ crashed)

(* The watchdogs of a client that was stopped end, unless it runs again. *)
Dismissed(t) ==
  /\ keepAlive[t] = "alive" \/ receive[t] = "alive"
  /\ target[t] # None
  /\ ~running[target[t]]
WatchDogsEnd == \A t \in Thread : Dismissed(t) ~> (~Dismissed(t) \/ crashed)

(* A null reference is met only because a client was stopped: neither a thread
   that starts the client it has just assigned nor the wifi check that has just
   tested for one finds null before sopTcpConnect() was called. *)
NullNeedsStop == (crashed \/ check = "gone") => main # "idle"

(* The messages the executor has not dealt with: those that wait, and the one
   in its hands. *)
Pending == Len(tasks) + (IF sending = Idle THEN 0 ELSE 1)

(* Through all reconnections the manager is the queue that sendMessage()
   promises: every message is dealt with in its turn, and then it is written
   once or its exception was printed. *)
Queue == INSTANCE MessageQueue WITH settled <- submitted - Pending
ImplementsMessageQueue == Queue!Spec

(* No message is forgotten, and none is both written and given up: those
   dealt with are the ones written and the ones lost. *)
NoneForgotten ==
  LET sent == {written[i] : i \in DOMAIN written} IN
  /\ sent \cup lost = 1..(submitted - Pending)
  /\ sent \cap lost = {}
=============================================================================
