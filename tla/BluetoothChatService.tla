------------------------- MODULE BluetoothChatService -------------------------
(***************************************************************************)
(* The Bluetooth session of the tracker and of the phone app               *)
(* (BluetoothChatService.java, the same class in both programs).           *)
(*                                                                         *)
(* The object owns a state, four thread references and a Handler.  Its     *)
(* methods are called by the UI thread, by two AcceptThreads, by a         *)
(* ConnectThread and by a ConnectedThread, and are `synchronized' except   *)
(* where a thread works on its own socket.  A synchronized method is one   *)
(* action; a thread's run() is one action per stretch between two          *)
(* blocking calls or lock operations.                                      *)
(*                                                                         *)
(* A socket and the thread that serves it have the same life: run() of a   *)
(* ConnectThread ends with the call of connected(), which starts the       *)
(* ConnectedThread of the same socket.  So one program counter pc[s] per   *)
(* socket s stands for both threads.  Identities of ended threads are      *)
(* reused, which bounds the threads alive at a time and not the number of  *)
(* sessions.                                                               *)
(***************************************************************************)
EXTENDS Naturals, Sequences

CONSTANTS
  Socket,          \* identities of BluetoothSockets (and their threads)
  AcceptThreads,   \* identities of AcceptThreads (and their server sockets)
  Device,          \* remote Bluetooth devices
  Remote,          \* Remote[s]: the device at the other end of s
  None,            \* Java's null
  ListenMayFail,   \* opening a server or client socket may throw
  AcceptMayFail    \* accept() may throw although nobody cancelled it

ASSUME NoneAssumption == None \notin Socket /\ None \notin AcceptThreads
ASSUME RemoteAssumption == Remote \in [Socket -> Device]
ASSUME FaultAssumption == ListenMayFail \in BOOLEAN /\ AcceptMayFail \in BOOLEAN

VARIABLES
  mState,            \* mState
  mConnectThread,    \* mConnectThread, named by its socket
  mConnectedThread,  \* mConnectedThread, named by its socket
  mAcceptThread,     \* mSecureAcceptThread and mInsecureAcceptThread
  accPc,             \* where each AcceptThread is in run()
  accServer,         \* each AcceptThread's mmServerSocket
  accSocket,         \* the local `socket' of each AcceptThread
  pc,                \* where the ConnectThread or ConnectedThread of a socket is
  sock,              \* the state of each BluetoothSocket
  lock,              \* the socket whose connected() holds the monitor, or None
  r,                 \* write()'s local copy of mConnectedThread
  writing,           \* the UI thread is between the two halves of write()
  crashed,           \* an uncaught NullPointerException killed the process
  out                \* the messages the last step gave to mHandler

threadVars == <<mState, mConnectThread, mConnectedThread, mAcceptThread>>
accVars == <<accPc, accServer, accSocket>>
sockVars == <<pc, sock>>
uiVars == <<r, writing>>
vars == <<threadVars, accVars, sockVars, uiVars, lock, crashed, out>>

State == {"NONE", "LISTEN", "CONNECTING", "CONNECTED"}
SocketType == {"Secure", "Insecure"}

\* The messages for the Handler; what a message carries is `arg'.
StateChange(st) == [what |-> "STATE_CHANGE", arg |-> st]
DeviceName(d) == [what |-> "DEVICE_NAME", arg |-> d]
Toast(text) == [what |-> "TOAST", arg |-> text]
Read(s) == [what |-> "READ", arg |-> s]
Write(s) == [what |-> "WRITE", arg |-> s]

Message == {StateChange(st) : st \in State} \cup {DeviceName(d) : d \in Device}
           \cup {Toast(x) : x \in {"failed", "lost"}}
           \cup {Read(s) : s \in Socket} \cup {Write(s) : s \in Socket}

\* The local end of s has not been closed and a connection was made on it.
Open(s) == sock[s] \in {"up", "lost"}

\* s can be the identity of a new BluetoothSocket.
Fresh(s) == pc[s] = "free" /\ r # s

-----------------------------------------------------------------------------
TypeOK ==
  /\ mState \in State
  /\ mConnectThread \in Socket \cup {None}
  /\ mConnectedThread \in Socket \cup {None}
  /\ mAcceptThread \in [SocketType -> AcceptThreads \cup {None}]
  /\ accPc \in [AcceptThreads -> {"free", "loop", "accept", "accepted", "serving"}]
  /\ accServer \in [AcceptThreads -> {"open", "closed", "null"}]
  /\ accSocket \in [AcceptThreads -> Socket \cup {None}]
  /\ pc \in [Socket -> {"free", "connecting", "opened", "handover", "failed",
                        "accepted", "reading", "lost", "restart"}]
  /\ sock \in [Socket -> {"unconnected", "up", "lost", "closed", "null"}]
  /\ lock \in Socket \cup {None}
  /\ r \in Socket \cup {None}
  /\ writing \in BOOLEAN
  /\ crashed \in BOOLEAN
  /\ out \in Seq(Message)

Init ==
  /\ mState = "NONE"
  /\ mConnectThread = None
  /\ mConnectedThread = None
  /\ mAcceptThread = [k \in SocketType |-> None]
  /\ accPc = [a \in AcceptThreads |-> "free"]
  /\ accServer = [a \in AcceptThreads |-> "closed"]
  /\ accSocket = [a \in AcceptThreads |-> None]
  /\ pc = [s \in Socket |-> "free"]
  /\ sock = [s \in Socket |-> "closed"]
  /\ lock = None
  /\ r = None
  /\ writing = FALSE
  /\ crashed = FALSE
  /\ out = << >>

-----------------------------------------------------------------------------
(* cancel() of a ConnectThread or a ConnectedThread closes its socket.  On a
   thread whose socket could not be created it throws. *)
Cancelled == {mConnectThread, mConnectedThread} \cap Socket
(* Mutants: only an attempt is cancelled, a connection stays open; the other way
   round. *)
SocketsCancelled_attempt ==
  [s \in Socket |-> IF s = mConnectThread THEN "closed" ELSE sock[s]]
SocketsCancelled_connection ==
  [s \in Socket |-> IF s = mConnectedThread THEN "closed" ELSE sock[s]]
SocketsCancelled ==
  [s \in Socket |-> IF s \in Cancelled THEN "closed" ELSE sock[s]]
CancelThrows == \E s \in Cancelled : sock[s] = "null"

(* cancel() of the two AcceptThreads closes their server sockets. *)
AcceptCancelled == {a \in AcceptThreads : \E k \in SocketType : mAcceptThread[k] = a}
ServersCancelled ==
  [a \in AcceptThreads |-> IF a \in AcceptCancelled THEN "closed" ELSE accServer[a]]
AcceptCancelThrows == \E a \in AcceptCancelled : accServer[a] = "null"

(* start(): drop both connection threads, enter LISTEN, and create the
   AcceptThreads that are missing.  `new' is the value of the two references
   afterwards, `opened' says which server sockets could be opened. *)
Missing == {k \in SocketType : mAcceptThread[k] = None}
start(msgs, new, opened) ==
  /\ lock = None
  /\ \A k \in SocketType \ Missing : new[k] = mAcceptThread[k]
  /\ \A k \in Missing : accPc[new[k]] = "free"
  /\ new["Secure"] # new["Insecure"]
  /\ ListenMayFail \/ opened = Missing
  /\ mConnectThread' = None
  /\ mConnectedThread' = None
  /\ sock' = SocketsCancelled
  /\ crashed' = CancelThrows
  /\ mState' = "LISTEN"
  /\ out' = Append(msgs, StateChange("LISTEN"))
  /\ mAcceptThread' = new
  /\ accPc' = [a \in AcceptThreads |->
       IF \E k \in Missing : a = new[k] THEN "loop" ELSE accPc[a]]
  /\ accServer' = [a \in AcceptThreads |->
       IF \E k \in opened : a = new[k] THEN "open"
       ELSE IF \E k \in Missing : a = new[k] THEN "null" ELSE accServer[a]]
  /\ UNCHANGED <<accSocket, lock>>

startSome(msgs) ==
  \E new \in [SocketType -> AcceptThreads], opened \in SUBSET Missing :
    start(msgs, new, opened)

(* Mutants of connected(): a replaced connection is not cancelled; the cancelled
   AcceptThreads stay referenced. *)
connected_keepsOld(s) ==
  /\ lock = None /\ lock' = s
  /\ mConnectThread' = None /\ mConnectedThread' = s
  /\ mAcceptThread' = [k \in SocketType |-> None]
  /\ accServer' = ServersCancelled
  /\ sock' = [t \in Socket |-> IF t = mConnectThread THEN "closed" ELSE sock[t]]
  /\ pc' = [pc EXCEPT ![s] = "reading"]
  /\ crashed' = (CancelThrows \/ AcceptCancelThrows)
  /\ out' = << >>
  /\ UNCHANGED mState

connected_keepsListeners(s) ==
  /\ lock = None /\ lock' = s
  /\ mConnectThread' = None /\ mConnectedThread' = s
  /\ accServer' = ServersCancelled /\ sock' = SocketsCancelled
  /\ pc' = [pc EXCEPT ![s] = "reading"]
  /\ crashed' = (CancelThrows \/ AcceptCancelThrows)
  /\ out' = << >>
  /\ UNCHANGED <<mState, mAcceptThread>>

(* connected(socket, device): drop every other thread and start the
   ConnectedThread of this socket.  That thread runs from here on, so the
   monitor is kept in `lock' until the rest of the method is done. *)
connected(s) ==
  /\ lock = None
  /\ lock' = s
  /\ mConnectThread' = None
  /\ mConnectedThread' = s
  /\ mAcceptThread' = [k \in SocketType |-> None]
  /\ accServer' = ServersCancelled
  /\ sock' = SocketsCancelled
  /\ pc' = [pc EXCEPT ![s] = "reading"]
  /\ crashed' = (CancelThrows \/ AcceptCancelThrows)
  /\ out' = << >>
  /\ UNCHANGED mState

(* Mutant: the state is posted before the name. *)
connectedPosts_stateFirst ==
  /\ lock # None /\ lock' = None
  /\ mState' = "CONNECTED"
  /\ out' = <<StateChange("CONNECTED"), DeviceName(Remote[lock])>>
  /\ accPc' = [a \in AcceptThreads |-> IF accPc[a] = "serving" THEN "loop" ELSE accPc[a]]
  /\ UNCHANGED <<mConnectThread, mConnectedThread, mAcceptThread, accServer, accSocket,
                 sockVars, uiVars, crashed>>

(* The rest of connected(): the device's name goes to the Handler before the
   new state; an AcceptThread that made the call returns to its loop. *)
connectedPosts ==
  /\ lock # None
  /\ lock' = None
  /\ mState' = "CONNECTED"
  /\ out' = <<DeviceName(Remote[lock]), StateChange("CONNECTED")>>
  /\ accPc' = [a \in AcceptThreads |-> IF accPc[a] = "serving" THEN "loop" ELSE accPc[a]]
  /\ UNCHANGED <<mConnectThread, mConnectedThread, mAcceptThread, accServer, accSocket,
                 sockVars, uiVars, crashed>>

-----------------------------------------------------------------------------
(* The UI thread.  It makes one call at a time. *)

UserStart ==
  /\ ~writing
  /\ startSome(<< >>)
  /\ UNCHANGED <<pc, uiVars>>

UserConnect(s) ==
  /\ ~writing
  /\ lock = None
  /\ Fresh(s)
  /\ \E created \in {"unconnected", "null"} :
       /\ ListenMayFail \/ created = "unconnected"
       /\ LET closing == {mConnectedThread} \cup
                         (IF mState = "CONNECTING" THEN {mConnectThread} ELSE {})
          IN  /\ sock' = [t \in Socket |-> IF t = s THEN created
                          ELSE IF t \in closing THEN "closed" ELSE sock[t]]
              /\ crashed' = \E t \in closing \cap Socket : sock[t] = "null"
  /\ mConnectedThread' = None
  /\ mConnectThread' = s
  /\ pc' = [pc EXCEPT ![s] = "connecting"]
  /\ mState' = "CONNECTING"
  /\ out' = <<StateChange("CONNECTING")>>
  /\ UNCHANGED <<mAcceptThread, accVars, uiVars, lock>>

(* Mutant: the ConnectedThread stays referenced. *)
UserStop_keepsThread ==
  /\ ~writing /\ lock = None
  /\ mConnectThread' = None /\ UNCHANGED mConnectedThread
  /\ mAcceptThread' = [k \in SocketType |-> None]
  /\ accServer' = ServersCancelled /\ sock' = SocketsCancelled
  /\ crashed' = (CancelThrows \/ AcceptCancelThrows)
  /\ mState' = "NONE" /\ out' = <<StateChange("NONE")>>
  /\ UNCHANGED <<accPc, accSocket, pc, uiVars, lock>>

UserStop ==
  /\ ~writing
  /\ lock = None
  /\ mConnectThread' = None
  /\ mConnectedThread' = None
  /\ mAcceptThread' = [k \in SocketType |-> None]
  /\ accServer' = ServersCancelled
  /\ sock' = SocketsCancelled
  /\ crashed' = (CancelThrows \/ AcceptCancelThrows)
  /\ mState' = "NONE"
  /\ out' = <<StateChange("NONE")>>
  /\ UNCHANGED <<accPc, accSocket, pc, uiVars, lock>>

(* Mutant: write() does not test the state. *)
WriteCopy_unchecked ==
  /\ ~writing /\ lock = None
  /\ r' = mConnectedThread /\ writing' = TRUE
  /\ out' = << >>
  /\ UNCHANGED <<threadVars, accVars, sockVars, lock, crashed>>

(* write(): copy the ConnectedThread under the lock ... *)
WriteCopy ==
  /\ ~writing
  /\ lock = None
  /\ mState = "CONNECTED"
  /\ r' = mConnectedThread
  /\ writing' = TRUE
  /\ out' = << >>
  /\ UNCHANGED <<threadVars, accVars, sockVars, lock, crashed>>

(* ... and write without it.  On a socket that is no longer up the write may
   fail; the IOException is swallowed. *)
WriteOut ==
  /\ writing
  /\ writing' = FALSE
  /\ r' = None
  /\ crashed' = (r = None)
  /\ out' \in IF r = None THEN {<< >>}
              ELSE IF Open(r) THEN {<<Write(r)>>, << >>} ELSE {<< >>}
  /\ UNCHANGED <<threadVars, accVars, sockVars, lock>>

-----------------------------------------------------------------------------
(* AcceptThread.run().  The test of mState is made without the lock; a stale
   value is the value of an earlier moment of the same iteration, which the
   interleaving already provides. *)

AcceptEnds(a) ==
  /\ accPc' = [accPc EXCEPT ![a] = "free"]
  /\ out' = << >>
  /\ UNCHANGED <<threadVars, accServer, accSocket, sockVars, uiVars, lock, crashed>>

AcceptLoop(a) ==
  /\ accPc[a] = "loop"
  /\ mState # "CONNECTED"
  /\ accPc' = [accPc EXCEPT ![a] = "accept"]
  /\ out' = << >>
  /\ UNCHANGED <<threadVars, accServer, accSocket, sockVars, uiVars, lock, crashed>>

AcceptLeaves(a) ==
  /\ accPc[a] = "loop"
  /\ mState = "CONNECTED"
  /\ AcceptEnds(a)

(* accept() returns the socket s of a device that connected *)
Accept(a, s) ==
  /\ accPc[a] = "accept"
  /\ accServer[a] = "open"
  /\ Fresh(s)
  /\ accPc' = [accPc EXCEPT ![a] = "accepted"]
  /\ accSocket' = [accSocket EXCEPT ![a] = s]
  /\ pc' = [pc EXCEPT ![s] = "accepted"]
  /\ sock' = [sock EXCEPT ![s] = "up"]
  /\ out' = << >>
  /\ UNCHANGED <<threadVars, accServer, uiVars, lock, crashed>>

(* Mutant: after an exception the loop goes on. *)
AcceptCancelledExit_retries(a) ==
  /\ accPc[a] = "accept"
  /\ accServer[a] = "closed"
  /\ accPc' = [accPc EXCEPT ![a] = "loop"]
  /\ out' = << >>
  /\ UNCHANGED <<threadVars, accServer, accSocket, sockVars, uiVars, lock, crashed>>

(* accept() throws on a closed server socket; the loop is left and nothing is
   told to the service *)
AcceptCancelledExit(a) ==
  /\ accPc[a] = "accept"
  /\ accServer[a] = "closed"
  /\ AcceptEnds(a)

(* accept() throws although nobody cancelled: the adapter was switched off *)
AcceptFails(a) ==
  /\ AcceptMayFail
  /\ accPc[a] = "accept"
  /\ accServer[a] = "open"
  /\ AcceptEnds(a)

(* mmServerSocket is null: accept() cannot be called *)
AcceptNull(a) ==
  /\ accPc[a] = "accept"
  /\ accServer[a] = "null"
  /\ crashed' = TRUE
  /\ out' = << >>
  /\ UNCHANGED <<threadVars, accVars, sockVars, uiVars, lock>>

(* Mutant: no switch on mState. *)
AcceptServe_anyState(a) ==
  /\ accPc[a] = "accepted"
  /\ connected(accSocket[a])
  /\ accPc' = [accPc EXCEPT ![a] = "serving"]
  /\ accSocket' = [accSocket EXCEPT ![a] = None]
  /\ UNCHANGED uiVars

(* the synchronized switch on mState after accept() *)
AcceptServe(a) ==
  /\ accPc[a] = "accepted"
  /\ mState \in {"LISTEN", "CONNECTING"}
  /\ connected(accSocket[a])
  /\ accPc' = [accPc EXCEPT ![a] = "serving"]
  /\ accSocket' = [accSocket EXCEPT ![a] = None]
  /\ UNCHANGED uiVars

AcceptRefuse(a) ==
  /\ accPc[a] = "accepted"
  /\ lock = None
  /\ mState \in {"NONE", "CONNECTED"}
  /\ sock' = [sock EXCEPT ![accSocket[a]] = "closed"]
  /\ pc' = [pc EXCEPT ![accSocket[a]] = "free"]
  /\ accPc' = [accPc EXCEPT ![a] = "loop"]
  /\ accSocket' = [accSocket EXCEPT ![a] = None]
  /\ out' = << >>
  /\ UNCHANGED <<threadVars, accServer, uiVars, lock, crashed>>

-----------------------------------------------------------------------------
(* ConnectThread.run() *)

ConnectSucceeds(s) ==
  /\ pc[s] = "connecting"
  /\ sock[s] = "unconnected"
  /\ pc' = [pc EXCEPT ![s] = "opened"]
  /\ sock' = [sock EXCEPT ![s] = "up"]
  /\ out' = << >>
  /\ UNCHANGED <<threadVars, accVars, uiVars, lock, crashed>>

(* connect() throws, on its own or because cancel() closed the socket *)
ConnectFails(s) ==
  /\ pc[s] = "connecting"
  /\ sock[s] \in {"unconnected", "closed"}
  /\ pc' = [pc EXCEPT ![s] = "failed"]
  /\ sock' = [sock EXCEPT ![s] = "closed"]
  /\ out' = << >>
  /\ UNCHANGED <<threadVars, accVars, uiVars, lock, crashed>>

ConnectNull(s) ==
  /\ pc[s] = "connecting"
  /\ sock[s] = "null"
  /\ crashed' = TRUE
  /\ out' = << >>
  /\ UNCHANGED <<threadVars, accVars, sockVars, uiVars, lock>>

(* Mutant: connectionFailed() shows the toast and does not start over. *)
connectionFailed_noRestart(s) ==
  /\ pc[s] = "failed"
  /\ pc' = [pc EXCEPT ![s] = "free"]
  /\ out' = <<Toast("failed")>>
  /\ UNCHANGED <<threadVars, accVars, sock, uiVars, lock, crashed>>

(* connectionFailed(): a toast, then start().  The toast is posted before the
   lock is taken; it carries no state, so both are one step. *)
connectionFailed(s) ==
  /\ pc[s] = "failed"
  /\ startSome(<<Toast("failed")>>)
  /\ pc' = [pc EXCEPT ![s] = "free"]
  /\ UNCHANGED uiVars

(* "Reset the ConnectThread because we're done": whichever one it is *)
ConnectReset(s) ==
  /\ pc[s] = "opened"
  /\ lock = None
  /\ mConnectThread' = None
  /\ pc' = [pc EXCEPT ![s] = "handover"]
  /\ out' = << >>
  /\ UNCHANGED <<mState, mConnectedThread, mAcceptThread, accVars, sock, uiVars, lock, crashed>>

ConnectServe(s) ==
  /\ pc[s] = "handover"
  /\ connected(s)
  /\ UNCHANGED <<accPc, accSocket, uiVars>>

-----------------------------------------------------------------------------
(* ConnectedThread.run() *)

ReadData(s) ==
  /\ pc[s] = "reading"
  /\ sock[s] = "up"
  /\ out' = <<Read(s)>>
  /\ UNCHANGED <<threadVars, accVars, sockVars, uiVars, lock, crashed>>

(* Mutant: the loss of the link goes unnoticed, only cancel() is seen. *)
ReadThrows_onlyClosed(s) ==
  /\ pc[s] = "reading"
  /\ sock[s] = "closed"
  /\ pc' = [pc EXCEPT ![s] = "lost"]
  /\ out' = << >>
  /\ UNCHANGED <<threadVars, accVars, sock, uiVars, lock, crashed>>

(* read() throws: the link is gone or cancel() closed the socket *)
ReadThrows(s) ==
  /\ pc[s] = "reading"
  /\ sock[s] # "up"
  /\ pc' = [pc EXCEPT ![s] = "lost"]
  /\ out' = << >>
  /\ UNCHANGED <<threadVars, accVars, sock, uiVars, lock, crashed>>

connectionLost(s) ==
  /\ pc[s] = "lost"
  /\ startSome(<<Toast("lost")>>)
  /\ pc' = [pc EXCEPT ![s] = "restart"]
  /\ UNCHANGED uiVars

(* the second start(), made by run() itself after connectionLost() *)
Restart(s) ==
  /\ pc[s] = "restart"
  /\ startSome(<< >>)
  /\ pc' = [pc EXCEPT ![s] = "free"]
  /\ UNCHANGED uiVars

(* The environment: the remote device goes out of range. *)
LinkLost(s) ==
  /\ sock[s] = "up"
  /\ sock' = [sock EXCEPT ![s] = "lost"]
  /\ out' = << >>
  /\ UNCHANGED <<threadVars, accVars, pc, uiVars, lock, crashed>>

-----------------------------------------------------------------------------
UserStep ==
  \/ UserStart
  \/ UserStop
  \/ WriteCopy
  \/ WriteOut
  \/ \E s \in Socket : UserConnect(s)

AcceptThreadStep(a) ==
  \/ AcceptLoop(a)
  \/ AcceptLeaves(a)
  \/ AcceptCancelledExit(a)
  \/ AcceptNull(a)
  \/ AcceptServe(a)
  \/ AcceptRefuse(a)

ConnectThreadStep(s) ==
  \/ ConnectSucceeds(s)
  \/ ConnectFails(s)
  \/ ConnectNull(s)
  \/ connectionFailed(s)
  \/ ConnectReset(s)
  \/ ConnectServe(s)

ConnectedThreadStep(s) ==
  \/ ReadThrows(s)
  \/ connectionLost(s)
  \/ Restart(s)

EnvironmentStep ==
  \/ \E a \in AcceptThreads, s \in Socket : Accept(a, s)
  \/ \E a \in AcceptThreads : AcceptFails(a)
  \/ \E s \in Socket : ReadData(s)
  \/ \E s \in Socket : LinkLost(s)

Next ==
  /\ ~crashed
  /\ \/ UserStep
     \/ \E a \in AcceptThreads : AcceptThreadStep(a)
     \/ \E s \in Socket : ConnectThreadStep(s)
     \/ connectedPosts
     \/ \E s \in Socket : ConnectedThreadStep(s)
     \/ EnvironmentStep

Spec == Init /\ [][Next]_vars

(* The threads are scheduled by Android: a thread that can take its next step
   takes it.  Most steps enter the monitor, which others hold for a moment again
   and again, hence strong fairness: a thread that waits for the monitor gets it
   in the end.  Nothing makes the user, a remote device or the radio act. *)
Fairness ==
  /\ \A a \in AcceptThreads : SF_vars(~crashed /\ AcceptThreadStep(a))
  /\ \A s \in Socket : SF_vars(~crashed /\ ConnectThreadStep(s))
  /\ \A s \in Socket : SF_vars(~crashed /\ ConnectedThreadStep(s))
  /\ WF_vars(~crashed /\ connectedPosts)
  /\ WF_vars(~crashed /\ WriteOut)

FairSpec == Spec /\ Fairness

-----------------------------------------------------------------------------
(* What a caller that holds the monitor finds (write() dereferences the
   reference after testing only the state): CONNECTED goes with a
   ConnectedThread, and every other state with none. *)
ConnectedHasThread ==
  lock = None => (mState = "CONNECTED" <=> mConnectedThread # None)

(* A ConnectThread is referenced only in state CONNECTING, outside of which
   connect() overwrites the reference without cancelling the attempt. *)
AttemptIsCancellable == mConnectThread # None => mState = "CONNECTING"

(* An attempt under way that nobody cancelled keeps the reference by which stop(),
   start() and the next connect() cancel it, except in one way: another attempt
   has connected and resets mConnectThread without looking whose reference it is
   ("Reset the ConnectThread because we're done"). *)
OnlyResetOrphans ==
  [][\A s \in Socket :
       (/\ mConnectThread = s /\ mConnectThread' # s
        /\ pc[s] = "connecting" /\ sock'[s] = "unconnected")
       => \E t \in Socket \ {s} : pc[t] = "opened" /\ pc'[t] = "handover"]_vars

(* "We only want to connect to one device": a socket with a live connection is
   the one being served, or is still in the hands of the thread that made it.
   No replaced connection stays open behind the service's back. *)
OneConnection ==
  \A s \in Socket :
    Open(s) => s = mConnectedThread \/ pc[s] \in {"opened", "handover", "accepted"}

(* A connection that is served gives way to another one only if the service's
   own attempt made that one; a device that connects meanwhile is turned away
   ("Either not ready or already connected. Terminate new socket."), however
   its arrival falls between the two halves of connected(). *)
OnlyAttemptTakesOver ==
  [][mConnectedThread # None =>
       \/ mConnectedThread' \in {None, mConnectedThread}
       \/ pc[mConnectedThread'] = "handover"]_vars

(* In state LISTEN both AcceptThreads exist, run, and have an open server
   socket: a device that connects will be accepted. *)
ListenListens ==
  (mState = "LISTEN" /\ lock = None) =>
    \A k \in SocketType :
      /\ mAcceptThread[k] # None
      /\ accPc[mAcceptThread[k]] # "free"
      /\ accServer[mAcceptThread[k]] = "open"

(* An AcceptThread that ended by itself is missing until the next session only:
   whenever start() leads from NONE or CONNECTED to LISTEN, both AcceptThreads
   are new, because connected() and stop() dropped the references to the old. *)
ListenersRenewed ==
  [][(mState \in {"NONE", "CONNECTED"} /\ mState' = "LISTEN") =>
       \A k \in SocketType :
         mAcceptThread'[k] # None /\ accPc'[mAcceptThread'[k]] = "loop"]_vars

(* The process dies of a null reference only if a socket could not be created:
   neither write()'s unsynchronized use of the ConnectedThread nor a cancel()
   of a thread that ended ever meets one. *)
NoNullReference == crashed => ListenMayFail

(* A connection whose link is gone does not stay the current one: read()
   throws and the service goes back to listening. *)
LossIsNoticed ==
  \A s \in Socket :
    (mConnectedThread = s /\ sock[s] = "lost") ~> (mConnectedThread # s \/ crashed)

(* An outgoing attempt comes to an end: CONNECTING is left, whether the attempt
   succeeds, fails, or is overtaken by an incoming connection. *)
AttemptResolves == (mState = "CONNECTING") ~> (mState # "CONNECTING" \/ crashed)

(* Every thread that was cancelled ends. *)
CancelledThreadsEnd ==
  /\ \A s \in Socket : (sock[s] = "closed") ~> (pc[s] = "free" \/ crashed)
  /\ \A a \in AcceptThreads : (accServer[a] = "closed") ~> (accPc[a] = "free" \/ crashed)

-----------------------------------------------------------------------------
(* The inductive invariant behind the safety properties, by parts. *)

(* references to connection threads name threads that are where they should be *)
ReferencesFit ==
  /\ mConnectThread # None => pc[mConnectThread] \in {"connecting", "opened", "failed"}
  /\ mConnectedThread # None => pc[mConnectedThread] \in {"reading", "lost"}
  /\ lock # None => /\ mConnectedThread = lock
                    /\ mConnectThread = None
                    /\ \A k \in SocketType : mAcceptThread[k] = None

(* a socket is as open as its thread's position says *)
SocketsFit ==
  \A s \in Socket :
    /\ pc[s] \in {"free", "failed", "restart"} => sock[s] = "closed"
    /\ pc[s] \in {"reading", "lost"} /\ s # mConnectedThread => sock[s] = "closed"
    /\ pc[s] = "connecting" => sock[s] \in {"unconnected", "closed", "null"}
    /\ sock[s] = "null" => pc[s] = "connecting" /\ ListenMayFail

(* each accepted socket is held by one AcceptThread *)
AcceptedFit ==
  /\ \A a \in AcceptThreads : accPc[a] = "accepted" =>
       accSocket[a] \in Socket /\ pc[accSocket[a]] = "accepted"
  /\ \A a, b \in AcceptThreads :
       (accPc[a] = "accepted" /\ accPc[b] = "accepted" /\ accSocket[a] = accSocket[b]) => a = b

(* the references to AcceptThreads are distinct, not cancelled, and only set
   while the service listens or connects; in LISTEN both are set *)
ListenersFit ==
  /\ \A k \in SocketType : mAcceptThread[k] # None =>
       /\ mState \in {"LISTEN", "CONNECTING"}
       /\ accServer[mAcceptThread[k]] # "closed"
       /\ accPc[mAcceptThread[k]] = "free" => AcceptMayFail
  /\ (mState = "LISTEN" /\ lock = None) => \A k \in SocketType : mAcceptThread[k] # None
  /\ \A a \in AcceptThreads : accServer[a] = "null" => ListenMayFail

Inductive ==
  /\ TypeOK
  /\ ConnectedHasThread
  /\ AttemptIsCancellable
  /\ ReferencesFit
  /\ SocketsFit
  /\ AcceptedFit
  /\ ListenersFit
  /\ writing => r # None
  /\ NoNullReference
=============================================================================
