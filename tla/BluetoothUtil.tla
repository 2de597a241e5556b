---------------------------- MODULE BluetoothUtil ----------------------------
(***************************************************************************)
(* The tracker's side of the Bluetooth session: BluetoothUtil.java creates *)
(* the BluetoothChatService, hands it a Handler of the UI thread, starts   *)
(* and stops it, and answers what the phone sends.  This module composes   *)
(* BluetoothChatService with the Handler's message queue: what a step of   *)
(* the service leaves in `out' is appended to the queue, and the UI thread *)
(* handles the queue in order, between its own calls.                      *)
(*                                                                         *)
(* The tracker never calls connect(), so there is no ConnectThread here.   *)
(***************************************************************************)
EXTENDS BluetoothChatService

CONSTANTS
  Chunk,      \* what one read() of a connection can return
  MaxQueue    \* bound: the user and the phones act only while fewer messages wait

ASSUME MaxQueueAssumption == MaxQueue \in Nat

VARIABLES
  queue,                 \* the Looper's messages; a READ remembers what was read
  buffer,                \* the byte[1024] of each ConnectedThread
  filled,                \* the connections whose read() returned, before the READ is sent
  mConnectedDeviceName,  \* mConnectedDeviceName
  listener,              \* the last connection event told to bluetoothListener
  asker                  \* the connection whose READ parseData() is answering, or None

utilVars == <<queue, buffer, filled, mConnectedDeviceName, listener, asker>>
allVars == <<vars, utilVars>>

NoEvent == [event |-> "none", name |-> None]

UtilTypeOK ==
  /\ TypeOK
  /\ queue \in Seq([msg : Message, read : Chunk \cup {None}])
  /\ buffer \in [Socket -> Chunk \cup {None}]
  /\ mConnectedDeviceName \in Device \cup {None}
  /\ listener \in [event : {"none", "conntected", "conntecting", "disConntectd"},
                   name : Device \cup {None}]
  /\ filled \subseteq Socket
  /\ asker \in Socket \cup {None}

UtilInit ==
  /\ Init
  /\ queue = << >>
  /\ buffer = [s \in Socket |-> None]
  /\ mConnectedDeviceName = None
  /\ listener = NoEvent
  /\ filled = {}
  /\ asker = None

(* sendToTarget(): the step's messages join the queue.  All of them but READ
   carry their data; READ carries a reference to the thread's buffer. *)
Posted(read) ==
  queue' = queue \o [i \in DOMAIN out' |-> [msg |-> out'[i], read |-> read]]

(* The bound is on what comes from outside: a thread is never held up by it. *)
Room == Len(queue) < MaxQueue

(* A socket identity is taken again only when no message refers to its
   buffer and no command of it is being answered; a new ConnectedThread has a
   new buffer. *)
IdentitiesUnused ==
  \A s \in Socket :
    (pc[s] = "free" /\ pc'[s] # "free") =>
       s # asker /\ \A i \in DOMAIN queue : queue[i].msg # Read(s)

-----------------------------------------------------------------------------
(* The UI thread between two messages: start() and stop() *)
UtilStart ==
  /\ asker = None
  /\ Room
  /\ UserStart
  /\ Posted(None)
  /\ UNCHANGED <<buffer, filled, mConnectedDeviceName, listener, asker>>

UtilStop ==
  /\ asker = None
  /\ Room
  /\ UserStop
  /\ Posted(None)
  /\ UNCHANGED <<buffer, filled, mConnectedDeviceName, listener, asker>>

(* sendMessage(): the answer goes to whatever connection is current now.
   getState() and write() both test the state; the later test decides. *)
SendDropped ==
  /\ asker # None
  /\ ~writing
  /\ lock = None
  /\ mState # "CONNECTED"
  /\ asker' = None
  /\ UNCHANGED <<vars, queue, buffer, filled, mConnectedDeviceName, listener>>

SendCopies ==
  /\ asker # None
  /\ WriteCopy
  /\ UNCHANGED utilVars

SendWrites ==
  /\ WriteOut
  /\ Posted(None)
  /\ asker' = None
  /\ UNCHANGED <<buffer, filled, mConnectedDeviceName, listener>>

(* handleMessage(): one case per kind of message *)
Told(state) ==
  CASE state = "CONNECTED"  -> [event |-> "conntected", name |-> mConnectedDeviceName]
    [] state = "CONNECTING" -> [event |-> "conntecting", name |-> mConnectedDeviceName]
    [] OTHER                -> [event |-> "disConntectd", name |-> mConnectedDeviceName]

Handles(what) ==
  /\ asker = None
  /\ ~writing
  /\ queue # << >>
  /\ Head(queue).msg.what = what
  /\ queue' = Tail(queue)
  /\ out' = << >>
  /\ UNCHANGED <<threadVars, accVars, sockVars, uiVars, lock, crashed, buffer, filled>>

HandleStateChange ==
  /\ Handles("STATE_CHANGE")
  /\ listener' = Told(Head(queue).msg.arg)
  /\ UNCHANGED <<mConnectedDeviceName, asker>>

(* Mutant: the message is stored, not the name in it. *)
HandleDeviceName_raw ==
  /\ Handles("DEVICE_NAME")
  /\ mConnectedDeviceName' = Head(queue).msg
  /\ UNCHANGED <<listener, asker>>

HandleDeviceName ==
  /\ Handles("DEVICE_NAME")
  /\ mConnectedDeviceName' = Head(queue).msg.arg
  /\ UNCHANGED <<listener, asker>>

(* parseData() answers the commands it understands. *)
HandleRead ==
  /\ Handles("READ")
  /\ asker' \in {Head(queue).msg.arg, None}
  /\ UNCHANGED <<mConnectedDeviceName, listener>>

HandleWriteOrToast ==
  /\ Handles("WRITE") \/ Handles("TOAST")
  /\ UNCHANGED <<mConnectedDeviceName, listener, asker>>

-----------------------------------------------------------------------------
(* The threads of the service *)
(* Mutant: all the threads read into one buffer. *)
ReadInto_shared(s, c) ==
  /\ Room /\ s \notin filled /\ pc[s] = "reading" /\ sock[s] = "up"
  /\ buffer' = [t \in Socket |-> c] /\ filled' = filled \cup {s}
  /\ UNCHANGED <<vars, queue, mConnectedDeviceName, listener, asker>>

(* read() puts what arrived into the thread's buffer ... *)
ReadInto(s, c) ==
  /\ Room
  /\ s \notin filled
  /\ pc[s] = "reading"
  /\ sock[s] = "up"
  /\ buffer' = [buffer EXCEPT ![s] = c]
  /\ filled' = filled \cup {s}
  /\ UNCHANGED <<vars, queue, mConnectedDeviceName, listener, asker>>

(* ... and a READ that refers to the buffer is sent, whatever became of the
   connection since. *)
ReadSent(s) ==
  /\ s \in filled
  /\ filled' = filled \ {s}
  /\ out' = <<Read(s)>>
  /\ Posted(buffer[s])
  /\ UNCHANGED <<threadVars, accVars, sockVars, uiVars, lock, crashed,
                 buffer, mConnectedDeviceName, listener, asker>>

ThreadStep ==
  /\ \/ \E a \in AcceptThreads : AcceptThreadStep(a)
     \/ \E s \in Socket \ filled : ConnectedThreadStep(s)
     \/ \E a \in AcceptThreads, s \in Socket : Room /\ Accept(a, s)
     \/ \E s \in Socket : LinkLost(s)
     \/ connectedPosts
  /\ IdentitiesUnused
  /\ Posted(None)
  /\ UNCHANGED <<buffer, filled, mConnectedDeviceName, listener, asker>>

HandleMessage ==
  \/ HandleStateChange
  \/ HandleDeviceName
  \/ HandleRead
  \/ HandleWriteOrToast

UtilNext ==
  /\ ~crashed
  /\ \/ UtilStart
     \/ UtilStop
     \/ SendDropped
     \/ SendCopies
     \/ SendWrites
     \/ HandleMessage
     \/ \E s \in Socket, c \in Chunk : ReadInto(s, c)
     \/ \E s \in Socket : ReadSent(s)
     \/ ThreadStep

UtilSpec == UtilInit /\ [][UtilNext]_allVars

-----------------------------------------------------------------------------
(* When every message has been handled, the listener was last told about the
   state the service is in, and while connected under the name of the device
   the current connection goes to: no state change is reported late, out of
   order or under the name of an earlier device. *)
ListenerIsRight ==
  (queue = << >> /\ lock = None /\ mState # "NONE") =>
    /\ listener.event = (IF mState = "CONNECTED" THEN "conntected" ELSE "disConntectd")
    /\ mState = "CONNECTED" => listener.name = Remote[mConnectedThread]

(* A READ shows the bytes that were read unless its own thread has read again
   before it is handled: the buffers of two connections are never mixed up, and
   a buffer outlives its thread.  (A second read does change the bytes of a
   first one that still waits.) *)
LastReadIsIntact ==
  \A i \in DOMAIN queue :
    LET s == queue[i].msg.arg IN
    (/\ queue[i].msg.what = "READ"
     /\ s \notin filled
     /\ \A j \in DOMAIN queue : j > i => queue[j].msg # Read(s)) =>
       queue[i].read = buffer[s]

(* The answer to a command is written to another connection than the one the
   command came from only if that one has been closed: it is never sent past a
   phone that still waits for it. *)
AnswerFollowsAsker ==
  (writing /\ asker # None) => r = asker \/ ~Open(asker)

-----------------------------------------------------------------------------
(* To its callers the session is a TrackerSession.  The monitor that connected()
   holds hides the moment in which the new thread is set and the state is not. *)
Session == INSTANCE TrackerSession WITH
  Connection <- Socket,
  state <- mState,
  peer <- IF lock = None THEN mConnectedThread ELSE None

(* The two AcceptThreads, the threads that lost their connection (which start
   over twice) and the user, in any order, serve at most one connection at a
   time, and a new one only from LISTEN. *)
ImplementsSession == Session!Spec
=============================================================================
