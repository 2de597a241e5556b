--------------------- MODULE BluetoothChatService_proofs ---------------------
(***************************************************************************)
(* Proofs about BluetoothChatService for every set of sockets, threads and *)
(* devices: Inductive is an inductive invariant, and the safety properties *)
(* that the runs check follow from it.                                     *)
(***************************************************************************)
EXTENDS BluetoothChatService, TLAPS

(* Every message a step posts is a message the Handler knows. *)
LEMMA MessageTypes ==
  /\ \A st \in State : StateChange(st) \in Message
  /\ \A d \in Device : DeviceName(d) \in Message
  /\ Toast("failed") \in Message /\ Toast("lost") \in Message
  /\ \A s \in Socket : Read(s) \in Message /\ Write(s) \in Message
BY Zenon DEF Message

(* Posting nothing is a sequence of messages. *)
LEMMA NoMessages == << >> \in Seq(Message)
OBVIOUS

(* start() keeps the invariant, whoever calls it: the caller's own thread may
   move from one of its last positions to the next. *)
LEMMA StartStep ==
  ASSUME Inductive,
         NEW msgs \in Seq(Message), startSome(msgs), UNCHANGED uiVars,
         \/ pc' = pc
         \/ \E s \in Socket : pc[s] \in {"failed", "restart"} /\ pc' = [pc EXCEPT ![s] = "free"]
         \/ \E s \in Socket : pc[s] = "lost" /\ pc' = [pc EXCEPT ![s] = "restart"]
  PROVE  Inductive'
<1>1. PICK new \in [SocketType -> AcceptThreads], opened \in SUBSET Missing :
        start(msgs, new, opened)
  BY DEF startSome
<1> USE NoneAssumption, FaultAssumption DEF Inductive, start
<1>2. TypeOK'
  <2>1. out' \in Seq(Message)
    <3>1. StateChange("LISTEN") \in Message
      BY MessageTypes DEF State
    <3> QED BY <1>1, <3>1
  <2>2. pc' \in [Socket -> {"free", "connecting", "opened", "handover", "failed",
                        "accepted", "reading", "lost", "restart"}]
    BY DEF TypeOK
  <2>3. accPc' \in [AcceptThreads -> {"free", "loop", "accept", "accepted", "serving"}]
    BY <1>1 DEF TypeOK
  <2>4. accServer' \in [AcceptThreads -> {"open", "closed", "null"}]
    BY <1>1 DEF TypeOK
  <2>5. sock' \in [Socket -> {"unconnected", "up", "lost", "closed", "null"}]
    BY <1>1 DEF TypeOK, SocketsCancelled
  <2>6. mAcceptThread' \in [SocketType -> AcceptThreads \cup {None}]
    BY <1>1
  <2> QED BY <1>1, <2>1, <2>2, <2>3, <2>4, <2>5, <2>6 DEF TypeOK, State, uiVars, CancelThrows
<1>3. ConnectedHasThread' /\ AttemptIsCancellable'
  BY <1>1 DEF ConnectedHasThread, AttemptIsCancellable
<1>4. ReferencesFit'
  BY <1>1 DEF ReferencesFit, TypeOK
<1>5. SocketsFit'
  BY <1>1 DEF SocketsFit, ReferencesFit, TypeOK, SocketsCancelled, Cancelled
<1>6. AcceptedFit'
  BY <1>1 DEF AcceptedFit, TypeOK
<1>7. ListenersFit'
  BY <1>1 DEF ListenersFit, TypeOK, Missing
<1>8. (writing => r # None)' /\ NoNullReference'
  BY <1>1 DEF uiVars, NoNullReference, CancelThrows, Cancelled, SocketsFit
<1> QED BY <1>2, <1>3, <1>4, <1>5, <1>6, <1>7, <1>8

(* The first half of connected() keeps the invariant: its caller is the
   ConnectThread or the AcceptThread that holds the new socket. *)
LEMMA ConnectedStep ==
  ASSUME Inductive, NEW s \in Socket, connected(s), UNCHANGED uiVars,
         pc[s] \in {"handover", "accepted"},
         \/ UNCHANGED <<accPc, accSocket>> /\ pc[s] = "handover"
         \/ \E a \in AcceptThreads :
              /\ accPc[a] = "accepted" /\ accSocket[a] = s
              /\ accPc' = [accPc EXCEPT ![a] = "serving"]
              /\ accSocket' = [accSocket EXCEPT ![a] = None]
  PROVE  Inductive'
<1> USE NoneAssumption, FaultAssumption DEF Inductive, connected
<1>1. TypeOK'
  <2>1. out' \in Seq(Message)
    OBVIOUS
  <2>2. accPc' \in [AcceptThreads -> {"free", "loop", "accept", "accepted", "serving"}]
        /\ accSocket' \in [AcceptThreads -> Socket \cup {None}]
    BY DEF TypeOK
  <2>3. accServer' \in [AcceptThreads -> {"open", "closed", "null"}]
    BY DEF TypeOK, ServersCancelled
  <2>4. sock' \in [Socket -> {"unconnected", "up", "lost", "closed", "null"}]
    BY DEF TypeOK, SocketsCancelled
  <2> QED
    BY <2>1, <2>2, <2>3, <2>4 DEF TypeOK, uiVars, CancelThrows, AcceptCancelThrows
<1>2. ConnectedHasThread' /\ AttemptIsCancellable'
  BY DEF ConnectedHasThread, AttemptIsCancellable
<1>3. ReferencesFit'
  BY DEF ReferencesFit, TypeOK, SocketType
<1>4. SocketsFit'
  BY DEF SocketsFit, ReferencesFit, TypeOK, SocketsCancelled, Cancelled
<1>5. AcceptedFit'
  BY DEF AcceptedFit, TypeOK
<1>6. ListenersFit'
  BY DEF ListenersFit, TypeOK, ServersCancelled
<1>7. (writing => r # None)' /\ NoNullReference'
  BY DEF uiVars, NoNullReference, CancelThrows, Cancelled, SocketsFit,
     AcceptCancelThrows, AcceptCancelled, ListenersFit
<1> QED BY <1>1, <1>2, <1>3, <1>4, <1>5, <1>6, <1>7

(* The initial state satisfies the invariant. *)
LEMMA InitInductive == Init => Inductive
<1> SUFFICES ASSUME Init PROVE Inductive
  OBVIOUS
<1> USE NoneAssumption, FaultAssumption DEF Init
<1>1. TypeOK
  <2>1. mState \in State /\ writing \in BOOLEAN /\ crashed \in BOOLEAN
    BY DEF State
  <2>2. mAcceptThread \in [SocketType -> AcceptThreads \cup {None}]
    OBVIOUS
  <2>3. /\ accPc \in [AcceptThreads -> {"free", "loop", "accept", "accepted", "serving"}]
        /\ accServer \in [AcceptThreads -> {"open", "closed", "null"}]
        /\ accSocket \in [AcceptThreads -> Socket \cup {None}]
    OBVIOUS
  <2>4. /\ pc \in [Socket -> {"free", "connecting", "opened", "handover", "failed",
                              "accepted", "reading", "lost", "restart"}]
        /\ sock \in [Socket -> {"unconnected", "up", "lost", "closed", "null"}]
    OBVIOUS
  <2> QED BY <2>1, <2>2, <2>3, <2>4, NoMessages DEF TypeOK
<1>2. ConnectedHasThread /\ AttemptIsCancellable /\ ReferencesFit
  BY DEF ConnectedHasThread, AttemptIsCancellable, ReferencesFit
<1>3. SocketsFit /\ AcceptedFit /\ ListenersFit /\ NoNullReference
  BY DEF SocketsFit, AcceptedFit, ListenersFit, NoNullReference
<1> QED BY <1>1, <1>2, <1>3 DEF Inductive

(* Every step of the UI thread keeps the invariant. *)
LEMMA UserStepInductive ==
  ASSUME Inductive, ~crashed, UserStep
  PROVE  Inductive'
<1> USE NoneAssumption, FaultAssumption
<1>1. CASE UserStart
  <2>1. << >> \in Seq(Message) OBVIOUS
  <2> QED BY <1>1, <2>1, StartStep DEF UserStart
<1>2. CASE UserStop
  <2> USE <1>2 DEF UserStop, Inductive
  <2>1. TypeOK'
    <3>1. out' \in Seq(Message)
      BY MessageTypes DEF State
    <3>2. accServer' \in [AcceptThreads -> {"open", "closed", "null"}]
      BY DEF TypeOK, ServersCancelled
    <3>3. sock' \in [Socket -> {"unconnected", "up", "lost", "closed", "null"}]
      BY DEF TypeOK, SocketsCancelled
    <3> QED BY <3>1, <3>2, <3>3 DEF TypeOK, State, uiVars, CancelThrows, AcceptCancelThrows
  <2>2. ConnectedHasThread' /\ AttemptIsCancellable' /\ ReferencesFit'
    BY DEF ConnectedHasThread, AttemptIsCancellable, ReferencesFit
  <2>3. SocketsFit'
    BY DEF SocketsFit, ReferencesFit, TypeOK, SocketsCancelled, Cancelled
  <2>4. AcceptedFit' /\ ListenersFit'
    BY DEF AcceptedFit, ListenersFit, TypeOK, ServersCancelled
  <2>5. (writing => r # None)' /\ NoNullReference'
    BY DEF uiVars, NoNullReference, CancelThrows, Cancelled, SocketsFit,
       AcceptCancelThrows, AcceptCancelled, ListenersFit
  <2> QED BY <2>1, <2>2, <2>3, <2>4, <2>5
<1>3. CASE WriteCopy
  BY <1>3 DEF WriteCopy, threadVars, accVars, sockVars, Inductive, TypeOK, ConnectedHasThread,
     AttemptIsCancellable, ReferencesFit, SocketsFit, AcceptedFit, ListenersFit, NoNullReference
<1>4. CASE WriteOut
  <2>1. out' \in Seq(Message)
    <3>1. CASE out' = << >>
      BY <3>1
    <3>2. CASE r # None /\ out' = <<Write(r)>>
      <4>1. Write(r) \in Message
        BY <3>2, MessageTypes DEF Inductive, TypeOK
      <4> QED BY <3>2, <4>1
    <3> QED BY <1>4, <3>1, <3>2 DEF WriteOut
  <2> QED
    BY <1>4, <2>1 DEF WriteOut, threadVars, accVars, sockVars, Inductive, TypeOK, ConnectedHasThread,
     AttemptIsCancellable, ReferencesFit, SocketsFit, AcceptedFit, ListenersFit, NoNullReference
<1>5. ASSUME NEW s \in Socket, UserConnect(s) PROVE Inductive'
  <2> USE <1>5 DEF UserConnect, Inductive
  <2>1. TypeOK'
    <3>1. out' \in Seq(Message)
      BY MessageTypes DEF State
    <3>2. sock' \in [Socket -> {"unconnected", "up", "lost", "closed", "null"}]
      BY DEF TypeOK
    <3>3. crashed' \in BOOLEAN
      OBVIOUS
    <3> QED BY <3>1, <3>2, <3>3 DEF TypeOK, State, uiVars, accVars
  <2>2. ConnectedHasThread' /\ AttemptIsCancellable' /\ ReferencesFit'
    BY DEF ConnectedHasThread, AttemptIsCancellable, ReferencesFit, TypeOK
  <2>3. SocketsFit'
    BY DEF SocketsFit, ReferencesFit, TypeOK, AttemptIsCancellable, Fresh
  <2>4. AcceptedFit' /\ ListenersFit'
    BY DEF AcceptedFit, ListenersFit, TypeOK, accVars, Fresh
  <2>5. (writing => r # None)' /\ NoNullReference'
    BY DEF uiVars, NoNullReference, SocketsFit
  <2> QED BY <2>1, <2>2, <2>3, <2>4, <2>5
<1> QED BY <1>1, <1>2, <1>3, <1>4, <1>5 DEF UserStep

(* Every step of an AcceptThread keeps the invariant. *)
LEMMA AcceptThreadInductive ==
  ASSUME Inductive, ~crashed, NEW a \in AcceptThreads, AcceptThreadStep(a) \/ AcceptFails(a)
  PROVE  Inductive'
<1> USE NoneAssumption, FaultAssumption
<1>1. CASE AcceptLoop(a)
  BY <1>1 DEF AcceptLoop, threadVars, sockVars, uiVars, Inductive, TypeOK, ConnectedHasThread,
     AttemptIsCancellable, ReferencesFit, SocketsFit, AcceptedFit, ListenersFit, NoNullReference
<1>2. CASE AcceptLeaves(a) \/ AcceptCancelledExit(a) \/ AcceptFails(a)
  <2> USE <1>2 DEF AcceptLeaves, AcceptCancelledExit, AcceptFails, AcceptEnds, threadVars,
                   sockVars, uiVars, Inductive
  <2>1. TypeOK'
    <3>1. out' = << >> /\ accPc' = [accPc EXCEPT ![a] = "free"]
      OBVIOUS
    <3> QED BY <3>1, NoMessages DEF TypeOK
  <2>2. ConnectedHasThread' /\ AttemptIsCancellable' /\ ReferencesFit' /\ SocketsFit'
    BY DEF ConnectedHasThread, AttemptIsCancellable, ReferencesFit, SocketsFit
  <2>3. AcceptedFit'
    BY DEF AcceptedFit, TypeOK
  <2>4. ListenersFit'
    BY DEF ListenersFit, TypeOK
  <2> QED BY <2>1, <2>2, <2>3, <2>4 DEF NoNullReference
<1>3. CASE AcceptNull(a)
  BY <1>3 DEF AcceptNull, threadVars, accVars, sockVars, uiVars, Inductive, TypeOK,
     ConnectedHasThread, AttemptIsCancellable, ReferencesFit, SocketsFit, AcceptedFit,
     ListenersFit, NoNullReference
<1>4. CASE AcceptServe(a)
  <2>1. accSocket[a] \in Socket /\ pc[accSocket[a]] = "accepted"
    BY <1>4 DEF AcceptServe, Inductive, AcceptedFit
  <2> QED BY <1>4, <2>1, ConnectedStep DEF AcceptServe
<1>5. CASE AcceptRefuse(a)
  <2> USE <1>5 DEF AcceptRefuse, Inductive, threadVars, uiVars
  <2>1. accSocket[a] \in Socket /\ pc[accSocket[a]] = "accepted"
    BY DEF AcceptedFit
  <2>2. TypeOK'
    BY <2>1 DEF TypeOK
  <2>3. ConnectedHasThread' /\ AttemptIsCancellable' /\ ReferencesFit'
    BY <2>1 DEF ConnectedHasThread, AttemptIsCancellable, ReferencesFit, TypeOK
  <2>4. SocketsFit' /\ AcceptedFit' /\ ListenersFit'
    BY <2>1 DEF SocketsFit, AcceptedFit, ListenersFit, TypeOK
  <2> QED BY <2>2, <2>3, <2>4 DEF NoNullReference
<1> QED BY <1>1, <1>2, <1>3, <1>4, <1>5 DEF AcceptThreadStep

(* A device that connects to an AcceptThread keeps the invariant. *)
LEMMA AcceptInductive ==
  ASSUME Inductive, NEW a \in AcceptThreads, NEW s \in Socket, Accept(a, s)
  PROVE  Inductive'
<1> USE NoneAssumption, FaultAssumption DEF Accept, Inductive, threadVars, uiVars
<1>1. TypeOK'
  BY DEF TypeOK
<1>2. ConnectedHasThread' /\ AttemptIsCancellable' /\ ReferencesFit'
  BY DEF ConnectedHasThread, AttemptIsCancellable, ReferencesFit, TypeOK, Fresh
<1>3. SocketsFit' /\ AcceptedFit' /\ ListenersFit'
  BY DEF SocketsFit, AcceptedFit, ListenersFit, TypeOK, Fresh
<1> QED BY <1>1, <1>2, <1>3 DEF NoNullReference

(* Every step of a ConnectThread or ConnectedThread, the rest of connected(),
   incoming data and the loss of a link keep the invariant. *)
LEMMA SocketThreadInductive ==
  ASSUME Inductive, ~crashed, NEW s \in Socket,
         ConnectThreadStep(s) \/ ConnectedThreadStep(s) \/ ReadData(s) \/ LinkLost(s)
  PROVE  Inductive'
<1> USE NoneAssumption, FaultAssumption
<1>1. CASE ConnectSucceeds(s) \/ ConnectFails(s) \/ ReadThrows(s) \/ LinkLost(s)
  <2> USE <1>1 DEF ConnectSucceeds, ConnectFails, ReadThrows, LinkLost, Inductive,
                   threadVars, accVars, uiVars
  <2>1. TypeOK'
    <3>1. out' = << >>
      OBVIOUS
    <3>2. pc' \in [Socket -> {"free", "connecting", "opened", "handover", "failed",
                             "accepted", "reading", "lost", "restart"}]
      BY DEF TypeOK
    <3>3. sock' \in [Socket -> {"unconnected", "up", "lost", "closed", "null"}]
      BY DEF TypeOK
    <3> QED BY <3>1, <3>2, <3>3, NoMessages DEF TypeOK
  <2>2. ConnectedHasThread' /\ AttemptIsCancellable' /\ ReferencesFit'
    BY DEF ConnectedHasThread, AttemptIsCancellable, ReferencesFit, TypeOK
  <2>3. SocketsFit'
    BY DEF SocketsFit, TypeOK, ReferencesFit
  <2>4. AcceptedFit' /\ ListenersFit' /\ NoNullReference' /\ (writing => r # None)'
    BY DEF AcceptedFit, ListenersFit, TypeOK, NoNullReference
  <2> QED BY <2>1, <2>2, <2>3, <2>4
<1>2. CASE ConnectNull(s)
  BY <1>2 DEF ConnectNull, threadVars, accVars, sockVars, uiVars, Inductive, TypeOK,
     ConnectedHasThread, AttemptIsCancellable, ReferencesFit, SocketsFit, AcceptedFit,
     ListenersFit, NoNullReference
<1>3. CASE connectionFailed(s) \/ connectionLost(s) \/ Restart(s)
  <2>1. << >> \in Seq(Message) /\ <<Toast("failed")>> \in Seq(Message)
        /\ <<Toast("lost")>> \in Seq(Message)
    BY MessageTypes
  <2>2. CASE connectionFailed(s)
    BY <2>1, <2>2, StartStep DEF connectionFailed
  <2>3. CASE connectionLost(s)
    BY <2>1, <2>3, StartStep DEF connectionLost
  <2>4. CASE Restart(s)
    BY <2>1, <2>4, StartStep DEF Restart
  <2> QED BY <1>3, <2>2, <2>3, <2>4
<1>4. CASE ConnectReset(s)
  <2> USE <1>4 DEF ConnectReset, Inductive, accVars, uiVars
  <2>1. TypeOK'
    BY DEF TypeOK
  <2>2. ConnectedHasThread' /\ AttemptIsCancellable' /\ ReferencesFit'
    BY DEF ConnectedHasThread, AttemptIsCancellable, ReferencesFit, TypeOK
  <2>3. SocketsFit' /\ AcceptedFit' /\ ListenersFit'
    BY DEF SocketsFit, AcceptedFit, ListenersFit, TypeOK
  <2> QED BY <2>1, <2>2, <2>3 DEF NoNullReference
<1>5. CASE ConnectServe(s)
  BY <1>5, ConnectedStep DEF ConnectServe
<1>6. CASE ReadData(s)
  <2>1. out' \in Seq(Message)
    <3>1. Read(s) \in Message
      BY MessageTypes
    <3> QED BY <1>6, <3>1 DEF ReadData
  <2> QED
    BY <1>6, <2>1 DEF ReadData, threadVars, accVars, sockVars, uiVars, Inductive, TypeOK,
     ConnectedHasThread, AttemptIsCancellable, ReferencesFit, SocketsFit, AcceptedFit,
     ListenersFit, NoNullReference
<1> QED
  BY <1>1, <1>2, <1>3, <1>4, <1>5, <1>6 DEF ConnectThreadStep, ConnectedThreadStep

(* The rest of connected() keeps the invariant: it releases the monitor with
   state, reference and AcceptThreads in agreement. *)
LEMMA ConnectedPostsInductive ==
  ASSUME Inductive, connectedPosts
  PROVE  Inductive'
<1> USE NoneAssumption, RemoteAssumption DEF connectedPosts, Inductive, sockVars, uiVars
<1>1. TypeOK'
  <2>1. out' \in Seq(Message)
    <3>1. lock \in Socket /\ Remote[lock] \in Device
      BY DEF TypeOK
    <3>2. DeviceName(Remote[lock]) \in Message /\ StateChange("CONNECTED") \in Message
      BY <3>1, MessageTypes DEF State
    <3> QED BY <3>2
  <2> QED BY <2>1 DEF TypeOK, State
<1>2. ConnectedHasThread' /\ AttemptIsCancellable' /\ ReferencesFit'
  BY DEF ConnectedHasThread, AttemptIsCancellable, ReferencesFit, TypeOK
<1>3. SocketsFit' /\ AcceptedFit' /\ ListenersFit'
  BY DEF SocketsFit, AcceptedFit, ListenersFit, ReferencesFit, TypeOK
<1> QED BY <1>1, <1>2, <1>3 DEF NoNullReference

(* A stuttering step keeps the invariant. *)
LEMMA StutterInductive ==
  ASSUME Inductive, UNCHANGED vars
  PROVE  Inductive'
BY DEF vars, threadVars, accVars, sockVars, uiVars, Inductive, TypeOK, ConnectedHasThread,
   AttemptIsCancellable, ReferencesFit, SocketsFit, AcceptedFit, ListenersFit, NoNullReference

(* Inductive is an invariant of the service, whatever the Bluetooth stack, the
   remote devices and the user do. *)
THEOREM InductiveHolds == Spec => []Inductive
<1>1. ASSUME Inductive, [Next]_vars PROVE Inductive'
  <2>1. CASE UNCHANGED vars
    BY <1>1, <2>1, StutterInductive
  <2>2. CASE Next
    <3>1. ~crashed BY <2>2 DEF Next
    <3>2. CASE UserStep BY <1>1, <3>1, <3>2, UserStepInductive
    <3>3. CASE \E a \in AcceptThreads : AcceptThreadStep(a) \/ AcceptFails(a)
      BY <1>1, <3>1, <3>3, AcceptThreadInductive
    <3>4. CASE \E a \in AcceptThreads, s \in Socket : Accept(a, s)
      BY <1>1, <3>4, AcceptInductive
    <3>5. CASE \E s \in Socket : ConnectThreadStep(s) \/ ConnectedThreadStep(s)
                                 \/ ReadData(s) \/ LinkLost(s)
      BY <1>1, <3>1, <3>5, SocketThreadInductive
    <3>6. CASE connectedPosts
      BY <1>1, <3>6, ConnectedPostsInductive
    <3> QED BY <2>2, <3>2, <3>3, <3>4, <3>5, <3>6 DEF Next, EnvironmentStep
  <2> QED BY <1>1, <2>1, <2>2
<1> QED BY <1>1, InitInductive, PTL DEF Spec

-----------------------------------------------------------------------------
(* Every variable keeps the type its Java field has. *)
THEOREM TypeCorrect == Spec => []TypeOK
<1>1. Inductive => TypeOK BY DEF Inductive
<1> QED BY <1>1, InductiveHolds, PTL

(* A caller of write() that finds CONNECTED finds a ConnectedThread. *)
THEOREM WriteIsSafe == Spec => []ConnectedHasThread
<1>1. Inductive => ConnectedHasThread BY DEF Inductive
<1> QED BY <1>1, InductiveHolds, PTL

(* NullPointerExceptions come only from sockets that could not be created:
   neither write() without the lock nor cancel() of an ended thread meets one. *)
THEOREM NoNullReferenceHolds == Spec => []NoNullReference
<1>1. Inductive => NoNullReference BY DEF Inductive
<1> QED BY <1>1, InductiveHolds, PTL

(* connect() never overwrites a reference to an attempt it did not cancel. *)
THEOREM AttemptsAreCancellable == Spec => []AttemptIsCancellable
<1>1. Inductive => AttemptIsCancellable BY DEF Inductive
<1> QED BY <1>1, InductiveHolds, PTL

(* However connections, losses, attempts and calls of the user interleave, no
   replaced connection stays open: the service holds one device at a time. *)
THEOREM OneConnectionHolds == Spec => []OneConnection
<1>1. Inductive => OneConnection
  BY DEF Inductive, OneConnection, Open, SocketsFit, TypeOK
<1> QED BY <1>1, InductiveHolds, PTL

(* connected() is called by an AcceptThread only when nothing is served: then
   the state it tested is LISTEN or CONNECTING, and by Inductive neither goes
   with a ConnectedThread.  Every other step leaves the reference, clears it, or
   is the handover of a ConnectThread. *)
THEOREM OnlyAttemptTakesOverHolds == Spec => OnlyAttemptTakesOver
<1> DEFINE Kept == mConnectedThread # None =>
                     \/ mConnectedThread' \in {None, mConnectedThread}
                     \/ pc[mConnectedThread'] = "handover"
<1>1. ASSUME Inductive, Next PROVE Kept
  <2>1. CASE UserStep
    BY <2>1 DEF UserStep, UserStart, UserStop, WriteCopy, WriteOut, UserConnect, startSome,
       start, threadVars
  <2>2. ASSUME NEW a \in AcceptThreads, AcceptThreadStep(a) PROVE Kept
    <3>1. CASE AcceptServe(a)
      BY <1>1, <3>1 DEF AcceptServe, connected, Inductive, ConnectedHasThread
    <3>2. CASE ~AcceptServe(a)
      BY <2>2, <3>2 DEF AcceptThreadStep, AcceptLoop, AcceptLeaves, AcceptCancelledExit,
         AcceptNull, AcceptRefuse, AcceptEnds, threadVars
    <3> QED BY <3>1, <3>2
  <2>3. ASSUME NEW s \in Socket, ConnectThreadStep(s) PROVE Kept
    BY <2>3 DEF ConnectThreadStep, ConnectSucceeds, ConnectFails, ConnectNull,
       connectionFailed, ConnectReset, ConnectServe, connected, startSome, start, threadVars
  <2>4. ASSUME NEW s \in Socket, ConnectedThreadStep(s) PROVE Kept
    BY <2>4 DEF ConnectedThreadStep, ReadThrows, connectionLost, Restart, startSome, start,
       threadVars
  <2>5. CASE connectedPosts
    BY <2>5 DEF connectedPosts
  <2>6. CASE EnvironmentStep
    BY <2>6 DEF EnvironmentStep, Accept, AcceptFails, AcceptEnds, ReadData, LinkLost, threadVars
  <2> QED BY <1>1, <2>1, <2>2, <2>3, <2>4, <2>5, <2>6 DEF Next
<1>2. ASSUME UNCHANGED vars PROVE Kept
  BY <1>2 DEF vars, threadVars
<1>3. Inductive /\ [Next]_vars => [Kept]_vars
  BY <1>1, <1>2
<1> QED BY <1>3, InductiveHolds, PTL DEF Spec, OnlyAttemptTakesOver

(* start() cancels what it drops, and so do connected() and stop(); connect() needs
   AttemptIsCancellable, since it cancels an attempt only in state CONNECTING. *)
THEOREM OnlyResetOrphansHolds == Spec => OnlyResetOrphans
<1> DEFINE Orphaned(s) == /\ mConnectThread = s /\ mConnectThread' # s
                          /\ pc[s] = "connecting" /\ sock'[s] = "unconnected"
           Kept == \A s \in Socket : Orphaned(s) =>
                     \E t \in Socket \ {s} : pc[t] = "opened" /\ pc'[t] = "handover"
<1>1. ASSUME Inductive, Next PROVE Kept
  <2> SUFFICES ASSUME NEW s \in Socket, Orphaned(s)
               PROVE  \E t \in Socket \ {s} : pc[t] = "opened" /\ pc'[t] = "handover"
    OBVIOUS
  <2>1. sock' # SocketsCancelled
    BY DEF SocketsCancelled, Cancelled
  <2>2. mState = "CONNECTING" /\ s # None
    BY <1>1, NoneAssumption DEF Inductive, AttemptIsCancellable
  <2>3. CASE UserStep
    <3>1. ASSUME NEW t \in Socket, UserConnect(t) PROVE FALSE
      <4>1. t # s
        BY <3>1 DEF UserConnect
      <4>2. sock'[s] = "closed"
        BY <2>2, <3>1, <4>1 DEF UserConnect
      <4> QED BY <4>2
    <3> QED BY <2>1, <2>3, <3>1 DEF UserStep, UserStart, UserStop, WriteCopy, WriteOut, startSome,
          start, threadVars
  <2>4. ASSUME NEW a \in AcceptThreads, AcceptThreadStep(a) PROVE FALSE
    BY <2>1, <2>4 DEF AcceptThreadStep, AcceptServe, connected, AcceptLoop, AcceptLeaves,
       AcceptCancelledExit, AcceptNull, AcceptRefuse, AcceptEnds, threadVars
  <2>5. ASSUME NEW t \in Socket, ConnectThreadStep(t) PROVE ConnectReset(t)
    BY <2>1, <2>5 DEF ConnectThreadStep, ConnectSucceeds, ConnectFails, ConnectNull,
       connectionFailed, ConnectServe, connected, startSome, start, threadVars
  <2>6. ASSUME NEW t \in Socket, ConnectReset(t)
        PROVE  t # s /\ pc[t] = "opened" /\ pc'[t] = "handover"
    BY <1>1, <2>6 DEF ConnectReset, Inductive, TypeOK
  <2>7. ASSUME NEW t \in Socket, ConnectedThreadStep(t) PROVE FALSE
    BY <2>1, <2>7 DEF ConnectedThreadStep, ReadThrows, connectionLost, Restart, startSome, start,
       threadVars
  <2>8. ~connectedPosts
    BY DEF connectedPosts
  <2>9. ~EnvironmentStep
    BY DEF EnvironmentStep, Accept, AcceptFails, AcceptEnds, ReadData, LinkLost, threadVars
  <2> QED BY <1>1, <2>3, <2>4, <2>5, <2>6, <2>7, <2>8, <2>9 DEF Next
<1>2. ASSUME UNCHANGED vars PROVE Kept
  BY <1>2 DEF vars, threadVars
<1>3. Inductive /\ [Next]_vars => [Kept]_vars
  BY <1>1, <1>2
<1> QED BY <1>3, InductiveHolds, PTL DEF Spec, OnlyResetOrphans

(* Outside LISTEN and CONNECTING no AcceptThread is referenced (ListenersFit), so
   that start() finds both missing, however their predecessors ended. *)
THEOREM ListenersRenewedHolds == Spec => ListenersRenewed
<1> DEFINE Renewed == mState \in {"NONE", "CONNECTED"} /\ mState' = "LISTEN" =>
             \A k \in SocketType : mAcceptThread'[k] # None /\ accPc'[mAcceptThread'[k]] = "loop"
<1>1. ASSUME Inductive, NEW msgs, startSome(msgs), mState \in {"NONE", "CONNECTED"}
      PROVE  \A k \in SocketType : mAcceptThread'[k] # None /\ accPc'[mAcceptThread'[k]] = "loop"
  <2>1. PICK new \in [SocketType -> AcceptThreads], opened \in SUBSET Missing : start(msgs, new, opened)
    BY <1>1 DEF startSome
  <2>2. Missing = SocketType
    BY <1>1 DEF Missing, Inductive, ListenersFit
  <2>3. mAcceptThread' = new
    BY <2>1 DEF start
  <2>4. accPc' = [a \in AcceptThreads |->
          IF \E k \in SocketType : a = new[k] THEN "loop" ELSE accPc[a]]
    BY <2>1, <2>2 DEF start
  <2> QED BY <2>3, <2>4, NoneAssumption
<1>2. ASSUME Inductive, Next PROVE Renewed
  <2> SUFFICES ASSUME mState \in {"NONE", "CONNECTED"}, mState' = "LISTEN"
               PROVE  \E msgs : startSome(msgs)
    BY <1>1, <1>2
  <2>1. CASE UserStep
    BY <2>1 DEF UserStep, UserStart, UserStop, UserConnect, WriteCopy, WriteOut, threadVars
  <2>2. ASSUME NEW a \in AcceptThreads, AcceptThreadStep(a) PROVE FALSE
    BY <2>2 DEF AcceptThreadStep, AcceptServe, connected, AcceptLoop, AcceptLeaves,
       AcceptCancelledExit, AcceptNull, AcceptRefuse, AcceptEnds, threadVars
  <2>3. ASSUME NEW s \in Socket, ConnectThreadStep(s) PROVE \E msgs : startSome(msgs)
    BY <2>3 DEF ConnectThreadStep, ConnectSucceeds, ConnectFails, ConnectNull,
       connectionFailed, ConnectReset, ConnectServe, connected, threadVars
  <2>4. ASSUME NEW s \in Socket, ConnectedThreadStep(s) PROVE \E msgs : startSome(msgs)
    BY <2>4 DEF ConnectedThreadStep, ReadThrows, connectionLost, Restart, threadVars
  <2>5. ~connectedPosts
    BY DEF connectedPosts
  <2>6. ~EnvironmentStep
    BY DEF EnvironmentStep, Accept, AcceptFails, AcceptEnds, ReadData, LinkLost, threadVars
  <2> QED BY <1>2, <2>1, <2>2, <2>3, <2>4, <2>5, <2>6 DEF Next
<1>3. ASSUME UNCHANGED vars PROVE Renewed
  BY <1>3 DEF vars, threadVars
<1>4. Inductive /\ [Next]_vars => [Renewed]_vars
  BY <1>2, <1>3
<1> QED BY <1>4, InductiveHolds, PTL DEF Spec, ListenersRenewed

(* While the Bluetooth stack does not fail on its own, LISTEN means that both
   kinds of connection are really being accepted. *)
THEOREM ListenListensHolds ==
  ASSUME ~ListenMayFail, ~AcceptMayFail
  PROVE  Spec => []ListenListens
<1>1. Inductive => ListenListens
  BY NoneAssumption DEF Inductive, ListenListens, ListenersFit, TypeOK
<1> QED BY <1>1, InductiveHolds, PTL
=============================================================================
