----------------------- MODULE TcpSocketManager_proofs -----------------------
(***************************************************************************)
(* For any number of overlapping starts, stops and messages: the variables *)
(* keep their types, a running client has a socket, messages are written   *)
(* in order, none twice, and a null reference needs a stop.                *)
(***************************************************************************)
EXTENDS TcpSocketManager, TLAPS

(* A thread past its call of start() knows its client, and a thread that is
   about to set `running' has given that client a socket. *)
StartersFit ==
  /\ pc \in [Thread -> {"unborn", "assign", "start", "connect", "opened", "done"}]
  /\ target \in [Thread -> Ref]
  /\ running \in [Thread -> BOOLEAN]
  /\ socket \in [Thread -> Ref]
  /\ client \in Ref
  /\ \A t \in Thread : pc[t] \in {"connect", "opened"} => target[t] # None
  /\ \A t \in Thread : pc[t] = "opened" => socket[target[t]] # None
  /\ \A t \in Thread : keepAlive[t] = "alive" \/ receive[t] = "alive" => target[t] # None
  /\ keepAlive \in [Thread -> {"none", "alive", "ended"}]
  /\ receive \in [Thread -> {"none", "alive", "ended"}]

SocketInv == StartersFit /\ RunningHasSocket

(* Every step of the threads keeps the invariant. *)
LEMMA SocketStep == SocketInv /\ [Next]_vars => SocketInv'
<1> SUFFICES ASSUME SocketInv, [Next]_vars PROVE SocketInv'
  OBVIOUS
<1> USE ThreadAssumption DEF SocketInv, Ref
<1>1. CASE Start \/ sendMessage
  BY <1>1 DEF Start, sendMessage, startTcpConnect, clientVars, dogVars, StartersFit, RunningHasSocket
<1>2. CASE sopTcpConnect \/ sopForgets
  BY <1>2 DEF sopTcpConnect, sopForgets, startVars, clientVars, dogVars, StartersFit, RunningHasSocket
<1>7. CASE CheckStep
  BY <1>7 DEF CheckStep, CheckSeesNone, CheckSeesClient, CheckStarts, CheckNull, startTcpConnect,
     startVars, clientVars, dogVars, StartersFit, RunningHasSocket
<1>3. CASE ExecutorStep
  BY <1>3 DEF ExecutorStep, ExecutorTakes, ExecutorWrites, ExecutorLoses, startVars, clientVars,
     dogVars, StartersFit, RunningHasSocket
<1>4. ASSUME NEW t \in Thread, StartThreadStep(t) PROVE SocketInv'
  <2>1. CASE AssignClient(t) \/ CallStartNull(t) \/ ConnectFails(t)
    BY <2>1 DEF AssignClient, CallStartNull, ConnectFails, startVars, clientVars, dogVars,
       StartersFit, RunningHasSocket
  <2>2. CASE CallStart(t)
    BY <2>2 DEF CallStart, clientVars, dogVars, StartersFit, RunningHasSocket
  <2>3. CASE Connects(t)
    BY <2>3 DEF Connects, dogVars, StartersFit, RunningHasSocket
  <2>4. CASE RunClient(t)
    BY <2>4 DEF RunClient, StartersFit, RunningHasSocket
  <2> QED BY <1>4, <2>1, <2>2, <2>3, <2>4 DEF StartThreadStep
<1>5. ASSUME NEW t \in Thread,
             KeepAliveStep(t) \/ ReceiveThrows(t) \/ ReceiveEnds(t) \/ ServerCloses(t)
      PROVE SocketInv'
  <2>1. CASE KeepAliveSends(t) \/ ServerCloses(t)
    BY <2>1 DEF KeepAliveSends, ServerCloses, startVars, clientVars, dogVars, StartersFit,
       RunningHasSocket
  <2>2. CASE KeepAliveThrows(t) \/ ReceiveThrows(t)
    BY <2>2 DEF KeepAliveThrows, ReceiveThrows, startVars, dogVars, StartersFit, RunningHasSocket
  <2>3. CASE KeepAliveEnds(t) \/ ReceiveEnds(t)
    BY <2>3 DEF KeepAliveEnds, ReceiveEnds, startVars, clientVars, StartersFit, RunningHasSocket
  <2> QED BY <1>5, <2>1, <2>2, <2>3 DEF KeepAliveStep
<1>6. CASE UNCHANGED vars
  BY <1>6 DEF vars, startVars, clientVars, dogVars, StartersFit, RunningHasSocket
<1> QED BY <1>1, <1>2, <1>3, <1>4, <1>5, <1>6, <1>7 DEF Next

(* A client never runs without a socket: the watchdogs, which use the socket
   without a test, cannot fail on a null reference. *)
THEOREM RunningHasSocketHolds == Spec => []RunningHasSocket
<1>1. Init => SocketInv
  BY ThreadAssumption DEF Init, SocketInv, StartersFit, RunningHasSocket, Ref
<1>2. SocketInv => RunningHasSocket
  BY DEF SocketInv
<1> QED BY <1>1, <1>2, SocketStep, PTL DEF Spec

-----------------------------------------------------------------------------
(* The messages in the executor's hands, in its queue, written and lost are in
   the order of their submission and kept apart. *)
OrderInv ==
  /\ submitted \in Nat
  /\ tasks \in Seq(Nat)
  /\ written \in Seq(Nat)
  /\ sending.msg \in Nat
  /\ sending # Idle => sending.msg > 0
  /\ \A i, j \in 1..Len(tasks) : i < j => tasks[i] < tasks[j]
  /\ \A i, j \in 1..Len(written) : i < j => written[i] < written[j]
  /\ \A i \in 1..Len(tasks) :
       0 < tasks[i] /\ tasks[i] <= submitted /\ sending.msg < tasks[i]
  /\ sending.msg <= submitted
  /\ \A i \in 1..Len(written) :
       /\ written[i] \notin lost
       /\ written[i] <= submitted
       /\ sending # Idle => written[i] < sending.msg
       /\ \A j \in 1..Len(tasks) : written[i] < tasks[j]
  /\ \A m \in lost : /\ m \in Nat /\ m <= submitted
                     /\ sending # Idle => m < sending.msg
                     /\ \A j \in 1..Len(tasks) : m < tasks[j]

orderVars == <<submitted, tasks, sending, written, lost>>

(* Every step keeps the order. *)
LEMMA OrderStep == OrderInv /\ [Next]_vars => OrderInv'
<1> SUFFICES ASSUME OrderInv, [Next]_vars PROVE OrderInv'
  OBVIOUS
<1>1. CASE UNCHANGED orderVars
  BY <1>1 DEF orderVars, OrderInv
<1>2. CASE /\ submitted' = submitted + 1
           /\ tasks' = Append(tasks, submitted')
           /\ UNCHANGED <<sending, written, lost>>
  <2>1. /\ submitted' = submitted + 1
        /\ tasks' = Append(tasks, submitted + 1)
        /\ UNCHANGED <<sending, written, lost>>
    BY <1>2
  <2>2. tasks' \in Seq(Nat) /\ Len(tasks') = Len(tasks) + 1 /\ submitted' \in Nat
    BY <2>1 DEF OrderInv
  <2>3. \A i \in 1..Len(tasks') :
          \/ i \in 1..Len(tasks) /\ tasks'[i] = tasks[i]
          \/ i = Len(tasks) + 1 /\ tasks'[i] = submitted + 1
    BY <2>1 DEF OrderInv
  <2>4. ASSUME NEW i \in 1..Len(tasks'), NEW j \in 1..Len(tasks'), i < j
        PROVE  tasks'[i] < tasks'[j]
    <3>5. Len(tasks) \in Nat
      BY DEF OrderInv
    <3>0. Len(tasks) \in Nat /\ i # Len(tasks) + 1
      BY <2>2, <2>4, <3>5
    <3>1. i \in 1..Len(tasks) /\ tasks'[i] = tasks[i]
      BY <2>3, <3>0
    <3>4. tasks[i] <= submitted /\ tasks[i] \in Nat
      BY <3>1 DEF OrderInv
    <3>2. CASE j \in 1..Len(tasks) /\ tasks'[j] = tasks[j]
      BY <2>4, <3>1, <3>2 DEF OrderInv
    <3>3. CASE tasks'[j] = submitted + 1
      BY <3>1, <3>4, <3>3 DEF OrderInv
    <3> QED BY <2>3, <3>2, <3>3
  <2>5. \A i \in 1..Len(tasks') :
          0 < tasks'[i] /\ tasks'[i] <= submitted' /\ sending.msg < tasks'[i]
    BY <2>1, <2>2, <2>3 DEF OrderInv
  <2>6. ASSUME NEW i \in 1..Len(written), NEW j \in 1..Len(tasks')
        PROVE  written[i] < tasks'[j]
    <3>1. written[i] \in Nat /\ written[i] <= submitted /\ submitted \in Nat
      BY DEF OrderInv
    <3>2. CASE j \in 1..Len(tasks) /\ tasks'[j] = tasks[j]
      BY <3>2 DEF OrderInv
    <3>3. CASE tasks'[j] = submitted + 1
      BY <3>1, <3>3
    <3> QED BY <2>3, <3>2, <3>3
  <2>7. ASSUME NEW m \in lost, NEW j \in 1..Len(tasks')
        PROVE  m < tasks'[j]
    <3>1. m \in Nat /\ m <= submitted /\ submitted \in Nat
      BY DEF OrderInv
    <3>2. CASE j \in 1..Len(tasks) /\ tasks'[j] = tasks[j]
      BY <3>2 DEF OrderInv
    <3>3. CASE tasks'[j] = submitted + 1
      BY <3>1, <3>3
    <3> QED BY <2>3, <3>2, <3>3
  <2>8. sending.msg <= submitted' /\ \A i \in 1..Len(written) : written[i] <= submitted'
    BY <2>1 DEF OrderInv
  <2>9. \A m \in lost : m \in Nat /\ m <= submitted'
    BY <2>1 DEF OrderInv
  <2>10. sending' = sending /\ written' = written /\ lost' = lost
    BY <2>1
  <2> QED BY <2>2, <2>4, <2>5, <2>6, <2>7, <2>8, <2>9, <2>10 DEF OrderInv
<1>10. CASE sendMessage
  BY <1>2, <1>10 DEF sendMessage
<1>11. CASE CheckStep
  <2>1. CASE CheckSeesClient \/ CheckNull
    BY <1>1, <2>1 DEF CheckSeesClient, CheckNull, sendVars, orderVars
  <2>2. CASE CheckSeesNone \/ CheckStarts
    BY <1>1, <1>2, <2>2 DEF CheckSeesNone, CheckStarts, Queued, orderVars
  <2> QED BY <1>11, <2>1, <2>2 DEF CheckStep
<1>3. CASE ExecutorTakes
  <2>1. /\ sending = Idle /\ tasks # << >>
        /\ sending'.msg = Head(tasks) /\ tasks' = Tail(tasks)
        /\ UNCHANGED <<submitted, written, lost>>
    BY <1>3 DEF ExecutorTakes
  <2> QED BY <2>1 DEF OrderInv, Idle
<1>4. CASE ExecutorWrites
  <2>1. /\ sending # Idle /\ sending' = Idle /\ Idle.msg = 0
        /\ written' = Append(written, sending.msg)
        /\ UNCHANGED <<submitted, tasks, lost>>
    BY <1>4 DEF ExecutorWrites, Idle
  <2> QED BY <2>1 DEF OrderInv
<1>5. CASE ExecutorLoses
  <2>1. /\ sending # Idle /\ sending' = Idle /\ Idle.msg = 0
        /\ lost' = lost \cup {sending.msg}
        /\ UNCHANGED <<submitted, tasks, written>>
    BY <1>5 DEF ExecutorLoses, Idle
  <2> QED BY <2>1 DEF OrderInv
<1>6. CASE Start \/ sopTcpConnect \/ sopForgets
  BY <1>1, <1>6 DEF Start, sopTcpConnect, sopForgets, sendVars, orderVars
<1>7. ASSUME NEW t \in Thread, StartThreadStep(t) PROVE OrderInv'
  BY <1>1, <1>7 DEF StartThreadStep, AssignClient, CallStart, CallStartNull, Connects, ConnectFails,
     RunClient, sendVars, orderVars
<1>8. ASSUME NEW t \in Thread,
             KeepAliveStep(t) \/ ReceiveThrows(t) \/ ReceiveEnds(t) \/ ServerCloses(t)
      PROVE OrderInv'
  BY <1>1, <1>8 DEF KeepAliveStep, KeepAliveSends, KeepAliveThrows, KeepAliveEnds, ReceiveThrows,
     ReceiveEnds, ServerCloses, sendVars, orderVars
<1>9. CASE UNCHANGED vars
  BY <1>1, <1>9 DEF vars, sendVars, orderVars
<1> QED BY <1>3, <1>4, <1>5, <1>6, <1>7, <1>8, <1>9, <1>10, <1>11 DEF Next, ExecutorStep

(* Messages reach the server in the order of the calls of sendMessage(), none
   of them twice and none that was counted as lost. *)
THEOREM SentInOrderHolds == Spec => []SentInOrder
<1>1. Init => OrderInv
  BY DEF Init, OrderInv, Idle
<1>2. OrderInv => SentInOrder
  BY DEF OrderInv, SentInOrder
<1> QED BY <1>1, <1>2, OrderStep, PTL DEF Spec

-----------------------------------------------------------------------------
(* Before the first stop, whoever assigned or saw a client still finds one. *)
NullInv ==
  main = "idle" =>
    /\ ~crashed
    /\ check # "gone"
    /\ check = "tested" => client # None
    /\ \A t \in Thread : pc[t] \notin {"unborn", "assign"} => client # None

(* Every step keeps that. *)
LEMMA NullStep == StartersFit /\ NullInv /\ [Next]_vars => NullInv'
<1> SUFFICES ASSUME StartersFit, NullInv, [Next]_vars PROVE NullInv'
  OBVIOUS
<1> USE ThreadAssumption DEF StartersFit, Ref
<1>1. CASE Start \/ sendMessage
  BY <1>1 DEF Start, sendMessage, startTcpConnect, NullInv
<1>2. CASE sopTcpConnect \/ sopForgets
  BY <1>2 DEF sopTcpConnect, sopForgets, NullInv
<1>3. CASE CheckStep
  <2>1. CASE CheckSeesNone \/ CheckStarts
    BY <2>1 DEF CheckSeesNone, CheckStarts, startTcpConnect, NullInv
  <2>2. CASE CheckSeesClient \/ CheckNull
    BY <2>2 DEF CheckSeesClient, CheckNull, startVars, NullInv
  <2> QED BY <1>3, <2>1, <2>2 DEF CheckStep
<1>4. CASE ExecutorStep
  BY <1>4 DEF ExecutorStep, ExecutorTakes, ExecutorWrites, ExecutorLoses, startVars, NullInv
<1>5. ASSUME NEW t \in Thread, StartThreadStep(t) PROVE NullInv'
  <2>1. CASE AssignClient(t)
    BY <2>1 DEF AssignClient, NullInv
  <2>2. CASE CallStartNull(t)
    BY <2>2 DEF CallStartNull, startVars, NullInv
  <2>3. CASE CallStart(t)
    BY <2>3 DEF CallStart, NullInv
  <2>4. CASE Connects(t) \/ ConnectFails(t) \/ RunClient(t)
    BY <2>4 DEF Connects, ConnectFails, RunClient, NullInv
  <2> QED BY <1>5, <2>1, <2>2, <2>3, <2>4 DEF StartThreadStep
<1>6. ASSUME NEW t \in Thread,
             KeepAliveStep(t) \/ ReceiveThrows(t) \/ ReceiveEnds(t) \/ ServerCloses(t)
      PROVE NullInv'
  BY <1>6 DEF KeepAliveStep, KeepAliveSends, KeepAliveThrows, KeepAliveEnds, ReceiveThrows,
     ReceiveEnds, ServerCloses, startVars, NullInv
<1>7. CASE UNCHANGED vars
  BY <1>7 DEF vars, startVars, NullInv
<1> QED BY <1>1, <1>2, <1>3, <1>4, <1>5, <1>6, <1>7 DEF Next

(* The two tests and uses of `client' that nothing protects fail only against
   a stop. *)
THEOREM NullNeedsStopHolds == Spec => []NullNeedsStop
<1>1. Init => SocketInv /\ NullInv
  BY ThreadAssumption DEF Init, SocketInv, StartersFit, RunningHasSocket, Ref, NullInv
<1>2. SocketInv => StartersFit
  BY DEF SocketInv
<1>3. NullInv => NullNeedsStop
  BY DEF NullInv, NullNeedsStop
<1> QED BY <1>1, <1>2, <1>3, SocketStep, NullStep, PTL DEF Spec

-----------------------------------------------------------------------------
(* What SocketInv does not say of the types. *)
RestOk ==
  /\ main \in {"idle", "stopping", "stopped"}
  /\ check \in {"idle", "tested", "gone"}
  /\ conn \in [Thread -> {"none", "up", "closed", "reset"}]
  /\ submitted \in 0..MaxMessage
  /\ tasks \in Seq(1..MaxMessage)
  /\ sending \in [msg : 0..MaxMessage, via : Ref]
  /\ written \in Seq(1..MaxMessage)
  /\ lost \in SUBSET (1..MaxMessage)
  /\ crashed \in BOOLEAN

(* A message that is queued has a number in range. *)
LEMMA QueuedType ==
  ASSUME submitted \in 0..MaxMessage, tasks \in Seq(1..MaxMessage),
         \/ UNCHANGED <<submitted, tasks>>
         \/ /\ submitted < MaxMessage
            /\ submitted' = submitted + 1
            /\ tasks' = Append(tasks, submitted')
  PROVE  submitted' \in 0..MaxMessage /\ tasks' \in Seq(1..MaxMessage)
<1>1. CASE UNCHANGED <<submitted, tasks>>
  BY <1>1
<1>2. CASE /\ submitted < MaxMessage
           /\ submitted' = submitted + 1
           /\ tasks' = Append(tasks, submitted')
  <2>1. submitted' \in 1..MaxMessage
    BY <1>2, MessageAssumption
  <2> QED BY <1>2, <2>1, MessageAssumption
<1> QED BY <1>1, <1>2

(* The first task and the remaining ones are of the queue's type. *)
LEMMA HeadTail ==
  ASSUME NEW S, NEW q \in Seq(S), q # << >>
  PROVE  Head(q) \in S /\ Tail(q) \in Seq(S)
OBVIOUS

(* Every step keeps the types. *)
LEMMA RestStep == SocketInv /\ OrderInv /\ RestOk /\ [Next]_vars => RestOk'
<1> SUFFICES ASSUME SocketInv, OrderInv, RestOk, [Next]_vars PROVE RestOk'
  OBVIOUS
<1> USE ThreadAssumption DEF SocketInv, StartersFit, Ref
<1>1. CASE Start \/ sopTcpConnect \/ sopForgets
  BY <1>1 DEF Start, sopTcpConnect, sopForgets, sendVars, RestOk
<1>2. CASE sendMessage
  <2>1. submitted' \in 0..MaxMessage /\ tasks' \in Seq(1..MaxMessage)
    BY <1>2, QueuedType DEF sendMessage, RestOk
  <2> QED BY <1>2, <2>1 DEF sendMessage, RestOk
<1>3. CASE CheckSeesNone \/ CheckStarts
  <2>1. submitted' \in 0..MaxMessage /\ tasks' \in Seq(1..MaxMessage)
    BY <1>3, QueuedType DEF CheckSeesNone, CheckStarts, Queued, RestOk
  <2> QED BY <1>3, <2>1 DEF CheckSeesNone, CheckStarts, RestOk
<1>4. CASE CheckSeesClient \/ CheckNull
  BY <1>4 DEF CheckSeesClient, CheckNull, sendVars, RestOk
<1>5. CASE ExecutorTakes
  <2>2. tasks \in Seq(1..MaxMessage) /\ tasks # << >>
    BY <1>5 DEF ExecutorTakes, RestOk
  <2>3. Head(tasks) \in 0..MaxMessage /\ Tail(tasks) \in Seq(1..MaxMessage)
    BY <2>2, HeadTail, MessageAssumption
  <2> QED BY <1>5, <2>3 DEF ExecutorTakes, RestOk
<1>6. CASE ExecutorWrites \/ ExecutorLoses
  <2>1. sending # Idle
    BY <1>6 DEF ExecutorWrites, ExecutorLoses
  <2>2. sending.msg \in 1..MaxMessage
    BY <2>1, MessageAssumption DEF RestOk, OrderInv
  <2>3. Idle \in [msg : 0..MaxMessage, via : Ref]
    BY MessageAssumption DEF Idle
  <2>4. CASE ExecutorWrites
    BY <2>2, <2>3, <2>4 DEF ExecutorWrites, RestOk
  <2>5. CASE ExecutorLoses
    <3>1. conn' \in [Thread -> {"none", "up", "closed", "reset"}]
      BY <2>5 DEF ExecutorLoses, RestOk
    <3> QED BY <2>2, <2>3, <2>5, <3>1 DEF ExecutorLoses, RestOk
  <2> QED BY <1>6, <2>4, <2>5
<1>7. ASSUME NEW t \in Thread, StartThreadStep(t) PROVE RestOk'
  <2>1. CASE Connects(t)
    BY <2>1 DEF Connects, sendVars, RestOk
  <2>2. CASE ~Connects(t)
    BY <1>7, <2>2 DEF StartThreadStep, AssignClient, CallStart, CallStartNull, ConnectFails,
       RunClient, sendVars, RestOk
  <2> QED BY <2>1, <2>2
<1>8. ASSUME NEW t \in Thread,
             KeepAliveStep(t) \/ ReceiveThrows(t) \/ ReceiveEnds(t) \/ ServerCloses(t)
      PROVE RestOk'
  <2>1. CASE KeepAliveSends(t)
    BY <2>1 DEF KeepAliveSends, sendVars, RestOk
  <2>2. CASE ServerCloses(t)
    BY <2>2 DEF ServerCloses, sendVars, RestOk
  <2>3. CASE KeepAliveThrows(t) \/ KeepAliveEnds(t) \/ ReceiveThrows(t) \/ ReceiveEnds(t)
    BY <2>3 DEF KeepAliveThrows, KeepAliveEnds, ReceiveThrows, ReceiveEnds, sendVars, RestOk
  <2> QED BY <1>8, <2>1, <2>2, <2>3 DEF KeepAliveStep
<1>9. CASE UNCHANGED vars
  BY <1>9 DEF vars, sendVars, RestOk
<1> QED BY <1>1, <1>2, <1>3, <1>4, <1>5, <1>6, <1>7, <1>8, <1>9 DEF Next, CheckStep, ExecutorStep

(* The variables keep their types. *)
THEOREM TypeCorrect == Spec => []TypeOK
<1>1. Init => SocketInv
  BY ThreadAssumption DEF Init, SocketInv, StartersFit, RunningHasSocket, Ref
<1>2. Init => OrderInv
  BY DEF Init, OrderInv, Idle
<1>3. Init => RestOk
  <2>1. Idle \in [msg : 0..MaxMessage, via : Ref]
    BY MessageAssumption DEF Idle, Ref
  <2>2. 0 \in 0..MaxMessage /\ << >> \in Seq(1..MaxMessage)
    BY MessageAssumption
  <2> QED BY <2>1, <2>2 DEF Init, RestOk
<1>4. SocketInv /\ RestOk => TypeOK
  BY DEF SocketInv, StartersFit, RestOk, TypeOK
<1> QED BY <1>1, <1>2, <1>3, <1>4, SocketStep, OrderStep, RestStep, PTL DEF Spec

-----------------------------------------------------------------------------
(* The manager as a queue of messages *)

Settled == submitted - Pending

(* The tasks that wait have the last numbers, and the one before them is in the
   executor's hands. *)
NumbersInv ==
  /\ submitted \in Nat
  /\ tasks \in Seq(Nat)
  /\ written \in Seq(Nat)
  /\ Pending <= submitted
  /\ \A i \in 1..Len(tasks) : tasks[i] = submitted - Len(tasks) + i
  /\ sending # Idle => sending.msg = submitted - Len(tasks)

Submits ==
  /\ submitted' = submitted + 1
  /\ tasks' = Append(tasks, submitted')
  /\ UNCHANGED <<sending, written, lost>>

LEMMA AppendIsSeq ==
  ASSUME NEW S, NEW q \in Seq(S), NEW e \in S
  PROVE  Append(q, e) \in Seq(S)
OBVIOUS

(* Whoever calls sendMessage(), the messages change in one of these ways. *)
LEMMA SendSteps ==
  [Next]_vars => UNCHANGED orderVars \/ Submits \/ ExecutorStep
<1> SUFFICES ASSUME [Next]_vars, ~ExecutorStep PROVE UNCHANGED orderVars \/ Submits
  OBVIOUS
<1>1. CASE sendMessage
  BY <1>1 DEF sendMessage, Submits
<1>2. CASE CheckStep
  BY <1>2 DEF CheckStep, CheckSeesNone, CheckSeesClient, CheckStarts, CheckNull, Queued, sendVars,
     orderVars, Submits
<1>3. CASE Start \/ sopTcpConnect \/ sopForgets
  BY <1>3 DEF Start, sopTcpConnect, sopForgets, sendVars, orderVars
<1>4. ASSUME NEW t \in Thread, StartThreadStep(t) PROVE UNCHANGED orderVars
  BY <1>4 DEF StartThreadStep, AssignClient, CallStart, CallStartNull, Connects, ConnectFails,
     RunClient, sendVars, orderVars
<1>5. ASSUME NEW t \in Thread,
             KeepAliveStep(t) \/ ReceiveThrows(t) \/ ReceiveEnds(t) \/ ServerCloses(t)
      PROVE UNCHANGED orderVars
  BY <1>5 DEF KeepAliveStep, KeepAliveSends, KeepAliveThrows, KeepAliveEnds, ReceiveThrows,
     ReceiveEnds, ServerCloses, sendVars, orderVars
<1>6. CASE UNCHANGED vars
  BY <1>6 DEF vars, sendVars, orderVars
<1> QED BY <1>1, <1>2, <1>3, <1>4, <1>5, <1>6 DEF Next

(* A call of sendMessage() takes the next number and settles nothing. *)
LEMMA SubmitIsQueued ==
  ASSUME NumbersInv, Submits
  PROVE  NumbersInv' /\ Queue!Submit
<1>1. /\ tasks' \in Seq(Nat) /\ Len(tasks') = Len(tasks) + 1
      /\ \A i \in 1..Len(tasks) : tasks'[i] = tasks[i]
      /\ tasks'[Len(tasks) + 1] = submitted + 1
  BY DEF NumbersInv, Submits
<1>2. submitted' = submitted + 1 /\ Len(tasks) \in Nat /\ submitted \in Nat
  BY DEF NumbersInv, Submits
<1>3. Pending' = Pending + 1
  BY <1>1, <1>2 DEF Pending, Submits
<1>4. ASSUME NEW i \in 1..Len(tasks') PROVE tasks'[i] = submitted' - Len(tasks') + i
  <2>1. CASE i \in 1..Len(tasks)
    <3>1. tasks'[i] = submitted - Len(tasks) + i
      BY <1>1, <2>1 DEF NumbersInv
    <3> QED BY <1>1, <1>2, <3>1
  <2>2. CASE i = Len(tasks) + 1
    BY <1>1, <1>2, <2>2
  <2> QED BY <1>1, <1>2, <2>1, <2>2
<1>5. sending' # Idle => sending'.msg = submitted' - Len(tasks')
  BY <1>1, <1>2 DEF NumbersInv, Submits
<1>6. Pending \in Nat /\ written' \in Seq(Nat)
  BY <1>2 DEF Pending, NumbersInv, Submits
<1>7. NumbersInv'
  BY <1>1, <1>2, <1>3, <1>4, <1>5, <1>6 DEF NumbersInv
<1>8. Queue!Submit
  BY <1>2, <1>3, <1>6 DEF Queue!Submit, Submits
<1> QED BY <1>7, <1>8

(* The executor takes the oldest message: nothing is settled yet. *)
LEMMA TakeSettlesNothing ==
  ASSUME NumbersInv, ExecutorTakes
  PROVE  NumbersInv' /\ UNCHANGED Queue!vars
<1>1. /\ sending = Idle /\ tasks # << >> /\ tasks \in Seq(Nat)
      /\ sending'.msg = Head(tasks) /\ tasks' = Tail(tasks)
      /\ UNCHANGED <<submitted, written, lost>>
  BY DEF ExecutorTakes, NumbersInv
<1>2. /\ Head(tasks) = tasks[1] /\ Len(tasks) \in Nat \ {0}
      /\ tasks' \in Seq(Nat) /\ Len(tasks') = Len(tasks) - 1
      /\ \A i \in 1..Len(tasks') : tasks'[i] = tasks[i + 1]
  BY <1>1
<1>3. submitted \in Nat /\ Pending = Len(tasks) /\ Pending <= submitted
  BY <1>1 DEF NumbersInv, Pending
<1>4. sending'.msg = submitted - Len(tasks) + 1
  BY <1>1, <1>2 DEF NumbersInv
<1>5. sending' # Idle
  BY <1>2, <1>3, <1>4 DEF Idle
<1>6. Pending' = Pending
  BY <1>2, <1>3, <1>5 DEF Pending
<1>7. \A i \in 1..Len(tasks') : tasks'[i] = submitted' - Len(tasks') + i
  BY <1>1, <1>2, <1>3 DEF NumbersInv
<1>8. NumbersInv'
  BY <1>1, <1>2, <1>3, <1>4, <1>6, <1>7 DEF NumbersInv
<1> QED BY <1>1, <1>6, <1>8 DEF Queue!vars

(* A write, or its exception, settles the message in its turn. *)
LEMMA ExecutorSettles ==
  ASSUME NumbersInv, ExecutorWrites \/ ExecutorLoses
  PROVE  NumbersInv' /\ (Queue!Deliver \/ Queue!Lose)
<1>1. sending # Idle /\ sending' = Idle /\ UNCHANGED <<submitted, tasks>>
  BY DEF ExecutorWrites, ExecutorLoses
<1>2. /\ submitted \in Nat /\ Len(tasks) \in Nat
      /\ Pending = Len(tasks) + 1 /\ Pending' = Len(tasks) /\ Pending <= submitted
  BY <1>1 DEF NumbersInv, Pending
<1>3. sending.msg = Settled + 1 /\ Settled' = Settled + 1 /\ Settled < submitted
  BY <1>1, <1>2 DEF NumbersInv, Settled
<1>4. Queue!Settle
  BY <1>1, <1>3 DEF Queue!Settle, Settled
<1>5. sending.msg \in Nat
  BY <1>1, <1>2 DEF NumbersInv
<1>6. written' \in Seq(Nat)
  <2>1. written' = Append(written, sending.msg) \/ written' = written
    BY DEF ExecutorWrites, ExecutorLoses
  <2>2. written \in Seq(Nat)
    BY DEF NumbersInv
  <2>3. Append(written, sending.msg) \in Seq(Nat)
    BY <1>5, <2>2, AppendIsSeq
  <2> QED BY <2>1, <2>2, <2>3
<1>7. NumbersInv'
  BY <1>1, <1>2, <1>6 DEF NumbersInv
<1>8. Queue!Deliver \/ Queue!Lose
  BY <1>3, <1>4 DEF ExecutorWrites, ExecutorLoses, Queue!Deliver, Queue!Lose, Settled
<1> QED BY <1>7, <1>8

(* Every step of the manager is one of the queue, or leaves the queue alone. *)
LEMMA QueueStep == NumbersInv /\ [Next]_vars => NumbersInv' /\ [Queue!Next]_(Queue!vars)
<1> SUFFICES ASSUME NumbersInv, [Next]_vars
             PROVE  NumbersInv' /\ [Queue!Next]_(Queue!vars)
  OBVIOUS
<1>1. CASE UNCHANGED orderVars
  BY <1>1 DEF orderVars, NumbersInv, Pending, Queue!vars
<1>2. CASE Submits
  BY <1>2, SubmitIsQueued DEF Queue!Next
<1>3. CASE ExecutorTakes
  BY <1>3, TakeSettlesNothing
<1>4. CASE ExecutorWrites \/ ExecutorLoses
  BY <1>4, ExecutorSettles DEF Queue!Next
<1> QED BY <1>1, <1>2, <1>3, <1>4, SendSteps DEF ExecutorStep

LEMMA QueueStarts == Init => NumbersInv /\ Queue!Init /\ NoneForgotten
<1> SUFFICES ASSUME Init PROVE NumbersInv /\ Queue!Init /\ NoneForgotten
  OBVIOUS
<1>1. /\ submitted = 0 /\ Len(tasks) = 0 /\ sending = Idle /\ written = << >> /\ lost = {}
      /\ tasks \in Seq(Nat) /\ written \in Seq(Nat)
  BY DEF Init
<1>2. Pending = 0
  BY <1>1 DEF Pending
<1> QED BY <1>1, <1>2 DEF NumbersInv, Queue!Init, NoneForgotten

(* However starts, stops and failures interleave, sendMessage() is the queue of
   MessageQueue: messages are settled in order, each is written once or lost. *)
THEOREM ImplementsQueue == Spec => ImplementsMessageQueue
<1> QED BY QueueStarts, QueueStep, PTL DEF Spec, ImplementsMessageQueue, Queue!Spec

(* A queue forgets nothing. *)
LEMMA QueueForgetsNothing ==
  NumbersInv /\ NoneForgotten /\ [Queue!Next]_(Queue!vars) => NoneForgotten'
<1> SUFFICES ASSUME NumbersInv, NoneForgotten, [Queue!Next]_(Queue!vars) PROVE NoneForgotten'
  OBVIOUS
<1> DEFINE sent == {written[i] : i \in DOMAIN written}
<1>1. Settled \in Nat
  BY DEF NumbersInv, Pending, Settled
<1>2. sent \cup lost = 1..Settled /\ sent \cap lost = {}
  BY DEF NoneForgotten, Settled
<1>3. 1..(Settled + 1) = (1..Settled) \cup {Settled + 1} /\ Settled + 1 \notin 1..Settled
  BY <1>1
<1>4. CASE Queue!Submit \/ UNCHANGED Queue!vars
  <2>1. Settled' = Settled /\ written' = written /\ lost' = lost
    BY <1>4 DEF Queue!Submit, Queue!vars, Settled
  <2> QED BY <1>2, <2>1 DEF NoneForgotten, Settled
<1>5. CASE Queue!Lose
  <2>1. Settled' = Settled + 1 /\ written' = written /\ lost' = lost \cup {Settled + 1}
    BY <1>5 DEF Queue!Lose, Queue!Settle, Settled
  <2> QED BY <1>2, <1>3, <2>1 DEF NoneForgotten, Settled
<1>6. CASE Queue!Deliver
  <2>1. Settled' = Settled + 1 /\ written' = Append(written, Settled + 1) /\ lost' = lost
    BY <1>6 DEF Queue!Deliver, Queue!Settle, Settled
  <2>2. /\ DOMAIN written = 1..Len(written) /\ DOMAIN written' = 1..(Len(written) + 1)
        /\ Len(written) \in Nat
        /\ \A i \in 1..Len(written) : written'[i] = written[i]
        /\ written'[Len(written) + 1] = Settled + 1
    BY <1>1, <2>1 DEF NumbersInv
  <2>3. sent' = sent \cup {Settled + 1}
    BY <2>2
  <2> HIDE DEF sent
  <2>4. sent' \cup lost' = 1..Settled' /\ sent' \cap lost' = {}
    BY <1>2, <1>3, <2>1, <2>3
  <2> QED BY <2>4 DEF NoneForgotten, Settled, sent
<1> QED BY <1>4, <1>5, <1>6 DEF Queue!Next

(* Every message handed to sendMessage() waits, is in the executor's hands, was
   written, or its exception was printed, and never two of these. *)
THEOREM NoneForgottenHolds == Spec => []NoneForgotten
<1> QED BY QueueStarts, QueueStep, QueueForgetsNothing, PTL DEF Spec
=============================================================================
