------------------------- MODULE BluetoothUtil_proofs -------------------------
(***************************************************************************)
(* Proofs about BluetoothUtil for every set of sockets, devices, threads   *)
(* and chunks and any number of waiting messages: what the listener was    *)
(* told, what the READ messages show, and where answers go.  The session   *)
(* inside the composition keeps the invariant of BluetoothChatService.     *)
(***************************************************************************)
EXTENDS BluetoothUtil, BluetoothChatService_proofs, SequenceTheorems

Entry == [msg : Message, read : Chunk \cup {None}]
Position == 1..Len(queue)

EventOf(state) == IF state = "CONNECTED" THEN "conntected" ELSE "disConntectd"

(* The state the service is in is the last one announced: in the message that
   waits, behind the name of the device, or to the listener already. *)
AllTold ==
  /\ \A i \in Position : queue[i].msg.what # "STATE_CHANGE"
  /\ listener.event = EventOf(mState)
  /\ mState = "CONNECTED" => listener.name = Remote[mConnectedThread]
Waits(i) ==
  /\ queue[i].msg = StateChange(mState)
  /\ \A j \in Position : j > i => queue[j].msg.what # "STATE_CHANGE"
  /\ mState = "CONNECTED" =>
       \/ i = 1 /\ mConnectedDeviceName = Remote[mConnectedThread]
       \/ i > 1 /\ queue[i - 1].msg = DeviceName(Remote[mConnectedThread])
Announced ==
  (lock = None /\ mState # "NONE") => AllTold \/ \E i \in Position : Waits(i)

(* Where the thread of a connection is from its first read() on. *)
Served == {"reading", "lost", "restart", "free"}

(* Whoever asked, or is about to, is a connection that was served; its identity
   is not that of a new one. *)
ReadersFit ==
  /\ asker # None => pc[asker] \in Served
  /\ \A s \in Socket : pc[s] \in Served \cup {"accepted"}
  /\ \A s \in filled : pc[s] = "reading"
  /\ \A i \in Position : queue[i].msg.what = "READ" => pc[queue[i].msg.arg] \in Served

UtilInv ==
  /\ Inductive
  /\ UtilTypeOK
  /\ mState # "CONNECTING"
  /\ Announced
  /\ ReadersFit
  /\ LastReadIsIntact
  /\ AnswerFollowsAsker

-----------------------------------------------------------------------------
(* What the kinds of message carry. *)
LEMMA MessageShape ==
  ASSUME NEW m \in Message
  PROVE  /\ m.what = "DEVICE_NAME" => m.arg \in Device
         /\ m.what = "READ" => m.arg \in Socket /\ m = Read(m.arg)
         /\ m.what = "STATE_CHANGE" => m.arg \in State /\ m = StateChange(m.arg)
BY DEF Message, StateChange, DeviceName, Toast, Read, Write

(* What appending does to a queue. *)
LEMMA ConcatEntries ==
  ASSUME NEW s \in Seq(Entry), NEW t \in Seq(Entry)
  PROVE  /\ s \o t \in Seq(Entry) /\ Len(s \o t) = Len(s) + Len(t)
         /\ \A i \in 1..(Len(s) + Len(t)) :
              (s \o t)[i] = IF i <= Len(s) THEN s[i] ELSE t[i - Len(s)]
BY ConcatProperties

(* Posting appends the messages of the step to the queue. *)
LEMMA PostedShape ==
  ASSUME queue \in Seq(Entry), out' \in Seq(Message),
         NEW read \in Chunk \cup {None}, Posted(read)
  PROVE  /\ queue' \in Seq(Entry)
         /\ Len(queue') = Len(queue) + Len(out')
         /\ \A i \in 1..Len(queue) : queue'[i] = queue[i]
         /\ \A i \in 1..Len(queue') : i > Len(queue) =>
              /\ i - Len(queue) \in 1..Len(out')
              /\ queue'[i] = [msg |-> out'[i - Len(queue)], read |-> read]
<1> DEFINE new == [i \in DOMAIN out' |-> [msg |-> out'[i], read |-> read]]
<1>1. DOMAIN out' = 1..Len(out') /\ Len(out') \in Nat
  OBVIOUS
<1>2. \A i \in 1..Len(out') : [msg |-> out'[i], read |-> read] \in Entry
  BY DEF Entry
<1>3. /\ new \in Seq(Entry) /\ Len(new) = Len(out')
      /\ \A i \in 1..Len(out') : new[i] = [msg |-> out'[i], read |-> read]
  BY <1>1, <1>2
<1>4. queue' = queue \o new
  BY DEF Posted
<1> HIDE DEF new
<1>5. /\ queue \o new \in Seq(Entry) /\ Len(queue \o new) = Len(queue) + Len(new)
      /\ \A i \in 1..(Len(queue) + Len(new)) :
           (queue \o new)[i] = IF i <= Len(queue) THEN queue[i] ELSE new[i - Len(queue)]
  BY <1>3, ConcatEntries
<1>6. ASSUME NEW i \in 1..Len(queue) PROVE queue'[i] = queue[i]
  BY <1>1, <1>3, <1>4, <1>5
<1>7. ASSUME NEW i \in 1..Len(queue'), i > Len(queue)
      PROVE  /\ i - Len(queue) \in 1..Len(out')
             /\ queue'[i] = [msg |-> out'[i - Len(queue)], read |-> read]
  <2>1. i \in 1..(Len(queue) + Len(new))
    BY <1>4, <1>5
  <2>2. i - Len(queue) \in 1..Len(out')
    BY <1>3, <1>7, <2>1
  <2>3. queue'[i] = new[i - Len(queue)]
    BY <1>4, <1>5, <1>7, <2>1
  <2> QED BY <1>3, <2>2, <2>3
<1> QED BY <1>3, <1>4, <1>5, <1>6, <1>7

(* Handling takes the first message away. *)
LEMMA HandledShape ==
  ASSUME queue \in Seq(Entry), queue # << >>, queue' = Tail(queue)
  PROVE  /\ queue' \in Seq(Entry)
         /\ Len(queue) \in Nat \ {0} /\ Len(queue') = Len(queue) - 1
         /\ \A i \in 1..Len(queue') : i + 1 \in 1..Len(queue) /\ queue'[i] = queue[i + 1]
         /\ Head(queue) = queue[1] /\ queue[1] \in Entry
<1>1. Len(queue) \in Nat \ {0}
  BY EmptySeq
<1>2. /\ Tail(queue) \in Seq(Entry) /\ Len(Tail(queue)) = Len(queue) - 1
      /\ \A i \in 1..Len(Tail(queue)) : Tail(queue)[i] = queue[i + 1]
  BY HeadTailProperties
<1>3. Head(queue) = queue[1] /\ queue[1] \in Entry
  BY <1>1
<1> QED BY <1>1, <1>2, <1>3
-----------------------------------------------------------------------------
(* What a step that posts may do to the service's state. *)
PostsNoState ==
  /\ \A k \in 1..Len(out') : out'[k].what # "STATE_CHANGE"
  /\ lock' # None \/ UNCHANGED <<mState, mConnectedThread, lock>>
PostsState ==
  /\ mState' \in {"LISTEN", "NONE"}
  /\ Len(out') >= 1 /\ out'[Len(out')] = StateChange(mState')
PostsConnected ==
  /\ mState' = "CONNECTED"
  /\ out' = <<DeviceName(Remote[mConnectedThread']), StateChange("CONNECTED")>>

(* However a step posts, the last announcement stays that of the state. *)
LEMMA PostAnnounced ==
  ASSUME queue \in Seq(Entry), out' \in Seq(Message), Announced,
         NEW read \in Chunk \cup {None}, Posted(read),
         UNCHANGED <<listener, mConnectedDeviceName>>,
         PostsNoState \/ PostsState \/ PostsConnected
  PROVE  Announced'
<1> SUFFICES ASSUME lock' = None, mState' # "NONE"
             PROVE  AllTold' \/ \E i \in Position' : Waits(i)'
  BY DEF Announced
<1> DEFINE n == Len(queue)
           k == Len(out')
<1>0. n \in Nat /\ k \in Nat
  OBVIOUS
<1>1. /\ Len(queue') = n + k
      /\ \A i \in 1..n : queue'[i] = queue[i]
      /\ \A i \in 1..(n + k) : i > n => /\ i - n \in 1..k
                                        /\ queue'[i].msg = out'[i - n]
  <2>1. /\ Len(queue') = n + k
        /\ \A i \in 1..n : queue'[i] = queue[i]
        /\ \A i \in 1..Len(queue') : i > n =>
             /\ i - n \in 1..k
             /\ queue'[i] = [msg |-> out'[i - n], read |-> read]
    BY PostedShape
  <2> QED BY <2>1
<1> HIDE DEF n, k
<1>2. CASE PostsNoState
  <2>1. UNCHANGED <<mState, mConnectedThread, lock>>
    BY <1>2 DEF PostsNoState
  <2>2. AllTold \/ \E i \in Position : Waits(i)
    BY <2>1 DEF Announced
  <2>3. \A i \in 1..(n + k) : i > n => queue'[i].msg.what # "STATE_CHANGE"
    BY <1>1, <1>2 DEF PostsNoState, k
  <2>4. CASE AllTold
    <3>1. ASSUME NEW i \in 1..(n + k) PROVE queue'[i].msg.what # "STATE_CHANGE"
      <4>1. CASE i > n
        BY <2>3, <4>1
      <4>2. CASE ~(i > n)
        <5>1. i \in 1..n
          BY <4>2, <1>0
        <5> QED BY <5>1, <2>4, <1>1 DEF AllTold, Position, n
      <4> QED BY <4>1, <4>2
    <3>2. AllTold'
      BY <3>1, <2>1, <2>4, <1>1 DEF AllTold, Position
    <3> QED BY <3>2
  <2>5. ASSUME NEW i \in Position, Waits(i) PROVE Waits(i)' /\ i \in Position'
    <3>1. i \in 1..n /\ i \in 1..(n + k)
      BY <1>0 DEF Position, n
    <3>2. queue'[i].msg = StateChange(mState')
      BY <3>1, <2>1, <2>5, <1>1 DEF Waits
    <3>3. ASSUME NEW j \in 1..(n + k), j > i PROVE queue'[j].msg.what # "STATE_CHANGE"
      <4>1. CASE j > n
        BY <2>3, <4>1
      <4>2. CASE ~(j > n)
        <5>1. j \in 1..n
          BY <4>2, <1>0
        <5>2. queue[j].msg.what # "STATE_CHANGE"
          BY <5>1, <3>3, <2>5 DEF Waits, Position, n
        <5> QED BY <5>1, <5>2, <1>1
      <4> QED BY <4>1, <4>2
    <3>4. ASSUME i > 1 PROVE queue'[i - 1] = queue[i - 1]
      <4>1. i - 1 \in 1..n
        BY <3>1, <3>4, <1>0
      <4> QED BY <4>1, <1>1
    <3> QED BY <3>1, <3>2, <3>3, <3>4, <2>1, <2>5, <1>1 DEF Waits, Position
  <2> QED BY <2>2, <2>4, <2>5
<1>3. CASE PostsState
  <2>1. PICK q \in Nat : q = n + k
    BY <1>0
  <2>2. q \in 1..(n + k) /\ q > n /\ q - n = k
    BY <2>1, <1>0, <1>3 DEF PostsState, k
  <2>3. queue'[q].msg = out'[q - n]
    BY <2>2, <1>1
  <2>4. out'[k] = StateChange(mState') /\ mState' # "CONNECTED"
    BY <1>3 DEF PostsState, k
  <2>5. queue'[q].msg = StateChange(mState')
    BY <2>2, <2>3, <2>4
  <2>6. \A j \in 1..(n + k) : ~(j > q)
    BY <2>1, <1>0
  <2>7. Waits(q)'
    BY <2>4, <2>5, <2>6, <1>1 DEF Waits, Position
  <2> QED BY <2>2, <2>7, <1>1 DEF Position
<1>4. CASE PostsConnected
  <2>1. k = 2 /\ out'[1] = DeviceName(Remote[mConnectedThread'])
        /\ out'[2] = StateChange("CONNECTED")
    BY <1>4 DEF PostsConnected, k
  <2>2. PICK p \in Nat : p = n + 1
    BY <1>0
  <2>3. PICK q \in Nat : q = n + 2
    BY <1>0
  <2>4. /\ p \in 1..(n + k) /\ p > n /\ p - n = 1
        /\ q \in 1..(n + k) /\ q > n /\ q - n = 2 /\ q - 1 = p /\ q > 1
    BY <2>1, <2>2, <2>3, <1>0
  <2>5. queue'[p].msg = out'[p - n] /\ queue'[q].msg = out'[q - n]
    BY <2>4, <1>1
  <2>6. queue'[p].msg = DeviceName(Remote[mConnectedThread'])
        /\ queue'[q].msg = StateChange("CONNECTED")
    BY <2>1, <2>4, <2>5
  <2>7. \A j \in 1..(n + k) : ~(j > q)
    BY <2>1, <2>3, <1>0
  <2>8. Waits(q)'
    <3>1. queue'[q].msg = StateChange(mState')
      BY <2>6, <1>4 DEF PostsConnected
    <3>2. queue'[q - 1].msg = DeviceName(Remote[mConnectedThread'])
      BY <2>4, <2>6
    <3> QED BY <3>1, <3>2, <2>4, <2>7, <1>1 DEF Waits, Position
  <2> QED BY <2>4, <2>8, <1>1 DEF Position
<1> QED BY <1>2, <1>3, <1>4

(* What a step that posts may do to the READ messages that wait. *)
PostsNoRead == \A k \in 1..Len(out') : out'[k].what # "READ"

(* Other messages leave those of the reading threads alone. *)
LEMMA PostIntact ==
  ASSUME queue \in Seq(Entry), out' \in Seq(Message), LastReadIsIntact,
         NEW read \in Chunk \cup {None}, Posted(read), PostsNoRead,
         UNCHANGED <<buffer, filled>>
  PROVE  LastReadIsIntact'
<1>1. /\ queue' \in Seq(Entry) /\ Len(queue') = Len(queue) + Len(out')
      /\ \A i \in 1..Len(queue) : queue'[i] = queue[i]
      /\ \A i \in 1..Len(queue') : i > Len(queue) =>
           /\ i - Len(queue) \in 1..Len(out')
           /\ queue'[i] = [msg |-> out'[i - Len(queue)], read |-> read]
  BY PostedShape
<1>2. DOMAIN queue' = 1..Len(queue') /\ DOMAIN queue = 1..Len(queue)
      /\ Len(queue) \in Nat /\ Len(out') \in Nat
  BY <1>1
<1>3. SUFFICES ASSUME NEW i \in 1..Len(queue'), queue'[i].msg.what = "READ",
                      queue'[i].msg.arg \notin filled,
                      \A j \in 1..Len(queue') : j > i => queue'[j].msg # Read(queue'[i].msg.arg)
               PROVE  queue'[i].read = buffer[queue'[i].msg.arg]
  BY <1>2 DEF LastReadIsIntact
<1>4. i \in 1..Len(queue)
  <2>1. i > Len(queue) => queue'[i].msg.what # "READ"
    BY <1>1 DEF PostsNoRead
  <2> QED BY <2>1, <1>2, <1>3
<1>5. queue'[i] = queue[i]
  BY <1>1, <1>4
<1>6. ASSUME NEW j \in 1..Len(queue), j > i PROVE queue[j].msg # Read(queue[i].msg.arg)
  <2>1. j \in 1..Len(queue') /\ queue'[j] = queue[j]
    BY <1>1, <1>2
  <2> QED BY <2>1, <1>3, <1>5, <1>6
<1> QED BY <1>2, <1>3, <1>4, <1>5, <1>6 DEF LastReadIsIntact

(* The READ that a thread sends shows its buffer, and becomes the last one. *)
LEMMA ReadSentIntact ==
  ASSUME queue \in Seq(Entry), LastReadIsIntact, buffer \in [Socket -> Chunk \cup {None}],
         NEW s \in Socket, ReadSent(s)
  PROVE  LastReadIsIntact'
<1>0. out' = <<Read(s)>> /\ Posted(buffer[s]) /\ buffer' = buffer /\ filled' = filled \ {s}
  BY DEF ReadSent
<1>1. out' \in Seq(Message) /\ Len(out') = 1 /\ out'[1] = Read(s)
  <2>1. Read(s) \in Message
    BY MessageTypes
  <2> QED BY <2>1, <1>0
<1>2. /\ queue' \in Seq(Entry) /\ Len(queue') = Len(queue) + Len(out')
      /\ \A i \in 1..Len(queue) : queue'[i] = queue[i]
      /\ \A i \in 1..Len(queue') : i > Len(queue) =>
           /\ i - Len(queue) \in 1..Len(out')
           /\ queue'[i] = [msg |-> out'[i - Len(queue)], read |-> buffer[s]]
  BY <1>0, <1>1, PostedShape
<1>3. DOMAIN queue' = 1..Len(queue') /\ DOMAIN queue = 1..Len(queue) /\ Len(queue) \in Nat
  BY <1>2
<1>4. PICK last \in Nat : last = Len(queue) + 1
  BY <1>3
<1>5. /\ last \in 1..Len(queue') /\ Len(queue') = last
      /\ queue'[last] = [msg |-> Read(s), read |-> buffer[s]]
  <2>1. last \in 1..Len(queue') /\ Len(queue') = last /\ last > Len(queue)
    BY <1>1, <1>2, <1>3, <1>4
  <2>2. last - Len(queue) \in 1..Len(out') /\ last - Len(queue) = 1
    BY <1>3, <1>4, <1>1
  <2>3. queue'[last] = [msg |-> out'[last - Len(queue)], read |-> buffer[s]]
    BY <1>2, <2>1
  <2> QED BY <2>1, <2>2, <2>3, <1>1
<1>6. SUFFICES ASSUME NEW i \in 1..Len(queue'), queue'[i].msg.what = "READ",
                      queue'[i].msg.arg \notin filled',
                      \A j \in 1..Len(queue') : j > i => queue'[j].msg # Read(queue'[i].msg.arg)
               PROVE  queue'[i].read = buffer[queue'[i].msg.arg]
  BY <1>0, <1>3 DEF LastReadIsIntact
<1>7. CASE i = last
  BY <1>5, <1>7 DEF Read
<1>8. CASE i # last
  <2>1. i \in 1..Len(queue) /\ last > i
    BY <1>3, <1>4, <1>5, <1>8
  <2>2. queue'[i] = queue[i]
    BY <1>2, <2>1
  <2>3. queue[i].msg.arg # s
    BY <1>5, <1>6, <2>1, <2>2
  <2>4. queue[i].msg.arg \notin filled
    BY <1>0, <1>6, <2>2, <2>3
  <2>5. ASSUME NEW j \in 1..Len(queue), j > i PROVE queue[j].msg # Read(queue[i].msg.arg)
    <3>1. j \in 1..Len(queue') /\ queue'[j] = queue[j]
      BY <1>2, <1>3, <1>4, <1>5
    <3> QED BY <3>1, <2>2, <2>5, <1>6
  <2> QED BY <2>1, <2>2, <2>4, <2>5, <1>3, <1>6 DEF LastReadIsIntact
<1> QED BY <1>7, <1>8

(* A read() overwrites only what its own thread put into its own buffer. *)
LEMMA ReadIntoIntact ==
  ASSUME LastReadIsIntact, NEW s \in Socket, NEW c \in Chunk, ReadInto(s, c)
  PROVE  LastReadIsIntact'
BY DEF ReadInto, LastReadIsIntact, Read

(* Taking the first message away leaves the others as they are. *)
LEMMA HandleIntact ==
  ASSUME queue \in Seq(Entry), queue # << >>, queue' = Tail(queue),
         UNCHANGED <<buffer, filled>>, LastReadIsIntact
  PROVE  LastReadIsIntact'
<1>1. /\ queue' \in Seq(Entry)
      /\ Len(queue) \in Nat \ {0} /\ Len(queue') = Len(queue) - 1
      /\ \A i \in 1..Len(queue') : i + 1 \in 1..Len(queue) /\ queue'[i] = queue[i + 1]
  BY HandledShape
<1>2. DOMAIN queue' = 1..Len(queue') /\ DOMAIN queue = 1..Len(queue)
  BY <1>1
<1>3. SUFFICES ASSUME NEW i \in 1..Len(queue'), queue'[i].msg.what = "READ",
                      queue'[i].msg.arg \notin filled,
                      \A j \in 1..Len(queue') : j > i => queue'[j].msg # Read(queue'[i].msg.arg)
               PROVE  queue'[i].read = buffer[queue'[i].msg.arg]
  BY <1>2 DEF LastReadIsIntact
<1>4. PICK p \in Nat : p = i + 1
  BY <1>1
<1>5. p \in 1..Len(queue) /\ queue'[i] = queue[p]
  BY <1>1, <1>4
<1>6. ASSUME NEW j \in 1..Len(queue), j > p PROVE queue[j].msg # Read(queue[p].msg.arg)
  <2>1. PICK m \in Int : m = j - 1
    BY <1>1
  <2>2. m \in 1..Len(queue') /\ m > i /\ m + 1 = j
    BY <1>1, <1>4, <1>5, <1>6, <2>1
  <2>3. queue'[m] = queue[j]
    BY <1>1, <2>2
  <2> QED BY <1>3, <1>5, <2>2, <2>3
<1> QED BY <1>2, <1>3, <1>5, <1>6 DEF LastReadIsIntact

(* A message that waits behind the first moves up by one. *)
LEMMA HandledWaits ==
  ASSUME queue \in Seq(Entry), queue # << >>, queue' = Tail(queue),
         UNCHANGED <<mState, mConnectedThread>>,
         NEW i \in Position, i # 1, Waits(i),
         i = 2 /\ mState = "CONNECTED" => mConnectedDeviceName' = Remote[mConnectedThread]
  PROVE  \E p \in Position' : Waits(p)'
<1>1. /\ Len(queue) \in Nat \ {0} /\ Len(queue') = Len(queue) - 1
      /\ \A k \in 1..Len(queue') : k + 1 \in 1..Len(queue) /\ queue'[k] = queue[k + 1]
  BY HandledShape
<1>2. PICK p \in Int : p = i - 1
  BY <1>1 DEF Position
<1>3. p \in 1..Len(queue') /\ p + 1 = i
  BY <1>1, <1>2 DEF Position
<1>4. queue'[p] = queue[i]
  BY <1>1, <1>3
<1>5. ASSUME NEW j \in 1..Len(queue'), j > p PROVE queue'[j].msg.what # "STATE_CHANGE"
  <2>1. PICK m \in Int : m = j + 1
    BY <1>1
  <2>2. m \in Position /\ m > i /\ queue'[j] = queue[m]
    BY <1>1, <1>3, <1>5, <2>1 DEF Position
  <2> QED BY <2>2 DEF Waits
<1>6. ASSUME mState = "CONNECTED", i # 2
      PROVE  p > 1 /\ queue'[p - 1].msg = DeviceName(Remote[mConnectedThread])
  <2>1. p > 1
    BY <1>3, <1>6, <1>1
  <2>2. PICK m \in Int : m = p - 1
    BY <1>3
  <2>3. m \in 1..Len(queue') /\ m + 1 = p
    BY <1>1, <1>3, <2>1, <2>2
  <2>4. queue'[m] = queue[m + 1]
    BY <1>1, <2>3
  <2>5. queue'[m] = queue[p]
    BY <2>3, <2>4
  <2>6. queue[i - 1].msg = DeviceName(Remote[mConnectedThread])
    BY <1>6 DEF Waits
  <2>7. queue[p].msg = DeviceName(Remote[mConnectedThread])
    BY <1>2, <2>6
  <2> QED BY <2>1, <2>2, <2>5, <2>7
<1>7. i = 2 => p = 1
  BY <1>2
<1>8. Waits(p)'
  <2>1. queue'[p].msg = StateChange(mState')
    BY <1>4 DEF Waits
  <2>2. ASSUME mState' = "CONNECTED"
        PROVE  \/ p = 1 /\ mConnectedDeviceName' = Remote[mConnectedThread]
               \/ p > 1 /\ queue'[p - 1].msg = DeviceName(Remote[mConnectedThread])
    BY <1>6, <1>7, <2>2
  <2> QED BY <1>5, <2>1, <2>2 DEF Waits, Position
<1> QED BY <1>3, <1>8 DEF Position

(* Handling a message keeps the announcements in order. *)
LEMMA HandleAnnounced ==
  ASSUME queue \in Seq(Entry), mState \in State, mState # "CONNECTING", Announced, HandleMessage
  PROVE  Announced'
<1>1. /\ queue # << >> /\ queue' = Tail(queue)
      /\ UNCHANGED <<mState, mConnectedThread, lock>>
  BY DEF HandleMessage, HandleStateChange, HandleDeviceName, HandleRead, HandleWriteOrToast,
         Handles, threadVars
<1>2. /\ Len(queue) \in Nat \ {0} /\ Len(queue') = Len(queue) - 1
      /\ \A k \in 1..Len(queue') : k + 1 \in 1..Len(queue) /\ queue'[k] = queue[k + 1]
      /\ Head(queue) = queue[1]
  BY <1>1, HandledShape
<1> SUFFICES ASSUME lock = None, mState # "NONE"
             PROVE  AllTold' \/ \E i \in Position' : Waits(i)'
  BY <1>1 DEF Announced
<1>3. AllTold \/ \E i \in Position : Waits(i)
  BY DEF Announced
<1>4. 1 \in Position
  BY <1>2 DEF Position
<1>5. CASE HandleStateChange
  <2>1. queue[1].msg.what = "STATE_CHANGE" /\ listener' = Told(queue[1].msg.arg)
    BY <1>2, <1>5 DEF HandleStateChange, Handles
  <2>2. PICK i \in Position : Waits(i)
    BY <1>3, <1>4, <2>1 DEF AllTold
  <2>3. CASE i = 1
    <3>1. queue[1].msg = StateChange(mState)
      BY <2>2, <2>3 DEF Waits
    <3>2. listener' = Told(mState)
      BY <2>1, <3>1 DEF StateChange
    <3>3. listener'.event = EventOf(mState) /\ listener'.name = mConnectedDeviceName
      BY <3>2 DEF Told, EventOf, State
    <3>4. mState = "CONNECTED" => mConnectedDeviceName = Remote[mConnectedThread]
      BY <2>2, <2>3 DEF Waits
    <3>5. ASSUME NEW k \in 1..Len(queue') PROVE queue'[k].msg.what # "STATE_CHANGE"
      <4>1. PICK m \in Int : m = k + 1
        BY <1>2
      <4>2. m \in Position /\ m > i /\ queue'[k] = queue[m]
        BY <1>2, <2>3, <4>1 DEF Position
      <4> QED BY <2>2, <4>2 DEF Waits
    <3>6. AllTold'
      BY <1>1, <3>3, <3>4, <3>5 DEF AllTold, Position
    <3> QED BY <3>6
  <2>4. CASE i # 1
    <3>1. ~(i = 2 /\ mState = "CONNECTED")
      <4>1. SUFFICES ASSUME i = 2, mState = "CONNECTED" PROVE FALSE
        OBVIOUS
      <4>2. queue[i - 1].msg = DeviceName(Remote[mConnectedThread])
        BY <2>2, <4>1 DEF Waits
      <4>3. i - 1 = 1
        BY <4>1
      <4> QED BY <2>1, <4>2, <4>3 DEF DeviceName
    <3> QED BY <1>1, <2>2, <2>4, <3>1, HandledWaits
  <2> QED BY <2>3, <2>4
<1>6. CASE ~HandleStateChange
  <2>1. /\ queue[1].msg.what # "STATE_CHANGE" /\ listener' = listener
        /\ queue[1].msg.what = "DEVICE_NAME" => mConnectedDeviceName' = queue[1].msg.arg
    BY <1>2, <1>6 DEF HandleMessage, HandleStateChange, HandleDeviceName, HandleRead,
       HandleWriteOrToast, Handles
  <2>2. CASE AllTold
    <3>1. ASSUME NEW k \in 1..Len(queue') PROVE queue'[k].msg.what # "STATE_CHANGE"
      BY <1>2, <2>2 DEF AllTold, Position
    <3>2. AllTold'
      BY <1>1, <2>1, <2>2, <3>1 DEF AllTold, Position
    <3> QED BY <3>2
  <2>3. ASSUME NEW i \in Position, Waits(i) PROVE \E p \in Position' : Waits(p)'
    <3>1. i # 1
      BY <2>1, <2>3 DEF Waits, StateChange
    <3>2. ASSUME i = 2, mState = "CONNECTED"
          PROVE  mConnectedDeviceName' = Remote[mConnectedThread]
      <4>1. queue[i - 1].msg = DeviceName(Remote[mConnectedThread])
        BY <2>3, <3>2 DEF Waits
      <4>2. i - 1 = 1
        BY <3>2
      <4> QED BY <2>1, <4>1, <4>2 DEF DeviceName
    <3> QED BY <1>1, <2>3, <3>1, <3>2, HandledWaits
  <2> QED BY <1>3, <2>2, <2>3
<1> QED BY <1>5, <1>6

-----------------------------------------------------------------------------
(* What a step of the service means to the queue and to those who asked: how
   threads move on, and that a socket opens only when it is accepted. *)
Moves(s) ==
  \/ pc'[s] = pc[s]
  \/ s \notin filled /\ pc[s] # "free" /\ pc'[s] \in Served
  \/ pc[s] = "free" /\ pc'[s] = "accepted"
Opens(s) == Open(s)' => Open(s) \/ pc'[s] = "accepted"
Effect ==
  /\ mState' # "CONNECTING"
  /\ PostsNoState \/ PostsState \/ PostsConnected
  /\ PostsNoRead
  /\ \A s \in Socket : Moves(s) /\ Opens(s)

(* What one more message does to those of a step. *)
LEMMA AppendMessage ==
  ASSUME NEW s \in Seq(Message), NEW m \in Message
  PROVE  /\ Len(Append(s, m)) = Len(s) + 1
         /\ \A k \in 1..Len(s) : Append(s, m)[k] = s[k]
         /\ Append(s, m)[Len(s) + 1] = m
BY AppendProperties

(* start() announces LISTEN, after a toast if there is one. *)
LEMMA StartEffect ==
  ASSUME Inductive,
         NEW msgs, msgs = << >> \/ msgs = <<Toast("lost")>>, startSome(msgs),
         \A s \in Socket : Moves(s)
  PROVE  Effect
<1>1. /\ mState' = "LISTEN" /\ out' = Append(msgs, StateChange("LISTEN"))
      /\ sock' = SocketsCancelled
  BY DEF startSome, start
<1>2. PostsState /\ PostsNoRead
  <2>1. CASE msgs = << >>
    BY <1>1, <2>1 DEF PostsState, PostsNoRead, StateChange
  <2>2. CASE msgs = <<Toast("lost")>>
    <3>1. Toast("lost") \in Message /\ StateChange("LISTEN") \in Message
      BY MessageTypes DEF State
    <3>2. msgs \in Seq(Message) /\ Len(msgs) = 1 /\ msgs[1] = Toast("lost")
      BY <2>2, <3>1
    <3>3. Len(out') = 2 /\ out'[1] = Toast("lost") /\ out'[2] = StateChange("LISTEN")
      <4>1. /\ Len(Append(msgs, StateChange("LISTEN"))) = Len(msgs) + 1
            /\ \A k \in 1..Len(msgs) : Append(msgs, StateChange("LISTEN"))[k] = msgs[k]
            /\ Append(msgs, StateChange("LISTEN"))[Len(msgs) + 1] = StateChange("LISTEN")
        BY <3>1, <3>2, AppendMessage
      <4>2. 1 \in 1..Len(msgs) /\ Len(msgs) + 1 = 2
        BY <3>2
      <4> QED BY <1>1, <3>2, <4>1, <4>2
    <3> QED BY <1>1, <3>3 DEF PostsState, PostsNoRead, StateChange, Toast
  <2> QED BY <2>1, <2>2
<1>3. \A s \in Socket : Opens(s)
  BY <1>1 DEF Opens, Open, SocketsCancelled
<1> QED BY <1>1, <1>2, <1>3 DEF Effect

(* The messages of a step of the service's threads, by thread and step. *)
LEMMA ThreadEffect ==
  ASSUME Inductive, ReadersFit, mState # "CONNECTING", ~crashed, ThreadStep
  PROVE  Inductive' /\ Effect /\ UNCHANGED uiVars
<1>1. CASE connectedPosts
  <2>1. Inductive'
    BY <1>1, ConnectedPostsInductive
  <2>2. mConnectedThread' = lock
    BY <1>1 DEF connectedPosts, Inductive, ReferencesFit
  <2>3. PostsConnected /\ PostsNoRead
    BY <1>1, <2>2 DEF connectedPosts, PostsConnected, PostsNoRead, DeviceName, StateChange
  <2> QED BY <1>1, <2>1, <2>3 DEF connectedPosts, Effect, Moves, Opens, Open, sockVars
<1>2. ASSUME NEW s \in Socket, LinkLost(s) PROVE Inductive' /\ Effect /\ UNCHANGED uiVars
  <2>1. Inductive'
    BY <1>2, SocketThreadInductive
  <2>2. PostsNoState /\ PostsNoRead
    BY <1>2 DEF LinkLost, PostsNoState, PostsNoRead, threadVars
  <2>3. \A t \in Socket : Moves(t) /\ Opens(t)
    BY <1>2 DEF LinkLost, Moves, Opens, Open, Inductive, TypeOK
  <2> QED BY <1>2, <2>1, <2>2, <2>3 DEF LinkLost, Effect, threadVars
<1>3. ASSUME NEW a \in AcceptThreads, NEW s \in Socket, Accept(a, s)
      PROVE  Inductive' /\ Effect /\ UNCHANGED uiVars
  <2>1. Inductive'
    BY <1>3, AcceptInductive
  <2>2. PostsNoState /\ PostsNoRead
    BY <1>3 DEF Accept, PostsNoState, PostsNoRead, threadVars
  <2>3. \A t \in Socket : Moves(t) /\ Opens(t)
    BY <1>3 DEF Accept, Fresh, Moves, Opens, Open, Inductive, TypeOK
  <2> QED BY <1>3, <2>1, <2>2, <2>3 DEF Accept, Effect, threadVars
<1>4. ASSUME NEW s \in Socket \ filled, ConnectedThreadStep(s)
      PROVE  Inductive' /\ Effect /\ UNCHANGED uiVars
  <2>1. Inductive'
    BY <1>4, SocketThreadInductive
  <2>2. CASE ReadThrows(s)
    <3>1. PostsNoState /\ PostsNoRead
      BY <2>2 DEF ReadThrows, PostsNoState, PostsNoRead, threadVars
    <3>2. \A t \in Socket : Moves(t) /\ Opens(t)
      BY <2>2 DEF ReadThrows, Moves, Opens, Open, Inductive, TypeOK, Served
    <3> QED BY <2>1, <2>2, <3>1, <3>2 DEF ReadThrows, Effect, threadVars
  <2>3. CASE connectionLost(s)
    <3>1. \A t \in Socket : Moves(t)
      BY <2>3 DEF connectionLost, Moves, Inductive, TypeOK, Served
    <3> QED BY <2>1, <2>3, <3>1, StartEffect DEF connectionLost
  <2>4. CASE Restart(s)
    <3>1. \A t \in Socket : Moves(t)
      BY <2>4 DEF Restart, Moves, Inductive, TypeOK, Served
    <3> QED BY <2>1, <2>4, <3>1, StartEffect DEF Restart
  <2> QED BY <1>4, <2>2, <2>3, <2>4 DEF ConnectedThreadStep
<1>5. ASSUME NEW a \in AcceptThreads, AcceptThreadStep(a)
      PROVE  Inductive' /\ Effect /\ UNCHANGED uiVars
  <2>1. Inductive'
    BY <1>5, AcceptThreadInductive
  <2>2. CASE AcceptLoop(a) \/ AcceptLeaves(a) \/ AcceptCancelledExit(a) \/ AcceptNull(a)
    <3>1. out' = << >> /\ UNCHANGED <<threadVars, sockVars, uiVars, lock>>
      BY <2>2 DEF AcceptLoop, AcceptLeaves, AcceptCancelledExit, AcceptNull, AcceptEnds
    <3>2. PostsNoState /\ PostsNoRead
      BY <3>1 DEF PostsNoState, PostsNoRead, threadVars
    <3> QED BY <2>1, <3>1, <3>2 DEF Effect, Moves, Opens, Open, threadVars, sockVars
  <2>3. CASE AcceptRefuse(a)
    <3>1. PostsNoState /\ PostsNoRead
      BY <2>3 DEF AcceptRefuse, PostsNoState, PostsNoRead, threadVars
    <3>2. accSocket[a] \in Socket /\ pc[accSocket[a]] = "accepted"
      BY <2>3 DEF AcceptRefuse, Inductive, AcceptedFit
    <3>3. \A t \in Socket : Moves(t) /\ Opens(t)
      BY <2>3, <3>2 DEF AcceptRefuse, Moves, Opens, Open, Inductive, TypeOK, Served, ReadersFit
    <3> QED BY <2>1, <2>3, <3>1, <3>3 DEF AcceptRefuse, Effect, threadVars
  <2>4. CASE AcceptServe(a)
    <3> DEFINE s == accSocket[a]
    <3>1. s \in Socket /\ pc[s] = "accepted" /\ s \notin filled
      BY <2>4 DEF AcceptServe, Inductive, AcceptedFit, ReadersFit
    <3>2. /\ out' = << >> /\ lock' = s /\ mState' = mState
          /\ pc' = [pc EXCEPT ![s] = "reading"] /\ sock' = SocketsCancelled
      BY <2>4 DEF AcceptServe, connected
    <3>3. PostsNoState /\ PostsNoRead
      BY <3>1, <3>2, NoneAssumption DEF PostsNoState, PostsNoRead
    <3>4. \A t \in Socket : Moves(t) /\ Opens(t)
      BY <3>1, <3>2 DEF Moves, Opens, Open, SocketsCancelled, Inductive, TypeOK, Served
    <3> QED BY <2>1, <2>4, <3>2, <3>3, <3>4 DEF AcceptServe, Effect
  <2> QED BY <1>5, <2>2, <2>3, <2>4 DEF AcceptThreadStep
<1> QED BY <1>1, <1>2, <1>3, <1>4, <1>5 DEF ThreadStep

(* The same of the calls of the UI thread and of what it writes. *)
LEMMA UserEffect ==
  ASSUME Inductive, mState # "CONNECTING", ~crashed, UserStart \/ UserStop \/ WriteOut
  PROVE  Inductive' /\ Effect
<1>1. Inductive'
  BY UserStepInductive DEF UserStep
<1>2. CASE UserStart
  <2>1. \A s \in Socket : Moves(s)
    BY <1>2 DEF UserStart, Moves
  <2> QED BY <1>1, <1>2, <2>1, StartEffect DEF UserStart
<1>3. CASE UserStop
  <2>1. PostsState /\ PostsNoRead
    BY <1>3 DEF UserStop, PostsState, PostsNoRead, StateChange
  <2>2. \A s \in Socket : Moves(s) /\ Opens(s)
    BY <1>3 DEF UserStop, Moves, Opens, Open, SocketsCancelled
  <2> QED BY <1>1, <1>3, <2>1, <2>2 DEF UserStop, Effect
<1>4. CASE WriteOut
  <2>1. out' = << >> \/ out' = <<Write(r)>>
    BY <1>4 DEF WriteOut
  <2>2. PostsNoState /\ PostsNoRead
    BY <1>4, <2>1 DEF WriteOut, PostsNoState, PostsNoRead, threadVars, Write
  <2> QED BY <1>1, <1>4, <2>2 DEF WriteOut, Effect, Moves, Opens, Open, threadVars, sockVars
<1> QED BY <1>2, <1>3, <1>4

-----------------------------------------------------------------------------
(* The service's invariant does not depend on what was posted last. *)
LEMMA OutOnly ==
  ASSUME Inductive, out' \in Seq(Message),
         UNCHANGED <<threadVars, accVars, sockVars, uiVars, lock, crashed>>
  PROVE  Inductive'
BY DEF threadVars, accVars, sockVars, uiVars, Inductive, TypeOK, ConnectedHasThread,
   AttemptIsCancellable, ReferencesFit, SocketsFit, AcceptedFit, ListenersFit, NoNullReference

(* A step that posts keeps the invariant. *)
LEMMA PostStep ==
  ASSUME UtilInv, Inductive', Effect, Posted(None), IdentitiesUnused,
         UNCHANGED <<buffer, filled, mConnectedDeviceName, listener>>,
         asker' = None \/ UNCHANGED <<asker, uiVars>>
  PROVE  UtilInv'
<1>1. queue \in Seq(Entry) /\ out' \in Seq(Message)
  BY DEF UtilInv, UtilTypeOK, Entry, Inductive, TypeOK
<1>2. /\ queue' \in Seq(Entry) /\ Len(queue') = Len(queue) + Len(out')
      /\ \A i \in 1..Len(queue) : queue'[i] = queue[i]
      /\ \A i \in 1..Len(queue') : i > Len(queue) =>
           /\ i - Len(queue) \in 1..Len(out')
           /\ queue'[i] = [msg |-> out'[i - Len(queue)], read |-> None]
  BY <1>1, PostedShape
<1>3. Announced'
  BY <1>1, PostAnnounced DEF UtilInv, Effect
<1>4. LastReadIsIntact'
  BY <1>1, PostIntact DEF UtilInv, Effect
<1>5. UtilTypeOK'
  <2>1. TypeOK'
    BY DEF Inductive
  <2>2. asker' \in Socket \cup {None}
    BY DEF UtilInv, UtilTypeOK
  <2> QED BY <1>2, <2>1, <2>2 DEF UtilInv, UtilTypeOK, Entry
<1>6. ASSUME NEW s \in Socket, pc[s] \in Served, pc[s] # "free" \/ pc'[s] = "free"
      PROVE  pc'[s] \in Served
  BY <1>6 DEF Effect, Moves, Served
<1>7. ReadersFit'
  <2>1. asker' # None => pc'[asker'] \in Served
    <3>1. SUFFICES ASSUME asker' # None PROVE pc'[asker] \in Served /\ asker' = asker
      OBVIOUS
    <3>2. asker' = asker /\ asker \in Socket /\ pc[asker] \in Served
      BY <3>1 DEF UtilInv, UtilTypeOK, ReadersFit
    <3>3. pc[asker] # "free" \/ pc'[asker] = "free"
      BY <3>2 DEF IdentitiesUnused
    <3> QED BY <1>6, <3>2, <3>3
  <2>2. \A s \in Socket : pc'[s] \in Served \cup {"accepted"}
    BY DEF UtilInv, ReadersFit, Effect, Moves
  <2>3. \A s \in filled' : pc'[s] = "reading"
    BY DEF UtilInv, UtilTypeOK, ReadersFit, Effect, Moves
  <2>4. ASSUME NEW i \in 1..Len(queue'), queue'[i].msg.what = "READ"
        PROVE  pc'[queue'[i].msg.arg] \in Served
    <3>1. i \in 1..Len(queue)
      <4>1. i > Len(queue) => queue'[i].msg.what # "READ"
        BY <1>2 DEF Effect, PostsNoRead
      <4> QED BY <1>1, <2>4, <4>1
    <3>2. queue'[i] = queue[i] /\ queue[i].msg \in Message
      <4>1. queue[i] \in Entry
        BY <1>1, <3>1
      <4> QED BY <1>2, <3>1, <4>1 DEF Entry
    <3> DEFINE s == queue[i].msg.arg
    <3>3. s \in Socket /\ queue[i].msg = Read(s) /\ pc[s] \in Served
      BY <2>4, <3>1, <3>2, MessageShape DEF UtilInv, ReadersFit, Position
    <3>4. pc[s] # "free" \/ pc'[s] = "free"
      <4>1. i \in DOMAIN queue
        BY <1>1, <3>1
      <4> QED BY <3>3, <4>1 DEF IdentitiesUnused
    <3> QED BY <1>6, <3>2, <3>3, <3>4
  <2> QED BY <2>1, <2>2, <2>3, <2>4 DEF ReadersFit, Position
<1>8. AnswerFollowsAsker'
  <2>1. SUFFICES ASSUME writing', asker' # None PROVE r' = asker' \/ ~Open(asker)'
    BY DEF AnswerFollowsAsker, Open
  <2>2. UNCHANGED <<asker, r, writing>> /\ asker \in Socket
    BY <2>1 DEF uiVars, UtilInv, UtilTypeOK
  <2>3. r = asker \/ ~Open(asker)
    BY <2>1, <2>2 DEF UtilInv, AnswerFollowsAsker
  <2>4. pc'[asker] # "accepted"
    BY <1>7, <2>1, <2>2 DEF ReadersFit, Served
  <2>5. Opens(asker)
    BY <2>2 DEF Effect
  <2> QED BY <2>2, <2>3, <2>4, <2>5 DEF Opens
<1> QED BY <1>3, <1>4, <1>5, <1>7, <1>8 DEF UtilInv, Effect

(* Handling a message keeps the invariant. *)
LEMMA HandleStep ==
  ASSUME UtilInv, HandleMessage
  PROVE  UtilInv'
<1>1. /\ queue # << >> /\ queue' = Tail(queue) /\ asker = None /\ ~writing /\ out' = << >>
      /\ UNCHANGED <<threadVars, accVars, sockVars, uiVars, lock, crashed, buffer, filled>>
  BY DEF HandleMessage, HandleStateChange, HandleDeviceName, HandleRead, HandleWriteOrToast,
         Handles
<1>2. queue \in Seq(Entry)
  BY DEF UtilInv, UtilTypeOK, Entry
<1>3. /\ queue' \in Seq(Entry)
      /\ Len(queue) \in Nat \ {0} /\ Len(queue') = Len(queue) - 1
      /\ \A k \in 1..Len(queue') : k + 1 \in 1..Len(queue) /\ queue'[k] = queue[k + 1]
      /\ Head(queue) = queue[1] /\ queue[1] \in Entry
  BY <1>1, <1>2, HandledShape
<1>4. Inductive'
  BY <1>1, OutOnly, NoMessages DEF UtilInv
<1>5. mState \in State
  BY DEF UtilInv, Inductive, TypeOK
<1>6. Announced'
  BY <1>2, <1>5, HandleAnnounced DEF UtilInv
<1>7. LastReadIsIntact'
  BY <1>1, <1>2, HandleIntact DEF UtilInv
<1>8. asker' \in Socket \cup {None}
      /\ (asker' # None => queue[1].msg.what = "READ" /\ asker' = queue[1].msg.arg)
  <2>1. CASE HandleRead
    <3>1. queue[1].msg.what = "READ" /\ asker' \in {queue[1].msg.arg, None}
      BY <1>3, <2>1 DEF HandleRead, Handles
    <3>2. queue[1].msg.arg \in Socket
      BY <1>3, <3>1, MessageShape DEF Entry
    <3> QED BY <3>1, <3>2
  <2>2. CASE ~HandleRead
    BY <1>1, <2>2 DEF HandleMessage, HandleStateChange, HandleDeviceName, HandleWriteOrToast
  <2> QED BY <2>1, <2>2
<1>9. UtilTypeOK'
  <2>1. TypeOK'
    BY <1>4 DEF Inductive
  <2>2. mConnectedDeviceName' \in Device \cup {None}
    <3>1. CASE HandleDeviceName
      <4>1. queue[1].msg.what = "DEVICE_NAME" /\ mConnectedDeviceName' = queue[1].msg.arg
        BY <1>3, <3>1 DEF HandleDeviceName, Handles
      <4> QED BY <1>3, <4>1, MessageShape DEF Entry
    <3>2. CASE ~HandleDeviceName
      BY <3>2 DEF HandleMessage, HandleStateChange, HandleRead, HandleWriteOrToast, UtilInv,
         UtilTypeOK
    <3> QED BY <3>1, <3>2
  <2>3. listener' \in [event : {"none", "conntected", "conntecting", "disConntectd"},
                       name : Device \cup {None}]
    <3>1. CASE HandleStateChange
      BY <3>1 DEF HandleStateChange, Told, UtilInv, UtilTypeOK
    <3>2. CASE ~HandleStateChange
      BY <3>2 DEF HandleMessage, HandleDeviceName, HandleRead, HandleWriteOrToast, UtilInv,
         UtilTypeOK
    <3> QED BY <3>1, <3>2
  <2> QED BY <1>1, <1>3, <1>8, <2>1, <2>2, <2>3 DEF UtilInv, UtilTypeOK, Entry
<1>10. ReadersFit'
  <2>1. pc' = pc /\ filled' = filled
    BY <1>1 DEF sockVars
  <2>2. \A i \in 1..Len(queue) : queue[i].msg.what = "READ" => pc[queue[i].msg.arg] \in Served
    BY DEF UtilInv, ReadersFit, Position
  <2>3. 1 \in 1..Len(queue)
    BY <1>3
  <2>4. asker' # None => pc'[asker'] \in Served
    BY <1>8, <2>1, <2>2, <2>3
  <2>5. \A i \in 1..Len(queue') : queue'[i].msg.what = "READ" => pc'[queue'[i].msg.arg] \in Served
    BY <1>3, <2>1, <2>2
  <2> QED BY <2>1, <2>4, <2>5 DEF UtilInv, ReadersFit, Position
<1>11. AnswerFollowsAsker' /\ mState' # "CONNECTING"
  BY <1>1 DEF AnswerFollowsAsker, uiVars, threadVars, UtilInv
<1> QED BY <1>4, <1>6, <1>7, <1>9, <1>10, <1>11 DEF UtilInv

(* The steps that leave the queue alone keep the invariant: the two outcomes
   of the test in sendMessage(), and a read(). *)
LEMMA QuietStep ==
  ASSUME UtilInv, ~crashed,
         SendDropped \/ SendCopies \/ \E s \in Socket, c \in Chunk : ReadInto(s, c)
  PROVE  UtilInv'
<1>1. CASE SendDropped
  BY <1>1, StutterInductive DEF SendDropped, vars, threadVars, accVars, sockVars, uiVars, UtilInv,
     Inductive, UtilTypeOK, TypeOK, Announced, AllTold, Waits, Position, ReadersFit,
     LastReadIsIntact, AnswerFollowsAsker, Open
<1>2. CASE SendCopies
  <2>1. /\ WriteCopy /\ UNCHANGED utilVars /\ asker # None
        /\ UNCHANGED <<threadVars, accVars, sockVars, lock, crashed>>
        /\ r' = mConnectedThread
    BY <1>2 DEF SendCopies, WriteCopy
  <2>2. Inductive'
    BY <2>1, UserStepInductive DEF UserStep, UtilInv
  <2>3. UtilTypeOK'
    BY <2>1, <2>2 DEF utilVars, UtilInv, UtilTypeOK, Inductive
  <2>4. Announced' /\ ReadersFit' /\ LastReadIsIntact' /\ mState' # "CONNECTING"
    BY <2>1 DEF utilVars, threadVars, sockVars, UtilInv, Announced, AllTold, Waits, Position,
       ReadersFit, LastReadIsIntact
  <2>5. AnswerFollowsAsker'
    <3>1. asker \in Socket /\ pc[asker] \in Served
      BY <2>1 DEF UtilInv, UtilTypeOK, ReadersFit
    <3>2. Open(asker) => asker = mConnectedThread
      BY <3>1 DEF UtilInv, Inductive, SocketsFit, Open, Served
    <3> QED BY <2>1, <3>2 DEF AnswerFollowsAsker, utilVars, sockVars, Open
  <2> QED BY <2>2, <2>3, <2>4, <2>5 DEF UtilInv
<1>3. ASSUME NEW s \in Socket, NEW c \in Chunk, ReadInto(s, c) PROVE UtilInv'
  <2>1. /\ UNCHANGED <<vars, queue, mConnectedDeviceName, listener, asker>>
        /\ pc[s] = "reading" /\ buffer' = [buffer EXCEPT ![s] = c] /\ filled' = filled \cup {s}
    BY <1>3 DEF ReadInto
  <2>2. Inductive'
    BY <2>1, StutterInductive DEF UtilInv
  <2>3. UtilTypeOK'
    BY <2>1, <2>2 DEF UtilInv, UtilTypeOK, Inductive
  <2>4. Announced' /\ ReadersFit' /\ mState' # "CONNECTING"
    BY <2>1 DEF vars, threadVars, sockVars, UtilInv, Announced, AllTold, Waits, Position, ReadersFit
  <2>5. LastReadIsIntact'
    BY <1>3, ReadIntoIntact DEF UtilInv
  <2>6. AnswerFollowsAsker'
    BY <2>1 DEF vars, uiVars, sockVars, UtilInv, AnswerFollowsAsker, Open
  <2> QED BY <2>2, <2>3, <2>4, <2>5, <2>6 DEF UtilInv
<1> QED BY <1>1, <1>2, <1>3

(* A READ that is sent keeps the invariant. *)
LEMMA ReadSentStep ==
  ASSUME UtilInv, NEW s \in Socket, ReadSent(s)
  PROVE  UtilInv'
<1>1. /\ s \in filled /\ filled' = filled \ {s} /\ out' = <<Read(s)>> /\ Posted(buffer[s])
      /\ UNCHANGED <<threadVars, accVars, sockVars, uiVars, lock, crashed, buffer,
                     mConnectedDeviceName, listener, asker>>
  BY DEF ReadSent
<1>2. out' \in Seq(Message) /\ Len(out') = 1 /\ out'[1] = Read(s)
  <2>1. Read(s) \in Message
    BY MessageTypes
  <2> QED BY <1>1, <2>1
<1>3. queue \in Seq(Entry) /\ buffer \in [Socket -> Chunk \cup {None}]
  BY DEF UtilInv, UtilTypeOK, Entry
<1>4. /\ queue' \in Seq(Entry) /\ Len(queue') = Len(queue) + Len(out')
      /\ \A i \in 1..Len(queue) : queue'[i] = queue[i]
      /\ \A i \in 1..Len(queue') : i > Len(queue) =>
           /\ i - Len(queue) \in 1..Len(out')
           /\ queue'[i] = [msg |-> out'[i - Len(queue)], read |-> buffer[s]]
  BY <1>1, <1>2, <1>3, PostedShape
<1>5. Inductive'
  BY <1>1, <1>2, OutOnly DEF UtilInv
<1>6. Announced'
  <2>1. PostsNoState
    BY <1>1, <1>2 DEF PostsNoState, Read, threadVars
  <2> QED BY <1>1, <1>2, <1>3, <2>1, PostAnnounced DEF UtilInv
<1>7. LastReadIsIntact'
  BY <1>3, ReadSentIntact DEF UtilInv
<1>8. UtilTypeOK'
  <2>1. TypeOK' /\ queue' \in Seq([msg : Message, read : Chunk \cup {None}])
    BY <1>4, <1>5 DEF Inductive, Entry
  <2> QED BY <1>1, <2>1 DEF UtilInv, UtilTypeOK
<1>9. ReadersFit'
  <2>1. pc' = pc /\ asker' = asker
    BY <1>1 DEF sockVars
  <2>2. ASSUME NEW i \in 1..Len(queue'), queue'[i].msg.what = "READ"
        PROVE  pc[queue'[i].msg.arg] \in Served
    <3>1. CASE i > Len(queue)
      <4>1. i - Len(queue) = 1
        BY <1>2, <1>3, <1>4, <3>1
      <4>2. queue'[i].msg = Read(s)
        BY <1>2, <1>4, <3>1, <4>1
      <4> QED BY <1>1, <4>2 DEF Read, UtilInv, ReadersFit, Served
    <3>2. CASE ~(i > Len(queue))
      <4>1. i \in 1..Len(queue)
        BY <1>3, <3>2
      <4> QED BY <1>4, <2>2, <4>1 DEF UtilInv, ReadersFit, Position
    <3> QED BY <3>1, <3>2
  <2> QED BY <1>1, <2>1, <2>2 DEF UtilInv, ReadersFit, Position
<1>10. AnswerFollowsAsker' /\ mState' # "CONNECTING"
  BY <1>1 DEF uiVars, sockVars, threadVars, UtilInv, AnswerFollowsAsker, Open
<1> QED BY <1>5, <1>6, <1>7, <1>8, <1>9, <1>10 DEF UtilInv

-----------------------------------------------------------------------------
(* The invariant holds initially. *)
LEMMA UtilInitHolds == UtilInit => UtilInv
<1> SUFFICES ASSUME UtilInit PROVE UtilInv
  OBVIOUS
<1>1. Inductive
  BY InitInductive DEF UtilInit
<1>2. queue = << >> /\ queue \in Seq(Entry) /\ Len(queue) = 0 /\ DOMAIN queue = {}
  BY DEF UtilInit
<1>3. UtilTypeOK
  BY <1>1, <1>2 DEF UtilInit, UtilTypeOK, Inductive, NoEvent, Entry
<1>4. mState = "NONE" /\ pc = [s \in Socket |-> "free"] /\ writing = FALSE
  BY DEF UtilInit, Init
<1>5. Announced /\ AnswerFollowsAsker
  BY <1>4 DEF Announced, AnswerFollowsAsker
<1>6. ReadersFit
  BY <1>2, <1>4 DEF UtilInit, ReadersFit, Position, Served
<1>7. LastReadIsIntact
  BY <1>2 DEF LastReadIsIntact
<1> QED BY <1>1, <1>3, <1>4, <1>5, <1>6, <1>7 DEF UtilInv

(* Every step keeps it. *)
LEMMA UtilStepHolds == UtilInv /\ [UtilNext]_allVars => UtilInv'
<1> SUFFICES ASSUME UtilInv, [UtilNext]_allVars PROVE UtilInv'
  OBVIOUS
<1>1. CASE UNCHANGED allVars
  <2>1. UNCHANGED vars /\ UNCHANGED utilVars
    BY <1>1 DEF allVars
  <2>2. Inductive'
    BY <2>1, StutterInductive DEF UtilInv
  <2>3. UtilTypeOK'
    BY <2>1, <2>2 DEF utilVars, UtilInv, UtilTypeOK, Inductive
  <2>4. Announced' /\ ReadersFit' /\ mState' # "CONNECTING"
    BY <2>1 DEF utilVars, vars, threadVars, sockVars, UtilInv, Announced, AllTold, Waits, Position,
       ReadersFit
  <2>5. LastReadIsIntact' /\ AnswerFollowsAsker'
    BY <2>1 DEF utilVars, vars, uiVars, sockVars, UtilInv, LastReadIsIntact, AnswerFollowsAsker, Open
  <2> QED BY <2>2, <2>3, <2>4, <2>5 DEF UtilInv
<1>2. CASE UtilNext
  <2>0. ~crashed /\ Inductive /\ mState # "CONNECTING"
    BY <1>2 DEF UtilNext, UtilInv
  <2>1. CASE UtilStart \/ UtilStop \/ SendWrites
    <3>1. UserStart \/ UserStop \/ WriteOut
      BY <2>1 DEF UtilStart, UtilStop, SendWrites
    <3>2. Inductive' /\ Effect
      BY <2>0, <3>1, UserEffect
    <3>3. IdentitiesUnused
      BY <3>1 DEF UserStart, UserStop, WriteOut, sockVars, IdentitiesUnused
    <3>4. asker' = None
      BY <2>1 DEF UtilStart, UtilStop, SendWrites
    <3>5. Posted(None) /\ UNCHANGED <<buffer, filled, mConnectedDeviceName, listener>>
      BY <2>1 DEF UtilStart, UtilStop, SendWrites
    <3> QED BY <3>2, <3>3, <3>4, <3>5, PostStep
  <2>2. CASE ThreadStep
    <3>1. Inductive' /\ Effect /\ UNCHANGED uiVars
      BY <2>0, <2>2, ThreadEffect DEF UtilInv
    <3> QED BY <2>2, <3>1, PostStep DEF ThreadStep
  <2>3. CASE HandleMessage
    BY <2>3, HandleStep
  <2>4. CASE SendDropped \/ SendCopies \/ \E s \in Socket, c \in Chunk : ReadInto(s, c)
    BY <2>0, <2>4, QuietStep
  <2>5. ASSUME NEW s \in Socket, ReadSent(s) PROVE UtilInv'
    BY <2>5, ReadSentStep
  <2> QED BY <1>2, <2>1, <2>2, <2>3, <2>4, <2>5 DEF UtilNext
<1> QED BY <1>1, <1>2

LEMMA UtilInvHolds == UtilSpec => []UtilInv
BY UtilInitHolds, UtilStepHolds, PTL DEF UtilSpec

(* The session inside the tracker, its queue and its listener have their types. *)
THEOREM UtilTypeCorrect == UtilSpec => []UtilTypeOK
<1>1. UtilInv => UtilTypeOK
  BY DEF UtilInv
<1> QED BY <1>1, UtilInvHolds, PTL

(* However many messages wait, and whoever posts while they do: a listener that
   has heard them all knows the state and the device of the session. *)
THEOREM ListenerIsRightHolds == UtilSpec => []ListenerIsRight
<1>1. UtilInv => ListenerIsRight
  <2> SUFFICES ASSUME UtilInv, queue = << >>, lock = None, mState # "NONE"
               PROVE  /\ listener.event = EventOf(mState)
                      /\ mState = "CONNECTED" => listener.name = Remote[mConnectedThread]
    BY DEF ListenerIsRight, EventOf
  <2>1. Len(queue) = 0
    OBVIOUS
  <2>2. ~ \E i \in Position : Waits(i)
    BY <2>1 DEF Position
  <2> QED BY <2>2 DEF UtilInv, Announced, AllTold
<1> QED BY <1>1, UtilInvHolds, PTL

(* The last READ of every connection shows what that connection's last finished
   read() returned, whatever other connections read meanwhile. *)
THEOREM LastReadIsIntactHolds == UtilSpec => []LastReadIsIntact
<1>1. UtilInv => LastReadIsIntact
  BY DEF UtilInv
<1> QED BY <1>1, UtilInvHolds, PTL

(* An answer leaves the connection of its command only when that one is closed. *)
THEOREM AnswerFollowsAskerHolds == UtilSpec => []AnswerFollowsAsker
<1>1. UtilInv => AnswerFollowsAsker
  BY DEF UtilInv
<1> QED BY <1>1, UtilInvHolds, PTL

-----------------------------------------------------------------------------
(* Whoever holds the monitor in connected() found the service listening, and
   nobody changes its state meanwhile. *)
ServesFromListen == lock # None => mState = "LISTEN"

(* A step of the composition as the session sees it. *)
SeenBySession ==
  /\ Session!Next \/ UNCHANGED Session!vars
  /\ ServesFromListen'

(* start() and stop() are steps of the session, whatever the caller's thread. *)
LEMMA StartIsListen ==
  ASSUME NEW msgs, startSome(msgs)
  PROVE  SeenBySession
BY DEF startSome, start, Session!Listen, Session!Next, ServesFromListen, SeenBySession

(* A step that leaves the state, the served thread and the monitor alone is a
   stutter of the session. *)
LEMMA SessionStutter ==
  ASSUME ServesFromListen, UNCHANGED <<mState, mConnectedThread, lock>>
  PROVE  SeenBySession
BY DEF Session!vars, ServesFromListen, SeenBySession

(* Every step of the composition is a step of the session or a stutter. *)
LEMMA SessionStep ==
  ASSUME UtilInv, ServesFromListen, [UtilNext]_allVars
  PROVE  SeenBySession
<1>1. CASE UNCHANGED allVars
  BY SessionStutter, <1>1 DEF allVars, vars, threadVars
<1>2. CASE UtilStart
  BY StartIsListen, <1>2 DEF UtilStart, UserStart
<1>3. CASE UtilStop
  BY <1>3 DEF UtilStop, UserStop, Session!Stop, Session!Next, ServesFromListen, SeenBySession
<1>4. CASE SendDropped \/ SendCopies \/ SendWrites
  BY SessionStutter, <1>4 DEF SendDropped, SendCopies, SendWrites, WriteCopy, WriteOut, vars,
     threadVars
<1>5. CASE HandleMessage
  BY SessionStutter, <1>5 DEF HandleMessage, HandleStateChange, HandleDeviceName, HandleRead,
     HandleWriteOrToast, Handles, threadVars
<1>6. CASE \E s \in Socket : ReadSent(s) \/ \E c \in Chunk : ReadInto(s, c)
  BY SessionStutter, <1>6 DEF ReadSent, ReadInto, vars, threadVars
<1>7. CASE ThreadStep
  <2>1. CASE connectedPosts
    <3>1. lock \in Socket /\ mConnectedThread = lock /\ mState = "LISTEN"
      BY <2>1 DEF connectedPosts, UtilInv, Inductive, TypeOK, ReferencesFit, ServesFromListen
    <3>2. Session!Serve /\ ServesFromListen'
      BY <2>1, <3>1 DEF connectedPosts, Session!Serve, ServesFromListen
    <3> QED BY <3>2 DEF Session!Next, SeenBySession
  <2>2. ASSUME NEW a \in AcceptThreads, AcceptServe(a) PROVE SeenBySession
    <3>1. accSocket[a] \in Socket /\ mState = "LISTEN" /\ mConnectedThread = None
      BY <2>2 DEF AcceptServe, connected, UtilInv, Inductive, AcceptedFit, ConnectedHasThread
    <3>2. mState' = mState /\ lock = None /\ lock' # None
      BY <2>2, <3>1, NoneAssumption DEF AcceptServe, connected
    <3>3. UNCHANGED Session!vars /\ ServesFromListen'
      BY <3>1, <3>2 DEF Session!vars, ServesFromListen
    <3> QED BY <3>3 DEF SeenBySession
  <2>3. ASSUME NEW a \in AcceptThreads, AcceptThreadStep(a), ~AcceptServe(a) PROVE SeenBySession
    BY SessionStutter, <2>3 DEF AcceptThreadStep, AcceptLoop, AcceptLeaves, AcceptCancelledExit,
       AcceptNull, AcceptRefuse, AcceptEnds, threadVars
  <2>4. ASSUME NEW s \in Socket, ReadThrows(s) \/ LinkLost(s)
                                \/ \E a \in AcceptThreads : Accept(a, s)
        PROVE  SeenBySession
    BY SessionStutter, <2>4 DEF ReadThrows, LinkLost, Accept, threadVars
  <2>5. ASSUME NEW s \in Socket, connectionLost(s) \/ Restart(s) PROVE SeenBySession
    BY StartIsListen, <2>5 DEF connectionLost, Restart
  <2> QED BY <1>7, <2>1, <2>2, <2>3, <2>4, <2>5 DEF ThreadStep, ConnectedThreadStep
<1> QED BY <1>1, <1>2, <1>3, <1>4, <1>5, <1>6, <1>7 DEF UtilNext

(* For every number of sockets, threads and waiting messages, the threads of
   the service together behave as one session that serves one connection. *)
THEOREM SessionRefined == UtilSpec => ImplementsSession
<1>1. UtilInit => Session!Init /\ ServesFromListen
  BY DEF UtilInit, Init, Session!Init, ServesFromListen
<1>2. UtilInv /\ ServesFromListen /\ [UtilNext]_allVars
        => [Session!Next]_(Session!vars) /\ ServesFromListen'
  BY SessionStep DEF SeenBySession
<1>3. UtilSpec => []ServesFromListen
  BY <1>1, <1>2, UtilInvHolds, PTL DEF UtilSpec
<1> QED BY <1>1, <1>2, <1>3, UtilInvHolds, PTL DEF UtilSpec, ImplementsSession, Session!Spec
=============================================================================
