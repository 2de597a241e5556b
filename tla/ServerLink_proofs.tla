-------------------------- MODULE ServerLink_proofs --------------------------
(***************************************************************************)
(* For all delays with keepAliveDelay < receiveTimeDelay, every set of     *)
(* upload types and every segmentation of the streams: the server never    *)
(* gives up on a running tracker.                                          *)
(***************************************************************************)
EXTENDS ServerLink, SequenceTheorems, FunctionTheorems, FiniteSetTheorems, TLAPS

(* Ages and the flags have their types; the streams need only be sequences. *)
Shape ==
  /\ cRunning \in BOOLEAN /\ sRun \in BOOLEAN /\ timedOut \in BOOLEAN
  /\ sinceSend \in Nat /\ sinceRecv \in Nat
  /\ toServer \in Seq(Byte)

(* While both sides run, the server's silence is at most as old as the
   client's last keep-alive, unless bytes are under way to the server. *)
Heard ==
  (cRunning /\ sRun) =>
    /\ conn = "up"
    /\ sinceSend <= KeepAliveDelay + 1
    /\ sinceRecv <= KeepAliveDelay + 1
    /\ toServer = << >> => sinceRecv <= sinceSend

(* The server, while it serves, has not closed the connection. *)
Served == sRun => conn = "up"

LinkInv == Shape /\ Heard /\ Served /\ NoSpuriousTimeout

(* What concatenation does to byte sequences. *)
LEMMA ConcatBytes ==
  ASSUME NEW s \in Seq(Byte), NEW b \in Seq(Byte)
  PROVE  s \o b \in Seq(Byte) /\ Len(s \o b) = Len(s) + Len(b)
BY ConcatProperties

(* A frame is a non-empty sequence of bytes. *)
LEMMA FrameBytes ==
  /\ Header \in Seq(Byte) /\ Header # << >>
  /\ \A type \in 1..6, length \in Nat :
       Frame(type, length) \in Seq(Byte) /\ Frame(type, length) # << >>
<1>1. Header \in Seq(Byte) /\ Len(Header) = 4
  BY DEF Header, Byte
<1>2. Json \in Seq(Byte) /\ Len(Json) = 3
  BY DEF Json, Byte
<1>3. ASSUME NEW type \in 1..6, NEW length \in Nat
      PROVE  Frame(type, length) \in Seq(Byte) /\ Frame(type, length) # << >>
  <2>1. (length \div 256) % 256 \in 0..255 /\ length % 256 \in 0..255
    OBVIOUS
  <2> DEFINE mid == <<type, (length \div 256) % 256, length % 256>>
  <2>2. mid \in Seq(Byte) /\ Len(mid) = 3
    BY <2>1 DEF Byte
  <2> HIDE DEF mid
  <2> DEFINE head == Header \o mid
  <2>3. head \in Seq(Byte) /\ Len(head) = 7
    <3>1. head \in Seq(Byte) /\ Len(head) = Len(Header) + Len(mid)
      BY <1>1, <2>2, ConcatBytes
    <3> QED BY <1>1, <2>2, <3>1
  <2> HIDE DEF head
  <2>4. head \o Json \in Seq(Byte) /\ Len(head \o Json) = 10
    <3>1. head \o Json \in Seq(Byte) /\ Len(head \o Json) = Len(head) + Len(Json)
      BY <1>2, <2>3, ConcatBytes
    <3> QED BY <1>2, <2>3, <3>1
  <2>5. Frame(type, length) = head \o Json
    BY DEF Frame, mid, head
  <2>6. head \o Json # << >>
    BY <2>4, EmptySeq
  <2> QED BY <2>4, <2>5, <2>6
<1>4. Len(<< >>) = 0
  OBVIOUS
<1>5. Header # << >>
  BY <1>1, <1>4
<1> QED BY <1>1, <1>3, <1>5

(* Appending a message leaves bytes under way. *)
LEMMA AppendBytes ==
  ASSUME NEW s \in Seq(Byte), NEW b \in Seq(Byte), b # << >>
  PROVE  s \o b \in Seq(Byte) /\ s \o b # << >>
<1>1. s \o b \in Seq(Byte) /\ Len(s \o b) = Len(s) + Len(b)
  BY ConcatProperties
<1>2. Len(b) > 0
  BY EmptySeq
<1> QED BY <1>1, <1>2

(* The initial state satisfies the invariant. *)
LEMMA LinkInit == Init => LinkInv
<1> SUFFICES ASSUME Init PROVE LinkInv
  OBVIOUS
<1> USE DelayAssumption DEF Init
<1>1. toServer \in Seq(Byte)
  OBVIOUS
<1>2. cRunning \in BOOLEAN /\ sRun \in BOOLEAN /\ timedOut \in BOOLEAN
  OBVIOUS
<1>3. Shape
  BY <1>1, <1>2 DEF Shape
<1>4. Heard
  BY DEF Heard
<1>5. Served /\ NoSpuriousTimeout
  BY DEF Served, NoSpuriousTimeout
<1> QED BY <1>3, <1>4, <1>5 DEF LinkInv

(* Every step keeps the invariant. *)
LEMMA LinkStep == LinkInv /\ [Next]_vars => LinkInv'
<1> SUFFICES ASSUME LinkInv, [Next]_vars PROVE LinkInv'
  OBVIOUS
<1> USE DelayAssumption
<1>1. CASE KeepAlive
  <2>1. conn = "up" => toServer' \in Seq(Byte) /\ toServer' # << >>
    BY <1>1, FrameBytes, AppendBytes DEF KeepAlive, Transmit, LinkInv, Shape
  <2>2. toServer' \in Seq(Byte)
    BY <1>1, <2>1 DEF KeepAlive, Transmit, LinkInv, Shape
  <2> QED BY <1>1, <2>1, <2>2 DEF KeepAlive, Transmit, serverVars, LinkInv, Shape, Heard, Served,
       NoSpuriousTimeout
<1>2. ASSUME NEW type \in UploadType, Upload(type) PROVE LinkInv'
  <2>0. /\ Frame(type, UploadLength) \in Seq(Byte)
        /\ Frame(type, UploadLength) # << >>
    BY FrameBytes, UploadAssumption
  <2>1. conn = "up" => toServer' \in Seq(Byte) /\ toServer' # << >>
    BY <1>2, <2>0, AppendBytes DEF Upload, Transmit, LinkInv, Shape
  <2>2. toServer' \in Seq(Byte)
    BY <1>2, <2>1 DEF Upload, Transmit, LinkInv, Shape
  <2> QED BY <1>2, <2>1, <2>2 DEF Upload, Transmit, clientVars, serverVars, LinkInv, Shape, Heard,
       Served, NoSpuriousTimeout
<1>3. CASE ClientStops
  BY <1>3 DEF ClientStops, serverVars, LinkInv, Shape, Heard, Served, NoSpuriousTimeout
<1>4. ASSUME NEW n \in 1..Len(toClient), ClientReads(n) PROVE LinkInv'
  BY <1>4 DEF ClientReads, serverVars, LinkInv, Shape, Heard, Served, NoSpuriousTimeout
<1>5. CASE ServerTimesOut
  <2>1. ~cRunning
    BY <1>5 DEF ServerTimesOut, LinkInv, Heard, Shape
  <2>2. << >> \in Seq(Byte)
    OBVIOUS
  <2> QED BY <1>5, <2>1, <2>2 DEF ServerTimesOut, overThis, clientVars, LinkInv, Shape, Heard, Served,
       NoSpuriousTimeout
<1>6. CASE ServerRequests
  BY <1>6 DEF ServerRequests, clientVars, LinkInv, Shape, Heard, Served, NoSpuriousTimeout
<1>7. ASSUME NEW n \in 1..Len(toServer), ServerReads(n) PROVE LinkInv'
  <2>1. toServer' \in Seq(Byte)
    BY <1>7, SubSeqProperties DEF ServerReads, LinkInv, Shape
  <2> QED BY <1>7, <2>1 DEF ServerReads, clientVars, LinkInv, Shape, Heard, Served, NoSpuriousTimeout
<1>8. ASSUME NEW n \in 1..Len(toServer), ServerThrows(n) PROVE LinkInv'
  <2>1. << >> \in Seq(Byte)
    OBVIOUS
  <2> QED BY <1>8, <2>1 DEF ServerThrows, overThis, clientVars, LinkInv, Shape, Heard, Served,
     NoSpuriousTimeout
<1>9. CASE Tick
  BY <1>9 DEF Tick, ClientTimely, ServerTimely, LinkInv, Shape, Heard, Served, NoSpuriousTimeout
<1>10. CASE UNCHANGED vars
  BY <1>10 DEF vars, clientVars, serverVars, LinkInv, Shape, Heard, Served, NoSpuriousTimeout
<1> QED
  BY <1>1, <1>2, <1>3, <1>4, <1>5, <1>6, <1>7, <1>8, <1>9, <1>10 DEF Next, ClientStep, ServerStep

(* The server's two-minute timeout never hits a running client: keep-alives
   alone are enough, whatever is uploaded, lost to coalescing or cut up. *)
THEOREM NoSpuriousTimeoutHolds == Spec => []NoSpuriousTimeout
<1>1. LinkInv => NoSpuriousTimeout
  BY DEF LinkInv
<1> QED BY <1>1, LinkInit, LinkStep, PTL DEF Spec
-----------------------------------------------------------------------------
(* Counting the bytes under way that could be taken for a message type. *)

(* Where v stands in s, and how often. *)
Places(s, v) == {i \in 1..Len(s) : s[i] = v}
Count(s, v) == Cardinality(Places(s, v))

(* A count is a number. *)
LEMMA CountType ==
  ASSUME NEW s \in Seq(Byte), NEW v
  PROVE  IsFiniteSet(Places(s, v)) /\ Count(s, v) \in Nat
<1>1. IsFiniteSet(1..Len(s))
  BY FS_Interval
<1>2. Places(s, v) \in SUBSET (1..Len(s))
  BY DEF Places
<1>3. IsFiniteSet(Places(s, v))
  BY <1>1, <1>2, FS_Subset
<1> QED BY <1>3, FS_CardinalityType DEF Count

(* What does not occur is counted zero times. *)
LEMMA CountNone ==
  ASSUME NEW s \in Seq(Byte), NEW v, \A i \in 1..Len(s) : s[i] # v
  PROVE  Count(s, v) = 0
<1>1. Places(s, v) = {}
  BY DEF Places
<1> QED BY <1>1, FS_EmptySet DEF Count

(* Nothing is counted in the empty stream. *)
LEMMA CountEmpty ==
  ASSUME NEW v
  PROVE  Count(<< >>, v) = 0
<1>1. Places(<< >>, v) = {}
  BY DEF Places
<1> QED BY <1>1, FS_EmptySet DEF Count

(* What occurs is counted at least once. *)
LEMMA CountSome ==
  ASSUME NEW s \in Seq(Byte), NEW i \in 1..Len(s)
  PROVE  Count(s, s[i]) >= 1
<1>1. Places(s, s[i]) # {}
  BY DEF Places
<1>2. IsFiniteSet(Places(s, s[i])) /\ Count(s, s[i]) \in Nat
  BY CountType
<1>3. Count(s, s[i]) # 0
  BY <1>1, <1>2, FS_EmptySet DEF Count
<1> QED BY <1>2, <1>3

(* What occurs in one place only is counted once. *)
LEMMA CountOnce ==
  ASSUME NEW s \in Seq(Byte), NEW k \in 1..Len(s),
         \A i \in 1..Len(s) : s[i] = s[k] => i = k
  PROVE  Count(s, s[k]) = 1
<1>1. Places(s, s[k]) = {k}
  BY DEF Places
<1> QED BY <1>1, FS_Singleton DEF Count

(* Counts add up. *)
LEMMA CountConcat ==
  ASSUME NEW s \in Seq(Byte), NEW t \in Seq(Byte), NEW v
  PROVE  Count(s \o t, v) = Count(s, v) + Count(t, v)
<1> DEFINE k == Len(s)
           moved == {i + k : i \in Places(t, v)}
           shift == [i \in Places(t, v) |-> i + k]
<1>1. k \in Nat /\ Len(t) \in Nat
  OBVIOUS
<1>2. /\ Len(s \o t) = k + Len(t)
      /\ \A i \in 1..(k + Len(t)) : (s \o t)[i] = IF i <= k THEN s[i] ELSE t[i - k]
  BY ConcatProperties
<1>3. Places(t, v) \subseteq 1..Len(t)
  BY DEF Places
<1>4. Places(s \o t, v) = Places(s, v) \cup moved
  <2>1. ASSUME NEW i \in Places(s \o t, v) PROVE i \in Places(s, v) \cup moved
    <3>1. i \in 1..(k + Len(t)) /\ (s \o t)[i] = v
      BY <1>2 DEF Places
    <3>2. CASE i <= k
      <4>1. s[i] = v /\ i \in 1..Len(s)
        BY <3>1, <3>2, <1>1, <1>2
      <4> QED BY <4>1 DEF Places
    <3>3. CASE i > k
      <4>1. t[i - k] = v
        BY <3>1, <3>3, <1>1, <1>2
      <4>2. i - k \in 1..Len(t) /\ i = (i - k) + k
        BY <3>1, <3>3, <1>1
      <4>3. i - k \in Places(t, v)
        BY <4>1, <4>2 DEF Places
      <4> QED BY <4>2, <4>3
    <3> QED BY <3>1, <3>2, <3>3, <1>1
  <2>2. ASSUME NEW i \in Places(s, v) PROVE i \in Places(s \o t, v)
    <3>1. i \in 1..k /\ s[i] = v
      BY DEF Places
    <3>2. i \in 1..(k + Len(t)) /\ (s \o t)[i] = v
      BY <3>1, <1>1, <1>2
    <3> QED BY <3>2, <1>2 DEF Places
  <2>3. ASSUME NEW i \in Places(t, v) PROVE i + k \in Places(s \o t, v)
    <3>1. i \in 1..Len(t) /\ t[i] = v
      BY DEF Places
    <3>2. PICK j \in Int : j = i + k
      BY <3>1, <1>1
    <3>3. j \in 1..(k + Len(t)) /\ ~(j <= k) /\ j - k = i
      BY <3>1, <3>2, <1>1
    <3>4. (s \o t)[j] = v
      BY <3>1, <3>3, <1>2
    <3> QED BY <3>2, <3>3, <3>4, <1>2 DEF Places
  <2> QED BY <2>1, <2>2, <2>3
<1>5. Places(s, v) \cap moved = {}
  BY <1>1, <1>3 DEF Places
<1>6. ExistsBijection(Places(t, v), moved)
  <2>1. shift \in [Places(t, v) -> moved]
    OBVIOUS
  <2>2. \A a, b \in Places(t, v) : shift[a] = shift[b] => a = b
    BY <1>1, <1>3
  <2>3. \A m \in moved : \E a \in Places(t, v) : shift[a] = m
    OBVIOUS
  <2>4. shift \in Bijection(Places(t, v), moved)
    BY <2>1, <2>2, <2>3, Fun_IsBij
  <2> QED BY <2>4, Fun_ExistsBij
<1>7. IsFiniteSet(Places(s, v)) /\ IsFiniteSet(Places(t, v))
  BY CountType
<1>8. IsFiniteSet(moved) /\ Cardinality(moved) = Cardinality(Places(t, v))
  BY <1>6, <1>7, FS_Bijection
<1> HIDE DEF moved, shift
<1>9. Cardinality(Places(s, v) \cup moved)
        = Cardinality(Places(s, v)) + Cardinality(moved) - Cardinality({})
  <2>1. Cardinality(Places(s, v) \cup moved)
          = Cardinality(Places(s, v)) + Cardinality(moved) - Cardinality(Places(s, v) \cap moved)
    BY <1>7, <1>8, FS_Union
  <2> QED BY <2>1, <1>5
<1>10. Count(s, v) \in Nat /\ Count(t, v) \in Nat
  BY CountType
<1> QED BY <1>4, <1>8, <1>9, <1>10, FS_EmptySet DEF Count

(* A read splits its stream. *)
LEMMA CountSplit ==
  ASSUME NEW s \in Seq(Byte), NEW n \in 1..Len(s), NEW v
  PROVE  /\ SubSeq(s, 1, n) \in Seq(Byte) /\ SubSeq(s, n + 1, Len(s)) \in Seq(Byte)
         /\ Count(s, v) = Count(SubSeq(s, 1, n), v) + Count(SubSeq(s, n + 1, Len(s)), v)
<1> DEFINE p == SubSeq(s, 1, n)
           q == SubSeq(s, n + 1, Len(s))
<1>0. Len(s) \in Nat /\ n \in Nat /\ n <= Len(s)
  OBVIOUS
<1>1. /\ p \in Seq(Byte) /\ Len(p) = n
      /\ \A i \in 1..n : p[i] = s[i]
  BY <1>0, SubSeqProperties
<1>2. /\ q \in Seq(Byte) /\ Len(q) = Len(s) - n
      /\ \A i \in 1..(Len(s) - n) : q[i] = s[n + i]
  BY <1>0, SubSeqProperties
<1> HIDE DEF p, q
<1>3. /\ p \o q \in Seq(Byte) /\ Len(p \o q) = Len(s)
      /\ \A i \in 1..Len(s) : (p \o q)[i] = IF i <= n THEN p[i] ELSE q[i - n]
  <2>1. /\ p \o q \in Seq(Byte) /\ Len(p \o q) = Len(p) + Len(q)
        /\ \A i \in 1..(Len(p) + Len(q)) :
             (p \o q)[i] = IF i <= Len(p) THEN p[i] ELSE q[i - Len(p)]
    BY <1>1, <1>2, ConcatProperties
  <2>2. Len(p) + Len(q) = Len(s)
    BY <1>0, <1>1, <1>2
  <2> QED BY <2>1, <2>2, <1>1
<1>4. ASSUME NEW i \in 1..Len(s) PROVE (p \o q)[i] = s[i]
  <2>1. CASE i <= n
    BY <2>1, <1>0, <1>1, <1>3
  <2>2. CASE ~(i <= n)
    <3>1. PICK j \in Int : j = i - n
      BY <1>0
    <3>2. j \in 1..(Len(s) - n) /\ n + j = i
      BY <3>1, <2>2, <1>0
    <3>3. q[j] = s[i]
      BY <3>2, <1>2
    <3>4. (p \o q)[i] = q[i - n]
      BY <2>2, <1>3
    <3> QED BY <3>1, <3>3, <3>4
  <2> QED BY <2>1, <2>2
<1>5. Places(p \o q, v) = Places(s, v)
  BY <1>3, <1>4 DEF Places
<1>6. Count(p \o q, v) = Count(p, v) + Count(q, v)
  BY <1>1, <1>2, CountConcat
<1> QED BY <1>1, <1>2, <1>5, <1>6 DEF Count, p, q

-----------------------------------------------------------------------------
(* A read takes a byte of its prefix away, if that byte is there. *)
LEMMA CountRead ==
  ASSUME NEW s \in Seq(Byte), NEW n \in 1..Len(s), NEW v
  PROVE  /\ SubSeq(s, n + 1, Len(s)) \in Seq(Byte)
         /\ Count(SubSeq(s, n + 1, Len(s)), v) \in Nat
         /\ Count(SubSeq(s, n + 1, Len(s)), v) <= Count(s, v)
         /\ \A i \in 1..n : s[i] = v => Count(SubSeq(s, n + 1, Len(s)), v) + 1 <= Count(s, v)
<1> DEFINE p == SubSeq(s, 1, n)
           q == SubSeq(s, n + 1, Len(s))
<1>1. p \in Seq(Byte) /\ q \in Seq(Byte) /\ Count(s, v) = Count(p, v) + Count(q, v)
  BY CountSplit
<1>2. Count(p, v) \in Nat /\ Count(q, v) \in Nat
  BY <1>1, CountType
<1>3. ASSUME NEW i \in 1..n, s[i] = v PROVE Count(p, v) >= 1
  <2>1. Len(p) = n /\ p[i] = v
    BY <1>3, SubSeqProperties
  <2> QED BY <1>1, <2>1, CountSome
<1> QED BY <1>1, <1>2, <1>3

(* The bytes the server writes, whatever it answers. *)
Alphabet == {0, 1, 5, 6, 15, 16, 34, 38, 51, 123, 125}
Written(s) == \A i \in 1..Len(s) : s[i] \in Alphabet

(* Nothing else comes from writing twice. *)
LEMMA WrittenConcat ==
  ASSUME NEW s \in Seq(Byte), NEW t \in Seq(Byte), Written(s), Written(t)
  PROVE  Written(s \o t)
<1>1. /\ Len(s \o t) = Len(s) + Len(t)
      /\ \A i \in 1..(Len(s) + Len(t)) :
           (s \o t)[i] = IF i <= Len(s) THEN s[i] ELSE t[i - Len(s)]
  BY ConcatProperties
<1>2. ASSUME NEW i \in 1..(Len(s) + Len(t)) PROVE (s \o t)[i] \in Alphabet
  <2>1. CASE i <= Len(s)
    BY <2>1, <1>1 DEF Written
  <2>2. CASE ~(i <= Len(s))
    <3>1. i - Len(s) \in 1..Len(t)
      BY <2>2
    <3>2. t[i - Len(s)] \in Alphabet
      BY <3>1 DEF Written
    <3> QED BY <2>2, <3>2, <1>1
  <2> QED BY <2>1, <2>2
<1> QED BY <1>1, <1>2 DEF Written

(* The middle of a frame: its type and the length of its document. *)
Middle(type, length) == <<type, (length \div 256) % 256, length % 256>>

(* How often a byte, other than those of header and document, is in a frame. *)
LEMMA CountFrame ==
  ASSUME NEW type \in 1..6, NEW length \in Nat, NEW v \in {1, 5}
  PROVE  /\ Frame(type, length) \in Seq(Byte) /\ Header \in Seq(Byte)
         /\ Count(Header, v) = 0
         /\ Middle(type, length) \in Seq(Byte)
         /\ Count(Frame(type, length), v) = Count(Middle(type, length), v)
<1>1. Header \in Seq(Byte) /\ Len(Header) = 4
  BY DEF Header, Byte
<1>2. Json \in Seq(Byte) /\ Len(Json) = 3
  BY DEF Json, Byte
<1>3. Count(Header, v) = 0
  <2>1. ASSUME NEW i \in 1..Len(Header) PROVE Header[i] # v
    BY <1>1 DEF Header
  <2> QED BY <1>1, <2>1, CountNone
<1>4. Count(Json, v) = 0
  <2>1. ASSUME NEW i \in 1..Len(Json) PROVE Json[i] # v
    BY <1>2 DEF Json
  <2> QED BY <1>2, <2>1, CountNone
<1>5. Middle(type, length) \in Seq(Byte)
  <2>1. (length \div 256) % 256 \in 0..255 /\ length % 256 \in 0..255
    OBVIOUS
  <2> QED BY <2>1 DEF Middle, Byte
<1> DEFINE mid == Middle(type, length)
           head == Header \o mid
<1>6. Frame(type, length) = head \o Json
  BY DEF Frame, Middle
<1> HIDE DEF mid
<1>7. head \in Seq(Byte) /\ Count(head, v) = Count(Header, v) + Count(mid, v)
  BY <1>1, <1>5, ConcatBytes, CountConcat DEF mid
<1> HIDE DEF head
<1>8. head \o Json \in Seq(Byte) /\ Count(head \o Json, v) = Count(head, v) + Count(Json, v)
  BY <1>2, <1>7, ConcatBytes, CountConcat
<1>9. Count(mid, v) \in Nat
  BY <1>5, CountType DEF mid
<1>10. Count(head, v) = Count(mid, v)
  BY <1>3, <1>7, <1>9
<1>11. Count(head \o Json, v) = Count(mid, v)
  BY <1>4, <1>8, <1>9, <1>10
<1> QED BY <1>1, <1>3, <1>5, <1>6, <1>8, <1>11 DEF mid

(* What an upload adds to the bytes that could be a location of type 1, if
   neither byte of its length looks like one. *)
LEMMA CountUpload ==
  ASSUME NEW type \in 1..6, NEW length \in Nat,
         (length \div 256) % 256 # 1, length % 256 # 1
  PROVE  Count(Frame(type, length), 1) = IF type = 1 THEN 1 ELSE 0
<1> DEFINE mid == Middle(type, length)
<1>1. mid \in Seq(Byte) /\ Count(Frame(type, length), 1) = Count(mid, 1)
  BY CountFrame
<1>2. Len(mid) = 3 /\ mid[1] = type /\ mid[2] # 1 /\ mid[3] # 1
  BY DEF Middle
<1>3. \A i \in 1..Len(mid) : i = 1 \/ i = 2 \/ i = 3
  BY <1>2
<1> HIDE DEF mid
<1>4. CASE type = 1
  <2>1. \A i \in 1..Len(mid) : mid[i] = mid[1] => i = 1
    BY <1>2, <1>3, <1>4
  <2>2. 1 \in 1..Len(mid)
    BY <1>2
  <2>3. Count(mid, mid[1]) = 1
    BY <1>1, <2>1, <2>2, CountOnce
  <2> QED BY <1>1, <1>2, <1>4, <2>3
<1>5. CASE type # 1
  <2>1. \A i \in 1..Len(mid) : mid[i] # 1
    BY <1>2, <1>3, <1>5
  <2>2. Count(mid, 1) = 0
    BY <1>1, <2>1, CountNone
  <2> QED BY <1>1, <1>5, <2>2
<1> QED BY <1>4, <1>5

(* What the server's own frames add. *)
LEMMA CountAnswers ==
  /\ Header \in Seq(Byte) /\ Written(Header)
  /\ Count(Header, 1) = 0 /\ Count(Header, 5) = 0
  /\ Response \in Seq(Byte) /\ Written(Response)
  /\ Count(Response, 1) = 1 /\ Count(Response, 5) = 0
  /\ Request \in Seq(Byte) /\ Written(Request)
  /\ Count(Request, 1) = 0 /\ Count(Request, 5) = 1
<1>0. /\ (38 \div 256) % 256 = 0 /\ 38 % 256 = 38
      /\ (51 \div 256) % 256 = 0 /\ 51 % 256 = 51
  OBVIOUS
<1>1. Header \in Seq(Byte) /\ Count(Header, 1) = 0 /\ Count(Header, 5) = 0
  BY CountFrame
<1>2. /\ Response \in Seq(Byte) /\ Middle(1, 38) \in Seq(Byte)
      /\ Count(Response, 1) = Count(Middle(1, 38), 1)
      /\ Count(Response, 5) = Count(Middle(1, 38), 5)
  BY CountFrame DEF Response, ResponseLength
<1>3. /\ Request \in Seq(Byte) /\ Middle(5, 51) \in Seq(Byte)
      /\ Count(Request, 1) = Count(Middle(5, 51), 1)
      /\ Count(Request, 5) = Count(Middle(5, 51), 5)
  BY CountFrame DEF Request, RequestLength
<1>4. Middle(1, 38) = <<1, 0, 38>> /\ Middle(5, 51) = <<5, 0, 51>>
  BY <1>0 DEF Middle
<1>5. Count(Middle(1, 38), 5) = 0 /\ Count(Middle(5, 51), 1) = 0
  <2>1. \A i \in 1..Len(Middle(1, 38)) : Middle(1, 38)[i] # 5
    BY <1>4
  <2>2. \A i \in 1..Len(Middle(5, 51)) : Middle(5, 51)[i] # 1
    BY <1>4
  <2> QED BY <1>2, <1>3, <2>1, <2>2, CountNone
<1>6. Count(Middle(1, 38), 1) = 1
  <2> DEFINE m == Middle(1, 38)
  <2>1. 1 \in 1..Len(m) /\ m[1] = 1 /\ \A i \in 1..Len(m) : m[i] = m[1] => i = 1
    BY <1>4
  <2> HIDE DEF m
  <2>2. Count(m, m[1]) = 1
    BY <2>1, <1>2, CountOnce DEF m
  <2> QED BY <2>1, <2>2 DEF m
<1>7. Count(Middle(5, 51), 5) = 1
  <2> DEFINE m == Middle(5, 51)
  <2>1. 1 \in 1..Len(m) /\ m[1] = 5 /\ \A i \in 1..Len(m) : m[i] = m[1] => i = 1
    BY <1>4
  <2> HIDE DEF m
  <2>2. Count(m, m[1]) = 1
    BY <2>1, <1>3, CountOnce DEF m
  <2> QED BY <2>1, <2>2 DEF m
<1>8. Written(Header) /\ Written(Json) /\ Json \in Seq(Byte)
  BY DEF Written, Header, Json, Alphabet, Byte
<1>9. Written(Middle(1, 38)) /\ Written(Middle(5, 51))
  BY <1>4 DEF Written, Alphabet
<1>10. Response = (Header \o Middle(1, 38)) \o Json /\ Request = (Header \o Middle(5, 51)) \o Json
  BY DEF Response, ResponseLength, Request, RequestLength, Frame, Middle
<1>11. /\ Header \o Middle(1, 38) \in Seq(Byte) /\ Written(Header \o Middle(1, 38))
       /\ Header \o Middle(5, 51) \in Seq(Byte) /\ Written(Header \o Middle(5, 51))
  BY <1>1, <1>2, <1>3, <1>8, <1>9, ConcatBytes, WrittenConcat
<1>12. Written(Response) /\ Written(Request)
  BY <1>8, <1>10, <1>11, WrittenConcat
<1> QED BY <1>1, <1>2, <1>3, <1>5, <1>6, <1>7, <1>8, <1>12

-----------------------------------------------------------------------------
(* Ages, counters and streams keep their types. *)
LEMMA TypeStep == TypeOK /\ [Next]_vars => TypeOK'
<1> SUFFICES ASSUME TypeOK, [Next]_vars PROVE TypeOK'
  OBVIOUS
<1> USE DelayAssumption, BoundAssumption DEF TypeOK
<1>0. << >> \in Seq(Byte)
  OBVIOUS
<1>1. CASE KeepAlive
  <2>1. toServer' \in Seq(Byte)
    BY <1>1, FrameBytes, AppendBytes DEF KeepAlive, Transmit
  <2> QED BY <1>1, <2>1 DEF KeepAlive, Transmit, serverVars
<1>2. ASSUME NEW type \in UploadType, Upload(type) PROVE TypeOK'
  <2>1. Frame(type, UploadLength) \in Seq(Byte) /\ Frame(type, UploadLength) # << >>
    BY FrameBytes, UploadAssumption
  <2>2. toServer' \in Seq(Byte)
    BY <1>2, <2>1, AppendBytes DEF Upload, Transmit
  <2> QED BY <1>2, <2>2 DEF Upload, Transmit, clientVars, serverVars
<1>3. CASE ClientStops
  BY <1>3 DEF ClientStops, serverVars
<1>4. ASSUME NEW n \in 1..Len(toClient), ClientReads(n) PROVE TypeOK'
  <2>1. toClient' \in Seq(Byte)
    BY <1>4, CountSplit DEF ClientReads
  <2> QED BY <1>4, <2>1 DEF ClientReads, serverVars
<1>5. CASE ServerTimesOut
  BY <1>0, <1>5 DEF ServerTimesOut, overThis, clientVars
<1>6. CASE ServerRequests
  <2>1. toClient' \in Seq(Byte)
    BY <1>6, CountAnswers, ConcatBytes DEF ServerRequests
  <2> QED BY <1>6, <2>1 DEF ServerRequests, clientVars
<1>7. ASSUME NEW n \in 1..Len(toServer), ServerReads(n) PROVE TypeOK'
  <2>1. toServer' \in Seq(Byte)
    BY <1>7, CountSplit DEF ServerReads
  <2>2. toClient' \in Seq(Byte)
    BY <1>7, CountAnswers, ConcatBytes DEF ServerReads
  <2> QED BY <1>7, <2>1, <2>2 DEF ServerReads, clientVars
<1>8. ASSUME NEW n \in 1..Len(toServer), ServerThrows(n) PROVE TypeOK'
  <2>1. toServer' \in Seq(Byte)
    BY <1>0, <1>8 DEF ServerThrows, overThis
  <2>2. conn' \in {"up", "closed", "reset"} /\ sRun' \in BOOLEAN
    BY <1>8 DEF ServerThrows, overThis
  <2> QED BY <1>8, <2>1, <2>2 DEF ServerThrows, clientVars
<1>9. CASE Tick
  BY <1>9 DEF Tick, ClientTimely, ServerTimely
<1>10. CASE UNCHANGED vars
  BY <1>10 DEF vars, clientVars, serverVars
<1> QED
  BY <1>1, <1>2, <1>3, <1>4, <1>5, <1>6, <1>7, <1>8, <1>9, <1>10 DEF Next, ClientStep, ServerStep

(* The state of a link has its type: no age runs past its limit by more than
   the unit in which it is noticed, and no count past its bound. *)
THEOREM TypeCorrect == Spec => []TypeOK
<1>1. Init => TypeOK
  <2> SUFFICES ASSUME Init PROVE TypeOK
    OBVIOUS
  <2>1. toServer \in Seq(Byte) /\ toClient \in Seq(Byte)
    BY DEF Init
  <2>2. /\ cRunning \in BOOLEAN /\ sRun \in BOOLEAN /\ timedOut \in BOOLEAN
        /\ conn \in {"up", "closed", "reset"}
    BY DEF Init
  <2>3. /\ sinceSend \in 0..(KeepAliveDelay + 1)
        /\ sinceRecv \in 0..(ReceiveDelay + 1)
        /\ sinceReq \in 0..(RequestDelay + 1)
    BY DelayAssumption DEF Init
  <2>4. /\ uploads \in 0..MaxUpload /\ requests \in 0..MaxRequest
        /\ responded \in Nat /\ requested \in Nat
    BY BoundAssumption DEF Init
  <2> QED BY <2>1, <2>2, <2>3, <2>4 DEF TypeOK
<1> QED BY <1>1, TypeStep, PTL DEF Spec

-----------------------------------------------------------------------------
(* No byte of an upload's length is the type of an uploaded location. *)
LengthIsNoType == (UploadLength \div 256) % 256 # 1 /\ UploadLength % 256 # 1

(* Every response posted, and every byte under way that could become one, was
   paid for by an upload; every request and every byte that could become one by
   a request of the server. *)
Accounts ==
  /\ Written(toClient)
  /\ responded + Count(toClient, 1) + Count(toServer, 1) <= uploads
  /\ requested + Count(toClient, 5) <= requests

(* What was read is what was written. *)
LEMMA WrittenRead ==
  ASSUME NEW s \in Seq(Byte), NEW n \in 1..Len(s), Written(s)
  PROVE  Written(SubSeq(s, n + 1, Len(s)))
<1> DEFINE q == SubSeq(s, n + 1, Len(s))
<1>1. Len(q) = Len(s) - n /\ \A i \in 1..(Len(s) - n) : q[i] = s[n + i]
  BY SubSeqProperties
<1> HIDE DEF q
<1>2. ASSUME NEW i \in 1..(Len(s) - n) PROVE q[i] \in Alphabet
  <2>1. n + i \in 1..Len(s)
    OBVIOUS
  <2>2. s[n + i] \in Alphabet
    BY <2>1 DEF Written
  <2> QED BY <2>2, <1>1
<1>3. Written(q)
  BY <1>1, <1>2 DEF Written
<1> QED BY <1>3 DEF q

(* A read that posts an event has taken the byte that made it one. *)
LEMMA OutcomeTakes ==
  ASSUME NEW n \in 1..Len(toClient), toClient \in Seq(Byte), Written(toClient)
  PROVE  LET outcome == ClientOutcome(SubSeq(toClient, 1, n))
         IN  /\ outcome = "response" => 5 \in 1..n /\ toClient[5] = 1
             /\ outcome = "request" => 5 \in 1..n /\ toClient[5] = 5
<1> DEFINE data == SubSeq(toClient, 1, n)
           outcome == ClientOutcome(data)
<1>0. n \in Nat /\ n <= Len(toClient) /\ Len(toClient) \in Nat
  OBVIOUS
<1>1. data \in Seq(Byte) /\ Len(data) = n /\ \A i \in 1..n : data[i] = toClient[i]
  BY <1>0, SubSeqProperties
<1> HIDE DEF data
<1>2. ASSUME outcome \in {"response", "request"} PROVE 5 \in 1..n /\ data[5] \in 1..5
  <2>1. ~(Len(data) <= 4) /\ data[5] \in 1..5
    BY <1>2 DEF ClientOutcome
  <2> QED BY <2>1, <1>0, <1>1
<1>3. ASSUME 5 \in 1..n PROVE toClient[5] \in Alphabet /\ data[5] = toClient[5]
  BY <1>3, <1>0, <1>1 DEF Written
<1>4. outcome = "request" => data[5] = 5
  BY DEF ClientOutcome
<1>5. outcome = "response" => data[5] # 5
  BY DEF ClientOutcome
<1>6. \A b \in Alphabet : b \in 1..5 => b = 1 \/ b = 5
  BY DEF Alphabet
<1>7. outcome = "response" => 5 \in 1..n /\ toClient[5] = 1
  BY <1>2, <1>3, <1>5, <1>6
<1>8. outcome = "request" => 5 \in 1..n /\ toClient[5] = 5
  BY <1>2, <1>3, <1>4
<1> QED BY <1>7, <1>8 DEF data

(* Every step keeps the accounts. *)
LEMMA AccountStep ==
  ASSUME LengthIsNoType
  PROVE  TypeOK /\ Accounts /\ [Next]_vars => Accounts'
<1> SUFFICES ASSUME TypeOK, Accounts, [Next]_vars PROVE Accounts'
  OBVIOUS
<1>0. /\ toServer \in Seq(Byte) /\ toClient \in Seq(Byte)
      /\ responded \in Nat /\ requested \in Nat /\ uploads \in Nat /\ requests \in Nat
  BY BoundAssumption DEF TypeOK
<1>c. responded \in Nat /\ requested \in Nat /\ uploads \in Nat /\ requests \in Nat
  BY <1>0
<1>n. /\ Count(toServer, 1) \in Nat
      /\ Count(toClient, 1) \in Nat
      /\ Count(toClient, 5) \in Nat
  BY <1>0, CountType
<1>s. UNCHANGED <<toServer, toClient, responded, requested, uploads, requests>> => Accounts'
  BY DEF Accounts, Written, Count, Places
<1>1. CASE KeepAlive
  <2>1. Count(toServer', 1) = Count(toServer, 1)
    <3>1. CASE conn = "up"
      <4>1. Count(toServer \o Header, 1) = Count(toServer, 1) + Count(Header, 1)
        BY <1>0, CountAnswers, CountConcat
      <4> QED BY <4>1, <3>1, <1>1, <1>n, CountAnswers DEF KeepAlive, Transmit
    <3>2. CASE conn # "up"
      BY <3>2, <1>1 DEF KeepAlive, Transmit
    <3> QED BY <3>1, <3>2
  <2>2. UNCHANGED <<toClient, responded, requested, uploads, requests>>
    BY <1>1 DEF KeepAlive
  <2>3. Count(toClient', 1) = Count(toClient, 1) /\ Count(toClient', 5) = Count(toClient, 5)
        /\ Written(toClient)'
    BY <2>2 DEF Accounts, Written
  <2> QED BY <2>1, <2>2, <2>3 DEF Accounts
<1>2. ASSUME NEW type \in UploadType, Upload(type) PROVE Accounts'
  <2> DEFINE frame == Frame(type, UploadLength)
  <2>1. type \in 1..6 /\ UploadLength \in Nat
    BY UploadAssumption
  <2>2. frame \in Seq(Byte) /\ Count(frame, 1) = IF type = 1 THEN 1 ELSE 0
    BY <2>1, CountFrame, CountUpload DEF LengthIsNoType
  <2> HIDE DEF frame
  <2>3. Count(toServer', 1) <= Count(toServer, 1) + (IF type = 1 THEN 1 ELSE 0)
    <3>1. CASE conn = "up"
      <4>1. Count(toServer \o frame, 1) = Count(toServer, 1) + Count(frame, 1)
        BY <1>0, <2>2, CountConcat
      <4>2. toServer' = toServer \o frame
        BY <3>1, <1>2 DEF Upload, Transmit, frame
      <4> QED BY <4>1, <4>2, <2>2, <1>n
    <3>2. CASE conn # "up"
      <4>1. toServer' = toServer
        BY <3>2, <1>2 DEF Upload, Transmit
      <4> QED BY <4>1, <1>n
    <3> QED BY <3>1, <3>2
  <2>4. /\ UNCHANGED <<toClient, responded, requested, requests>>
        /\ uploads' = IF type = 1 THEN uploads + 1 ELSE uploads
    BY <1>2 DEF Upload, clientVars
  <2>5. toServer' \in Seq(Byte)
    BY <1>0, <1>2, <2>2, ConcatBytes DEF Upload, Transmit, frame
  <2>6. Count(toServer', 1) \in Nat
    BY <2>5, CountType
  <2>7. responded' + Count(toClient', 1) + Count(toServer', 1) <= uploads'
    <3>1. responded' = responded /\ Count(toClient', 1) = Count(toClient, 1)
      BY <2>4
    <3>2. responded + Count(toClient, 1) + Count(toServer, 1) <= uploads
      BY DEF Accounts
    <3> QED BY <3>1, <3>2, <2>3, <2>4, <2>6, <1>c, <1>n
  <2> QED BY <2>4, <2>7 DEF Accounts, Written
<1>3. CASE ClientStops
  BY <1>3, <1>s DEF ClientStops
<1>4. ASSUME NEW n \in 1..Len(toClient), ClientReads(n) PROVE Accounts'
  <2> DEFINE outcome == ClientOutcome(SubSeq(toClient, 1, n))
  <2>1. /\ responded' = IF outcome = "response" THEN responded + 1 ELSE responded
        /\ requested' = IF outcome = "request" THEN requested + 1 ELSE requested
        /\ toClient' = SubSeq(toClient, n + 1, Len(toClient))
        /\ UNCHANGED <<toServer, uploads, requests>>
    BY <1>4 DEF ClientReads
  <2>2. /\ outcome = "response" => 5 \in 1..n /\ toClient[5] = 1
        /\ outcome = "request" => 5 \in 1..n /\ toClient[5] = 5
    BY <1>0, OutcomeTakes DEF Accounts
  <2> HIDE DEF outcome
  <2>3. /\ Count(toClient', 1) \in Nat /\ Count(toClient', 1) <= Count(toClient, 1)
        /\ outcome = "response" => Count(toClient', 1) + 1 <= Count(toClient, 1)
    BY <1>0, <2>1, <2>2, CountRead
  <2>4. /\ Count(toClient', 5) \in Nat /\ Count(toClient', 5) <= Count(toClient, 5)
        /\ outcome = "request" => Count(toClient', 5) + 1 <= Count(toClient, 5)
    BY <1>0, <2>1, <2>2, CountRead
  <2>5. Written(toClient')
    BY <1>0, <2>1, WrittenRead DEF Accounts
  <2>6. responded' + Count(toClient', 1) + Count(toServer', 1) <= uploads'
    <3>1. responded + Count(toClient, 1) + Count(toServer, 1) <= uploads
      BY DEF Accounts
    <3>2. Count(toServer', 1) = Count(toServer, 1) /\ uploads' = uploads
      BY <2>1
    <3>3. CASE outcome = "response"
      <4>1. responded' = responded + 1 /\ Count(toClient', 1) + 1 <= Count(toClient, 1)
        BY <3>3, <2>1, <2>3
      <4> QED BY <4>1, <3>1, <3>2, <2>3, <1>c, <1>n
    <3>4. CASE outcome # "response"
      <4>1. responded' = responded /\ Count(toClient', 1) <= Count(toClient, 1)
        BY <3>4, <2>1, <2>3
      <4> QED BY <4>1, <3>1, <3>2, <2>3, <1>c, <1>n
    <3> QED BY <3>3, <3>4
  <2>7. requested' + Count(toClient', 5) <= requests'
    <3>1. requested + Count(toClient, 5) <= requests
      BY DEF Accounts
    <3>2. requests' = requests
      BY <2>1
    <3>3. CASE outcome = "request"
      <4>1. requested' = requested + 1 /\ Count(toClient', 5) + 1 <= Count(toClient, 5)
        BY <3>3, <2>1, <2>4
      <4> QED BY <4>1, <3>1, <3>2, <2>4, <1>c, <1>n
    <3>4. CASE outcome # "request"
      <4>1. requested' = requested /\ Count(toClient', 5) <= Count(toClient, 5)
        BY <3>4, <2>1, <2>4
      <4> QED BY <4>1, <3>1, <3>2, <2>4, <1>c, <1>n
    <3> QED BY <3>3, <3>4
  <2> QED BY <2>5, <2>6, <2>7 DEF Accounts
<1>5. ASSUME overThis,
             UNCHANGED <<toClient, responded, requested, uploads, requests>>
      PROVE  Accounts'
  <2>1. toServer' = << >>
    BY <1>5 DEF overThis
  <2>2. Count(toServer', 1) = 0
    BY <2>1, CountEmpty
  <2> QED BY <1>5, <2>2, <1>c, <1>n DEF Accounts, Written
<1>6. CASE ServerRequests
  <2>1. toClient' = toClient \o Request /\ requests' = requests + 1
        /\ UNCHANGED <<responded, requested, toServer, uploads>>
    BY <1>6 DEF ServerRequests, clientVars
  <2>2. Count(toClient', 1) = Count(toClient, 1) + 0 /\ Count(toClient', 5) = Count(toClient, 5) + 1
    BY <2>1, <1>0, CountAnswers, CountConcat
  <2>3. Written(toClient')
    BY <2>1, <1>0, CountAnswers, WrittenConcat DEF Accounts
  <2>4. Count(toServer', 1) = Count(toServer, 1)
    BY <2>1
  <2> QED BY <2>1, <2>2, <2>3, <2>4, <1>c, <1>n DEF Accounts
<1>7. ASSUME NEW n \in 1..Len(toServer), ServerReads(n) PROVE Accounts'
  <2> DEFINE taken == n > 4 /\ toServer[5] = 1
             answer == IF taken THEN Response ELSE Header
  <2>1. /\ toServer' = SubSeq(toServer, n + 1, Len(toServer))
        /\ toClient' = toClient \o answer
        /\ UNCHANGED <<responded, requested, uploads, requests>>
    BY <1>7 DEF ServerReads, clientVars
  <2>2. /\ answer \in Seq(Byte) /\ Written(answer)
        /\ Count(answer, 1) = (IF taken THEN 1 ELSE 0) /\ Count(answer, 5) = 0
    BY CountAnswers
  <2>3. taken => 5 \in 1..n /\ toServer[5] = 1
    <3>1. n \in Nat
      BY <1>0
    <3> QED BY <3>1
  <2> HIDE DEF taken, answer
  <2>4. /\ Count(toServer', 1) \in Nat /\ Count(toServer', 1) <= Count(toServer, 1)
        /\ taken => Count(toServer', 1) + 1 <= Count(toServer, 1)
    BY <1>0, <2>1, <2>3, CountRead
  <2>5. /\ Count(toClient', 1) = Count(toClient, 1) + Count(answer, 1)
        /\ Count(toClient', 5) = Count(toClient, 5) + Count(answer, 5)
    BY <1>0, <2>1, <2>2, CountConcat
  <2>6. Written(toClient')
    BY <1>0, <2>1, <2>2, WrittenConcat DEF Accounts
  <2>7. responded' + Count(toClient', 1) + Count(toServer', 1) <= uploads'
    <3>1. responded + Count(toClient, 1) + Count(toServer, 1) <= uploads
      BY DEF Accounts
    <3>2. responded' = responded /\ uploads' = uploads
      BY <2>1
    <3>3. CASE taken
      BY <3>1, <3>2, <3>3, <2>2, <2>4, <2>5, <1>c, <1>n
    <3>4. CASE ~taken
      BY <3>1, <3>2, <3>4, <2>2, <2>4, <2>5, <1>c, <1>n
    <3> QED BY <3>3, <3>4
  <2>8. requested' + Count(toClient', 5) <= requests'
    BY <2>1, <2>2, <2>5, <1>c, <1>n DEF Accounts
  <2> QED BY <2>6, <2>7, <2>8 DEF Accounts
<1>8. CASE Tick
  BY <1>8, <1>s DEF Tick
<1>9. CASE UNCHANGED vars
  BY <1>9, <1>s DEF vars, clientVars, serverVars
<1>10. CASE ServerTimesOut
  BY <1>5, <1>10 DEF ServerTimesOut, clientVars
<1>11. ASSUME NEW n \in 1..Len(toServer), ServerThrows(n) PROVE Accounts'
  BY <1>5, <1>11 DEF ServerThrows, clientVars
<1> QED
  BY <1>1, <1>2, <1>3, <1>4, <1>6, <1>7, <1>8, <1>9, <1>10, <1>11 DEF Next, ClientStep, ServerStep

(* Under any segmentation of both streams, and whatever is lost when a side goes
   away, no event is invented -- as long as no byte of an upload's length can be
   taken for its type. *)
THEOREM NoPhantomEventsHolds ==
  ASSUME LengthIsNoType
  PROVE  Spec => []NoPhantomEvents
<1>1. Init => Accounts
  <2>1. << >> \in Seq(Byte) /\ Written(<< >>)
    BY DEF Written
  <2>2. Count(<< >>, 1) = 0 /\ Count(<< >>, 5) = 0
    BY CountEmpty
  <2> QED BY <2>1, <2>2 DEF Init, Accounts
<1>2. TypeOK /\ Accounts => NoPhantomEvents
  <2> SUFFICES ASSUME TypeOK, Accounts PROVE NoPhantomEvents
    OBVIOUS
  <2>1. /\ Count(toServer, 1) \in Nat
        /\ Count(toClient, 1) \in Nat
        /\ Count(toClient, 5) \in Nat
    BY CountType DEF TypeOK
  <2> QED BY <2>1, BoundAssumption DEF TypeOK, Accounts, NoPhantomEvents
<1>3. TypeOK /\ Accounts /\ [Next]_vars => Accounts'
  BY AccountStep
<1> QED BY <1>1, <1>2, <1>3, TypeCorrect, PTL DEF Spec

=============================================================================
