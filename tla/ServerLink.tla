------------------------------ MODULE ServerLink ------------------------------
(***************************************************************************)
(* One connection between a tracker and the server: the watchdog threads   *)
(* of TcpClient.java on one side, the SocketAction of Server.java on the   *)
(* other, and the two byte streams between them.                           *)
(*                                                                         *)
(* Neither side frames what it reads: a read takes the bytes that happen   *)
(* to be available() as one message.  TCP keeps the order of the bytes and *)
(* nothing else, so a read takes any non-empty prefix of its stream.       *)
(*                                                                         *)
(* Time is counted in units of 30 s.  A unit passes when both sides have   *)
(* done what is due: their loops poll every 10 ms, and what is sent        *)
(* arrives within the unit.                                                *)
(***************************************************************************)
EXTENDS Integers, Sequences

CONSTANTS
  KeepAliveDelay,  \* keepAliveDelay: the client's keep-alive period
  RequestDelay,    \* the server asks for a location when this much passed
  ReceiveDelay,    \* receiveTimeDelay: the server gives up after this silence
  UploadType,      \* types of the messages the tracker uploads
  UploadLength,    \* length of the encrypted document in an upload
  MaxUpload,       \* bound: uploads of type 1
  MaxRequest,      \* bound: location requests of the server
  MaxBytes         \* bound: uploads start only while fewer bytes are under way

ASSUME DelayAssumption ==
  /\ KeepAliveDelay \in Nat /\ RequestDelay \in Nat /\ ReceiveDelay \in Nat
  /\ KeepAliveDelay < ReceiveDelay
ASSUME BoundAssumption == MaxUpload \in Nat /\ MaxRequest \in Nat /\ MaxBytes \in Nat
ASSUME UploadAssumption == UploadType \subseteq 1..6 /\ UploadLength \in Nat

VARIABLES
  cRunning,   \* TcpClient.running
  sinceSend,  \* units since TcpClient.lastSendTime
  conn,       \* the connection as the tracker's writes find it
  sRun,       \* SocketAction.run
  sinceRecv,  \* units since SocketAction.lastReceiveTime
  sinceReq,   \* units since SocketAction.lastSendTime
  timedOut,   \* the server ended the connection for silence
  toServer, toClient,   \* the bytes under way
  uploads,    \* uploads of type 1 written
  requests,   \* location requests written by the server
  responded,  \* ServerResponse events posted
  requested   \* ServerRequest events posted

clientVars == <<cRunning, sinceSend, responded, requested>>
serverVars == <<sRun, sinceRecv, sinceReq, timedOut>>
vars == <<clientVars, conn, serverVars, toServer, toClient, uploads, requests>>

Byte == 0..255
Header == <<16, 15, 15, 6>>       \* also the keep-alive message itself

(* Three bytes stand for a JSON document, whatever its length: a document holds
   printable characters, none of which is the code of a message type. *)
Json == <<123, 34, 125>>
ResponseLength == 38
RequestLength == 51

(* createUploadData(): header, type, length, content *)
Frame(type, length) ==
  Header \o <<type, (length \div 256) % 256, length % 256>> \o Json
Response == Frame(1, ResponseLength)
Request == Frame(5, RequestLength)

TypeOK ==
  /\ cRunning \in BOOLEAN /\ sRun \in BOOLEAN /\ timedOut \in BOOLEAN
  /\ sinceSend \in 0..(KeepAliveDelay + 1)
  /\ sinceRecv \in 0..(ReceiveDelay + 1)
  /\ sinceReq \in 0..(RequestDelay + 1)
  /\ conn \in {"up", "closed", "reset"}
  /\ toServer \in Seq(Byte) /\ toClient \in Seq(Byte)
  /\ uploads \in 0..MaxUpload /\ requests \in 0..MaxRequest
  /\ responded \in Nat /\ requested \in Nat

Init ==
  /\ cRunning = TRUE /\ sRun = TRUE /\ timedOut = FALSE
  /\ sinceSend = 0 /\ sinceRecv = 0 /\ sinceReq = 0
  /\ conn = "up"
  /\ toServer = << >> /\ toClient = << >>
  /\ uploads = 0 /\ requests = 0
  /\ responded = 0 /\ requested = 0

-----------------------------------------------------------------------------
(* The tracker *)

(* TcpClient.sendMessage(): the bytes go out; on a connection the server has
   closed the first write is lost and resets it, and later ones throw. *)
Transmit(bytes) ==
  /\ toServer' = IF conn = "up" THEN toServer \o bytes ELSE toServer
  /\ conn' = IF conn = "up" THEN "up" ELSE "reset"

(* Mutant: the exception of a keep-alive is ignored. *)
KeepAlive_ignoresError ==
  /\ cRunning
  /\ sinceSend > KeepAliveDelay
  /\ Transmit(Header)
  /\ sinceSend' = 0
  /\ UNCHANGED <<cRunning, responded, requested, serverVars, toClient, uploads, requests>>

(* KeepAliveWatchDog: a keep-alive is due.  lastSendTime is set whether or not
   the write threw. *)
KeepAlive ==
  /\ cRunning
  /\ sinceSend > KeepAliveDelay
  /\ Transmit(Header)
  /\ cRunning' = (conn # "reset")
  /\ sinceSend' = 0
  /\ UNCHANGED <<responded, requested, serverVars, toClient, uploads, requests>>

(* An upload by the executor of TcpSocketManager.  It does not look at `running':
   until the next client is assigned it uses this one.  lastSendTime is not set. *)
Upload(type) ==
  /\ type = 1 => uploads < MaxUpload
  /\ Len(toServer) < MaxBytes /\ Len(toClient) < MaxBytes
  /\ Transmit(Frame(type, UploadLength))
  /\ uploads' = IF type = 1 THEN uploads + 1 ELSE uploads
  /\ UNCHANGED <<clientVars, serverVars, toClient, requests>>

(* sopTcpConnect(): the flag is cleared, the socket stays open *)
ClientStops ==
  /\ cRunning
  /\ cRunning' = FALSE
  /\ UNCHANGED <<sinceSend, responded, requested, conn, serverVars, toServer, toClient,
                 uploads, requests>>

(* DefaultObjectAction.doAction(): what becomes of the bytes of one read.
   Five and six bytes make a negative array size; a document that is cut off
   or followed by more bytes does not parse. *)
ClientOutcome(data) ==
  IF Len(data) <= 4 THEN "ignored"
  ELSE IF Len(data) < 7 THEN "exception"
  ELSE IF data[5] \notin 1..5 THEN "ignored"
  ELSE IF SubSeq(data, 8, Len(data)) # Json THEN "exception"
  ELSE IF data[5] = 5 THEN "request" ELSE "response"

(* Mutant: the bytes are looked at and not consumed. *)
ClientReads_peeks(n) ==
  /\ cRunning
  /\ LET outcome == ClientOutcome(SubSeq(toClient, 1, n))
     IN  /\ cRunning' = (outcome # "exception")
         /\ responded' = IF outcome = "response" THEN responded + 1 ELSE responded
         /\ requested' = IF outcome = "request" THEN requested + 1 ELSE requested
  /\ UNCHANGED <<toClient, sinceSend, conn, serverVars, toServer, uploads, requests>>

(* ReceiveWatchDog: n bytes are available *)
ClientReads(n) ==
  /\ cRunning
  /\ LET outcome == ClientOutcome(SubSeq(toClient, 1, n))
     IN  /\ cRunning' = (outcome # "exception")
         /\ responded' = IF outcome = "response" THEN responded + 1 ELSE responded
         /\ requested' = IF outcome = "request" THEN requested + 1 ELSE requested
  /\ toClient' = SubSeq(toClient, n + 1, Len(toClient))
  /\ UNCHANGED <<sinceSend, conn, serverVars, toServer, uploads, requests>>

-----------------------------------------------------------------------------
(* The server: SocketAction.run() *)

(* overThis(): the socket is closed; what was not read is discarded *)
overThis ==
  /\ sRun' = FALSE
  /\ conn' = IF conn = "up" THEN "closed" ELSE conn
  /\ toServer' = << >>

(* Mutant: the socket is closed but the loop goes on. *)
ServerTimesOut_keepsRunning ==
  /\ sRun
  /\ sinceRecv > ReceiveDelay
  /\ conn' = "closed" /\ toServer' = << >> /\ timedOut' = TRUE
  /\ UNCHANGED <<clientVars, sRun, sinceRecv, sinceReq, toClient, uploads, requests>>

ServerTimesOut ==
  /\ sRun
  /\ sinceRecv > ReceiveDelay
  /\ overThis
  /\ timedOut' = TRUE
  /\ UNCHANGED <<clientVars, sinceRecv, sinceReq, toClient, uploads, requests>>

ServerRequests ==
  /\ sRun
  /\ sinceRecv <= ReceiveDelay
  /\ sinceReq > RequestDelay
  /\ requests < MaxRequest
  /\ toClient' = toClient \o Request
  /\ requests' = requests + 1
  /\ sinceReq' = 0
  /\ UNCHANGED <<clientVars, conn, sRun, sinceRecv, timedOut, toServer, uploads>>

(* Mutant: lastReceiveTime is not set. *)
ServerReads_keepsTime(n) ==
  /\ sRun
  /\ sinceRecv <= ReceiveDelay
  /\ n \notin {5, 6}
  /\ toServer' = SubSeq(toServer, n + 1, Len(toServer))
  /\ toClient' = toClient \o (IF n > 4 /\ toServer[5] = 1 THEN Response ELSE Header)
  /\ UNCHANGED <<clientVars, conn, sRun, sinceRecv, sinceReq, timedOut, uploads, requests>>

(* n bytes are available; DefaultObjectAction answers a location of type 1
   with a document and everything else with the header alone *)
ServerReads(n) ==
  /\ sRun
  /\ sinceRecv <= ReceiveDelay
  /\ n \notin {5, 6}
  /\ sinceRecv' = 0
  /\ toServer' = SubSeq(toServer, n + 1, Len(toServer))
  /\ toClient' = toClient \o (IF n > 4 /\ toServer[5] = 1 THEN Response ELSE Header)
  /\ UNCHANGED <<clientVars, conn, sRun, sinceReq, timedOut, uploads, requests>>

(* five or six bytes: NegativeArraySizeException, overThis() *)
ServerThrows(n) ==
  /\ sRun
  /\ sinceRecv <= ReceiveDelay
  /\ n \in {5, 6}
  /\ sinceRecv' = 0
  /\ overThis
  /\ UNCHANGED <<clientVars, sinceReq, timedOut, toClient, uploads, requests>>

-----------------------------------------------------------------------------
(* 30 s pass.  Whatever was due has been done. *)
(* Mutant: a keep-alive that is due does not hold time up. *)
ClientTimely_late == cRunning => toClient = << >>

ClientTimely == cRunning => sinceSend <= KeepAliveDelay /\ toClient = << >>
ServerTimely ==
  sRun => /\ toServer = << >>
          /\ sinceRecv <= ReceiveDelay
          /\ sinceReq <= RequestDelay \/ requests = MaxRequest

Tick ==
  /\ ClientTimely
  /\ ServerTimely
  /\ sinceSend' = IF cRunning THEN sinceSend + 1 ELSE sinceSend
  /\ sinceRecv' = IF sRun THEN sinceRecv + 1 ELSE sinceRecv
  /\ sinceReq' = IF sRun /\ sinceReq <= RequestDelay THEN sinceReq + 1 ELSE sinceReq
  /\ UNCHANGED <<cRunning, responded, requested, conn, sRun, timedOut, toServer, toClient,
                 uploads, requests>>

ServerStep ==
  \/ ServerTimesOut
  \/ ServerRequests
  \/ \E n \in 1..Len(toServer) : ServerReads(n) \/ ServerThrows(n)

ClientStep ==
  \/ KeepAlive
  \/ \E n \in 1..Len(toClient) : ClientReads(n)

Next ==
  \/ ClientStep
  \/ \E type \in UploadType : Upload(type)
  \/ ClientStops
  \/ ServerStep
  \/ Tick

Spec == Init /\ [][Next]_vars

(* Time passes, and the loops of both sides keep polling. *)
Fairness == WF_vars(Tick) /\ WF_vars(ClientStep) /\ WF_vars(ServerStep)
FairSpec == Spec /\ Fairness

-----------------------------------------------------------------------------
(* Under any segmentation of the streams no event is invented: the tracker
   posts no more responses than it uploaded locations of type 1, and no more
   requests than the server made. *)
NoPhantomEvents == responded <= uploads /\ requested <= requests

(* The server gives up only on a tracker that stopped: the keep-alives of a
   running client arrive before receiveTimeDelay is over. *)
NoSpuriousTimeout == timedOut => ~cRunning

(* A tracker that went away without closing its socket is forgotten. *)
ServerForgets == (~cRunning) ~> (~sRun)

(* A connection that the server ended is noticed by the tracker. *)
ClientNotices == (~sRun) ~> (~cRunning)
=============================================================================
