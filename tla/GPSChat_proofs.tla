---------------------------- MODULE GPSChat_proofs ----------------------------
(***************************************************************************)
(* GPSChat has no parameters, and TLC visits all of its states.  The proof *)
(* says why its properties hold: what the thread that waits in connect()   *)
(* owns, and what a button that nobody disturbed leaves behind.            *)
(***************************************************************************)
EXTENDS GPSChat, TLAPS

\* The thread on record as dialing is in connect(), and a socket that is open
\* without a connection is being dialed.
DialFits ==
  /\ dial # "none" => pc[dial] = "dial"
  /\ open /\ link = "none" => dial # "none"

\* A thread whose dial another one took away was disturbed, and no new button
\* makes that forgotten while it still waits.
DialKept ==
  process = "running" =>
    \A t \in Thread : pc[t] = "dial" /\ dial # t => clash

ClashSeen == Busy /\ Connecting("reader") => clash

\* After an undisturbed `connect' the socket is open, nobody dials, and what is
\* up has the login; the reading thread has no reason to connect.  Until then the button is on its
\* way to login().
ConnectFits ==
  process = "running" /\ wants =>
    /\ pc["ui"] # "close"
    /\ pc["ui"] = "login" /\ ~clash => open /\ dial = "none"
    /\ ~Busy /\ ~clash => /\ open
                          /\ dial = "none"
                          /\ ~Connecting("reader")
                          /\ link = "up" => loggedIn

\* Before the constructor has returned nothing is open, and as long as the
\* reading thread does not exist the user has no button to press.
StartFits ==
  process # "running" => ~open /\ dial = "none" /\ link = "none"
LaunchFits ==
  /\ process = "starting" => pc["ui"] = "test" /\ pc["reader"] = "unborn"
  /\ pc["reader"] = "unborn" => pc["ui"] \in {"test", "open", "dial"} /\ ~wants

PcFits == pc \in [Thread -> {"idle", "login", "close", "unborn", "read", "test", "open", "dial"}]

IInv ==
  /\ TypeOK
  /\ PcFits
  /\ DialFits
  /\ DialKept
  /\ ClashSeen
  /\ ConnectFits
  /\ StartFits
  /\ LaunchFits

-----------------------------------------------------------------------------
(* The steps *)

\* A socket that was closed by whoever used it: what an exception and the end of
\* the process leave.
LEMMA ThrowsKeep ==
  ASSUME IInv, Throws, Watches, process # "ended"
  PROVE  IInv'
BY DEF IInv, TypeOK, PcFits, DialFits, DialKept, ClashSeen, ConnectFits, StartFits, LaunchFits,
   Throws, Watches, Busy, Connecting, Thread

\* The app is opened, and its global object connects.
LEMMA ProcessKeeps ==
  ASSUME IInv, Client \/ ClientThrows \/ Launch, Watches
  PROVE  IInv'
<1>1. CASE Client
  BY <1>1 DEF IInv, TypeOK, PcFits, DialFits, DialKept, ClashSeen, ConnectFits, StartFits,
     LaunchFits, Client, Watches, Busy, Connecting, Thread
<1>2. CASE ClientThrows
  BY <1>2, ThrowsKeep DEF ClientThrows
<1>3. CASE Launch
  BY <1>3 DEF IInv, TypeOK, PcFits, DialFits, DialKept, ClashSeen, ConnectFits, StartFits,
     LaunchFits, Launch, Watches, socketVars, Busy, Connecting, Thread
<1> QED BY <1>1, <1>2, <1>3

\* _connect() on thread t
LEMMA ConnectKeeps ==
  ASSUME IInv, NEW t \in Thread, process = "running", ConnectStep(t), Watches
  PROVE  IInv'
<1> USE DEF IInv, TypeOK, PcFits, DialFits, DialKept, ClashSeen, ConnectFits, StartFits, LaunchFits,
        Watches, Busy, Connecting, Thread
<1>1. CASE IsConnected(t)
  <2>1. CASE t = "reader"
    BY <1>1, <2>1 DEF IsConnected, Connected, socketVars
  <2>2. CASE t = "ui" /\ pc["reader"] = "unborn"
    BY <1>1, <2>2 DEF IsConnected, Connected, socketVars
  <2>3. CASE t = "ui" /\ pc["reader"] # "unborn"
    <3>1. pc' = [pc EXCEPT !["ui"] = "login"] /\ UNCHANGED <<process, server, open, link, dial, loggedIn, wants>>
      BY <1>1, <2>3 DEF IsConnected, Connected, socketVars
    <3>2. ~clash => dial = "none"
      BY <1>1, <2>3 DEF IsConnected
    <3>3. clash => clash'
      BY <1>1, <2>3 DEF IsConnected
    <3>4. TypeOK' /\ PcFits'
      BY <1>1, <2>3, <3>1 DEF IsConnected
    <3>5. DialFits' /\ DialKept' /\ ClashSeen'
      BY <1>1, <2>3, <3>1, <3>3 DEF IsConnected
    <3>6. ConnectFits' /\ StartFits' /\ LaunchFits'
      BY <1>1, <2>3, <3>1, <3>2, <3>3 DEF IsConnected
    <3> QED BY <3>4, <3>5, <3>6
  <2> QED BY <2>1, <2>2, <2>3
<1>2. CASE IsNotConnected(t)
  BY <1>2 DEF IsNotConnected, socketVars
<1>3. CASE Opens(t)
  <2>1. CASE t = "reader"
    BY <1>3, <2>1 DEF Opens
  <2>2. CASE t = "ui"
    BY <1>3, <2>2 DEF Opens
  <2> QED BY <2>1, <2>2
<1>4. CASE DialSucceeds(t)
  <2>1. CASE t = "reader"
    BY <1>4, <2>1 DEF DialSucceeds, Connected
  <2>2. CASE t = "ui" /\ pc["reader"] = "unborn"
    BY <1>4, <2>2 DEF DialSucceeds, Connected
  <2>3. CASE t = "ui" /\ pc["reader"] # "unborn"
    BY <1>4, <2>3 DEF DialSucceeds, Connected
  <2> QED BY <2>1, <2>2, <2>3
<1>5. CASE DialThrows(t)
  BY <1>5, ThrowsKeep DEF DialThrows
<1> QED BY <1>1, <1>2, <1>3, <1>4, <1>5 DEF ConnectStep

\* The buttons and the reading thread
LEMMA ButtonsKeep ==
  ASSUME IInv, process = "running", Watches,
         connect \/ disconnect \/ login \/ closes \/ ReadsNothing
  PROVE  IInv'
<1> USE DEF IInv, TypeOK, PcFits, DialFits, DialKept, ClashSeen, ConnectFits, StartFits, LaunchFits,
        Watches, Busy, Connecting, Thread
<1>1. CASE connect
  <2>1. CASE open
    BY <1>1, <2>1 DEF connect, socketVars
  <2>2. CASE ~open
    BY <1>1, <2>2 DEF connect, socketVars
  <2> QED BY <2>1, <2>2
<1>2. CASE disconnect
  BY <1>2 DEF disconnect
<1>3. CASE login
  <2>1. pc' = [pc EXCEPT !["ui"] = "idle"] /\ clash' = clash /\ ~Busy'
    BY <1>3 DEF login
  <2>2. TypeOK' /\ PcFits'
    BY <1>3, <2>1 DEF login
  <2>3. DialFits' /\ DialKept'
    BY <1>3, <2>1 DEF login
  <2>4. ClashSeen' /\ ConnectFits' /\ StartFits' /\ LaunchFits'
    BY <1>3, <2>1 DEF login
  <2> QED BY <2>2, <2>3, <2>4
<1>4. CASE closes
  <2>1. pc' = [pc EXCEPT !["ui"] = "idle"] /\ clash' = clash /\ ~Busy'
    BY <1>4 DEF closes
  <2>2. TypeOK' /\ PcFits'
    BY <1>4, <2>1 DEF closes
  <2>3. DialFits' /\ DialKept'
    BY <1>4, <2>1 DEF closes
  <2>4. ClashSeen' /\ ConnectFits' /\ StartFits' /\ LaunchFits'
    BY <1>4, <2>1 DEF closes
  <2> QED BY <2>2, <2>3, <2>4
<1>5. CASE ReadsNothing
  BY <1>5 DEF ReadsNothing, socketVars
<1> QED BY <1>1, <1>2, <1>3, <1>4, <1>5

\* The server and the network
LEMMA ServerKeeps ==
  ASSUME IInv, ServerDies \/ ServerReturns \/ ServerCloses, Watches
  PROVE  IInv'
<1> USE DEF IInv, TypeOK, PcFits, DialFits, DialKept, ClashSeen, ConnectFits, StartFits, LaunchFits,
        Watches, Busy, Connecting, Thread
<1>1. CASE ServerDies
  BY <1>1 DEF ServerDies, Hangup
<1>2. CASE ServerReturns
  BY <1>2 DEF ServerReturns, socketVars
<1>3. CASE ServerCloses
  BY <1>3 DEF ServerCloses, Hangup
<1> QED BY <1>1, <1>2, <1>3

\* Every step keeps the invariant.
LEMMA Keeps == IInv /\ [Next]_vars => IInv'
<1> SUFFICES ASSUME IInv, [Next]_vars PROVE IInv'
  OBVIOUS
<1>1. CASE Next
  <2>1. CASE process = "running" /\ (UiStep \/ ReaderStep \/ connect \/ disconnect)
    BY <1>1, <2>1, ConnectKeeps, ButtonsKeep DEF Next, UiStep, ReaderStep, Thread
  <2>2. CASE Client \/ ClientThrows \/ Launch
    BY <1>1, <2>2, ProcessKeeps DEF Next
  <2>3. CASE ServerDies \/ ServerReturns \/ ServerCloses
    BY <1>1, <2>3, ServerKeeps DEF Next
  <2> QED BY <1>1, <2>1, <2>2, <2>3 DEF Next, Step
<1>2. CASE UNCHANGED vars
  BY <1>2 DEF vars, IInv, TypeOK, PcFits, DialFits, DialKept, ClashSeen, ConnectFits, StartFits,
     LaunchFits, Busy, Connecting
<1> QED BY <1>1, <1>2

LEMMA Starts == Init => IInv
BY DEF Init, IInv, TypeOK, PcFits, DialFits, DialKept, ClashSeen, ConnectFits, StartFits, LaunchFits,
   Busy, Connecting, Thread

-----------------------------------------------------------------------------
(* The theorems *)

\* The socket and both threads stay in the states the code knows; a connection
\* that is up belongs to an open socket.
\* (is_open() and connect() in GPSChat.cpp)
THEOREM TypeCorrect == Spec => []TypeOK
<1>1. IInv => TypeOK
  BY DEF IInv
<1> QED BY <1>1, Starts, Keeps, PTL DEF Spec

\* The login of a user who chose `connect' stands on the connection that is up,
\* unless the reading thread was connecting at the same time.
\* (connect: of ViewController.mm)
THEOREM LoginStandsHolds == Spec => []LoginStands
<1>1. IInv => LoginStands
  BY DEF IInv, ConnectFits, LoginStands
<1> QED BY <1>1, Starts, Keeps, PTL DEF Spec

\* While the server is there only the overlap of both threads ends the app: a
\* dial fails only if the other thread took its socket away.
\* (connect() in _connect(), which nobody catches)
THEOREM OnlyClashKillsHolds == Spec => OnlyClashKills
<1> DEFINE Ends == process = "running" /\ process' = "ended" /\ server
<1>1. IInv /\ [Next]_vars => [Ends => clash']_vars
  <2> SUFFICES ASSUME IInv, Next, Ends PROVE clash'
    OBVIOUS
  <2>1. PICK t \in Thread : DialThrows(t)
    BY DEF Next, Step, UiStep, ReaderStep, ConnectStep, Thread, IsConnected, IsNotConnected, Opens,
       DialSucceeds, connect, disconnect, login, closes, ReadsNothing, Client, ClientThrows,
       Launch, ServerDies, ServerReturns, ServerCloses
  <2>2. pc[t] = "dial" /\ dial # t
    BY <2>1 DEF DialThrows
  <2>3. clash
    BY <2>2 DEF IInv, DialKept
  <2>4. pc' = pc /\ process' = "ended"
    BY <2>1 DEF DialThrows, Throws
  <2> QED BY <2>3, <2>4 DEF Next, Watches, Busy
<1> QED BY <1>1, Starts, Keeps, PTL DEF Spec, OnlyClashKills
=============================================================================
