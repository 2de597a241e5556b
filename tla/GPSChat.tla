------------------------------- MODULE GPSChat -------------------------------
(***************************************************************************)
(* The iOS client: one boost socket (Client in GPSChat.cpp) used without a *)
(* lock by the UI thread, which runs the buttons of ViewController.mm, and *)
(* by a detached thread, which reads every 300 ms and calls _connect()     *)
(* when it read nothing.                                                   *)
(*                                                                         *)
(* connect() is two steps: it closes the socket and opens a new one, and   *)
(* then waits for the server; in between is_open() is already true.  A     *)
(* dial whose socket the other thread closed or replaced fails.  Reading   *)
(* data and sending a message other than login and logout change nothing   *)
(* here: both ignore errors and the text is only logged.                   *)
(***************************************************************************)
EXTENDS FiniteSets

VARIABLES
  process,   \* "starting": the constructor of `client' runs, before main()
  server,    \* the server can be reached
  open,      \* socket.is_open()
  link,      \* the connection of that socket, as TCP has it
  dial,      \* the thread that waits in connect() on that socket, or "none"
  pc,        \* where each thread is
  loggedIn,  \* the server has the login of a user on this connection
  wants,     \* the last button the user chose was `connect'
  clash      \* since the last button, both threads were in the socket at once

vars == <<process, server, open, link, dial, pc, loggedIn, wants, clash>>
socketVars == <<open, link, dial, loggedIn>>

Thread == {"ui", "reader"}

\* In _connect(), after isConnect() was false.
Connecting(t) == pc[t] \in {"open", "dial"}

\* A button of the user is being handled.
Busy == pc["ui"] # "idle"

TypeOK ==
  /\ process \in {"starting", "running", "ended"}
  /\ server \in BOOLEAN
  /\ open \in BOOLEAN
  /\ link \in {"none", "up", "gone"}
  /\ dial \in Thread \cup {"none"}
  /\ pc["ui"] \in {"idle", "test", "open", "dial", "login", "close"}
  /\ pc["reader"] \in {"unborn", "read", "test", "open", "dial"}
  /\ loggedIn \in BOOLEAN
  /\ wants \in BOOLEAN
  /\ clash \in BOOLEAN
  /\ link = "up" => open
  /\ dial # "none" => open /\ link = "none"

Init ==
  /\ process = "starting"
  /\ server \in BOOLEAN
  /\ open = FALSE
  /\ link = "none"
  /\ dial = "none"
  /\ pc = [t \in Thread |-> IF t = "ui" THEN "test" ELSE "unborn"]
  /\ loggedIn = FALSE
  /\ wants = FALSE
  /\ clash = FALSE

-----------------------------------------------------------------------------
(* The process *)

\* An exception nobody catches ends it, whichever thread throws.
Throws ==
  /\ process' = "ended"
  /\ open' = FALSE
  /\ link' = "none"
  /\ dial' = "none"
  /\ loggedIn' = FALSE
  /\ UNCHANGED <<server, pc, wants>>

\* The constructor of the global object connects before anything else runs.
Client ==
  /\ process = "starting"
  /\ server
  /\ process' = "running"
  /\ open' = TRUE
  /\ link' = "up"
  /\ UNCHANGED <<server, dial, pc, loggedIn, wants>>

ClientThrows ==
  /\ process = "starting"
  /\ ~server
  /\ Throws

\* The user opens the app again.
Launch ==
  /\ process = "ended"
  /\ process' = "starting"
  /\ pc' = [t \in Thread |-> IF t = "ui" THEN "test" ELSE "unborn"]
  /\ wants' = FALSE
  /\ UNCHANGED <<server, socketVars>>

-----------------------------------------------------------------------------
(* _connect(), on either thread *)

\* What a thread does after _connect(): viewDidLoad starts the reading thread,
\* the button goes on to login(), the reading thread reads.
Connected(t) ==
  pc' = IF t = "reader"            THEN [pc EXCEPT ![t] = "read"]
        ELSE IF pc["reader"] = "unborn" THEN [ui |-> "idle", reader |-> "read"]
        ELSE [pc EXCEPT ![t] = "login"]

IsConnected(t) ==
  /\ pc[t] = "test"
  /\ open
  /\ Connected(t)
  /\ UNCHANGED <<process, server, socketVars, wants>>

IsNotConnected(t) ==
  /\ pc[t] = "test"
  /\ ~open
  /\ pc' = [pc EXCEPT ![t] = "open"]
  /\ UNCHANGED <<process, server, socketVars, wants>>

\* Mutant: the dial is recorded before the socket is opened.
Opens_late(t) ==
  /\ pc[t] = "open"
  /\ pc' = [pc EXCEPT ![t] = "dial"]
  /\ link' = "none"
  /\ dial' = t
  /\ loggedIn' = FALSE
  /\ UNCHANGED <<process, server, open, wants>>

\* connect(socket, endpoint): close what is there, open a new socket
Opens(t) ==
  /\ pc[t] = "open"
  /\ pc' = [pc EXCEPT ![t] = "dial"]
  /\ open' = TRUE
  /\ link' = "none"
  /\ dial' = t
  /\ loggedIn' = FALSE
  /\ UNCHANGED <<process, server, wants>>

DialSucceeds(t) ==
  /\ pc[t] = "dial"
  /\ dial = t
  /\ server
  /\ link' = "up"
  /\ dial' = "none"
  /\ Connected(t)
  /\ UNCHANGED <<process, server, open, loggedIn, wants>>

DialThrows(t) ==
  /\ pc[t] = "dial"
  /\ dial = t => ~server
  /\ Throws

-----------------------------------------------------------------------------
(* The buttons *)

\* Mutant: login() only after a connection made for it.
connect_onlyOpens ==
  /\ ~Busy
  /\ wants' = TRUE
  /\ pc' = IF open THEN pc ELSE [pc EXCEPT !["ui"] = "test"]
  /\ UNCHANGED <<process, server, socketVars>>

connect ==
  /\ ~Busy
  /\ wants' = TRUE
  /\ pc' = [pc EXCEPT !["ui"] = IF open THEN "login" ELSE "test"]
  /\ UNCHANGED <<process, server, socketVars>>

\* login(): a write that fails is ignored
login ==
  /\ pc["ui"] = "login"
  /\ pc' = [pc EXCEPT !["ui"] = "idle"]
  /\ loggedIn' = (loggedIn \/ link = "up")
  /\ UNCHANGED <<process, server, open, link, dial, wants>>

\* logout(): the message ...
disconnect ==
  /\ ~Busy
  /\ wants' = FALSE
  /\ pc' = [pc EXCEPT !["ui"] = "close"]
  /\ loggedIn' = (loggedIn /\ link # "up")
  /\ UNCHANGED <<process, server, open, link, dial>>

\* ... and socket.close(), which also ends a read() or connect() of the reader
closes ==
  /\ pc["ui"] = "close"
  /\ pc' = [pc EXCEPT !["ui"] = "idle"]
  /\ open' = FALSE
  /\ link' = "none"
  /\ dial' = "none"
  /\ loggedIn' = FALSE
  /\ UNCHANGED <<process, server, wants>>

-----------------------------------------------------------------------------
(* The reading thread *)

\* Mutant: the thread closes a socket it reads nothing from.
ReadsNothing_closes ==
  /\ pc["reader"] = "read"
  /\ link # "up"
  /\ pc' = [pc EXCEPT !["reader"] = "test"]
  /\ open' = FALSE
  /\ link' = "none"
  /\ dial' = "none"
  /\ loggedIn' = FALSE
  /\ UNCHANGED <<process, server, wants>>

\* Mutant: only the end of the stream counts as nothing.
ReadsNothing_onlyEnd ==
  /\ pc["reader"] = "read"
  /\ link = "gone"
  /\ pc' = [pc EXCEPT !["reader"] = "test"]
  /\ UNCHANGED <<process, server, socketVars, wants>>

\* read_some() fails on a socket that is closed, not connected yet, or whose
\* connection the other end closed: handle_read() returns "", and
\* read_incoming_message() calls _connect().
ReadsNothing ==
  /\ pc["reader"] = "read"
  /\ link # "up"
  /\ pc' = [pc EXCEPT !["reader"] = "test"]
  /\ UNCHANGED <<process, server, socketVars, wants>>

-----------------------------------------------------------------------------
(* The server and the network *)

Hangup == link' = IF link = "up" THEN "gone" ELSE link

ServerDies ==
  /\ server
  /\ server' = FALSE
  /\ Hangup
  /\ UNCHANGED <<process, open, dial, pc, loggedIn, wants>>

ServerReturns ==
  /\ ~server
  /\ server' = TRUE
  /\ UNCHANGED <<process, socketVars, pc, wants>>

ServerCloses ==
  /\ server
  /\ link = "up"
  /\ Hangup
  /\ UNCHANGED <<process, server, open, dial, pc, loggedIn, wants>>

-----------------------------------------------------------------------------
ConnectStep(t) ==
  \/ IsConnected(t)
  \/ IsNotConnected(t)
  \/ Opens(t)
  \/ DialSucceeds(t)
  \/ DialThrows(t)

UiStep == ConnectStep("ui") \/ login \/ closes
ReaderStep == ConnectStep("reader") \/ ReadsNothing

\* clash starts anew with every button, and remembers a moment in which the
\* button's handler and a _connect() of the reading thread were both under way.
Watches ==
  clash' = \/ clash /\ ~(~Busy /\ Busy') /\ process' # "starting"
           \/ Busy' /\ Connecting("reader")'

Step ==
  \/ process = "running" /\ (UiStep \/ ReaderStep \/ connect \/ disconnect)
  \/ Client
  \/ ClientThrows
  \/ Launch
  \/ ServerDies
  \/ ServerReturns
  \/ ServerCloses

Next == Step /\ Watches

Spec == Init /\ [][Next]_vars

\* Both threads go on and a connect() returns.  Nothing is assumed of the user,
\* who need not press anything, and of the server.
Fairness ==
  /\ WF_vars(process = "running" /\ UiStep /\ Watches)
  /\ WF_vars(process = "running" /\ ReaderStep /\ Watches)

FairSpec == Spec /\ Fairness
-----------------------------------------------------------------------------
(* Properties *)

\* A user who chose `connect' is logged in on the connection that is up, unless
\* the reading thread was connecting while the button was handled: whatever
\* closed, died or was logged out before, login() went to this connection.
\* (connect: of ViewController.mm, login() and _connect() of GPSChat.cpp)
LoginStands ==
  process = "running" /\ wants /\ ~Busy /\ link = "up" /\ ~clash => loggedIn

\* While the server can be reached, only the two threads in each other's way
\* end the process: no exception reaches the top of a thread that had the
\* socket for itself.
\* (connect() in _connect(), which throws on both threads)
OnlyClashKills ==
  [][process = "running" /\ process' = "ended" /\ server => clash']_vars

\* A socket that is closed does not stay so: the reading thread opens a new one,
\* also after a logout.
\* (read_handler() and read_incoming_message())
ClosedReconnects ==
  process = "running" /\ ~open ~> open \/ process = "ended"

\* An empty message means that the server hung up, and the client has to
\* connect again.
\* (the comment in read_incoming_message())
GoneReconnects ==
  process = "running" /\ link = "gone" ~> link # "gone"
=============================================================================
