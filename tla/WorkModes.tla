----------------------------- MODULE WorkModes ------------------------------
(***************************************************************************)
(* The work modes of the tracker and the one location client they share:   *)
(* ProofWorkModeManager on the UI thread, the checks for wifi on the       *)
(* thread of a scheduled executor, the answer to a request of the server   *)
(* on the thread of the background tasks.  Nothing is synchronized.  A     *)
(* thread holds the calls it still has to make in todo[t], one element per *)
(* access to a shared field.                                               *)
(***************************************************************************)
EXTENDS Naturals, Sequences

CONSTANTS
  Executor,   \* executors that exist at a time, current or cancelled
  MaxWifis,   \* bound on the wifis that one check tries
  MaxTry      \* MAX_TRY_CHECK_COUNT

ASSUME ConstantsAssumption == MaxWifis \in Nat /\ MaxTry \in Nat \ {0}
ASSUME ThreadsAssumption == Executor \cap {"main", "request"} = {}

VARIABLES
  mode,       \* what the user chose last
  client,     \* locationClient and what it was told
  option,     \* locationOption is not null
  listener,   \* whose ProofLocationListener is set
  todo,       \* thread -> what it still has to do
  sched,      \* executor -> whether its check is repeated
  count,      \* the static counter of the checks
  loaded,     \* executor -> its copy of the counter in the middle of count++
  wifiOn,     \* the adapter is enabled
  wifiUp,     \* Global.isWifiConnected
  alive,      \* no exception ended the process
  overlap     \* a thread was in LocationUtil while another one was between
              \* getInstance() and its last use of the client

location == << client, option, listener >>
wifi == << wifiOn, wifiUp >>
counter == << count, loaded >>
vars == << mode, location, todo, sched, counter, wifi, alive, overlap >>

Thread == Executor \cup {"main", "request"}

-----------------------------------------------------------------------------
(* What a thread does in LocationUtil, as sequences of accesses. *)

init == << "initLooks", "initClient", "initOption" >>
onDestroy == << "destroyLooks", "destroyClient", "destroyOption" >>
LocationOption == << "useOption", "listen", "useOption" >>
startLocation == << "setOption", "start" >>
getInstance == init

(* Mutant: the listener is set after the start. *)
GpsMode_startsFirst == getInstance \o LocationOption \o startLocation \o << "gps" >>

\* changeDefalutWordMode, changeWifiWordMode and changeGpsWordMode, after shutdownNow()
DefaultMode == getInstance \o onDestroy \o << "closeWifi" >>
WifiMode == getInstance \o onDestroy \o << "schedule" >>
GpsMode == getInstance \o LocationOption \o << "gps" >> \o startLocation

(* Mutant: no init() after onDestroy(). *)
AnswerRequest_noInit ==
  getInstance \o onDestroy \o LocationOption \o << "request" >> \o startLocation

\* ResponseServerRequestTask.doInBackground
AnswerRequest ==
  getInstance \o onDestroy \o init \o LocationOption \o << "request" >> \o startLocation

\* onLoacationChange of each of the three listeners: upload, then close
Uploads == getInstance \o onDestroy

\* the end of a check that found wifi, and of one that counted to MaxTry
FoundWifi == getInstance \o onDestroy \o << "load", "store" >>
Fallback ==
  getInstance \o << "check" >> \o getInstance \o LocationOption \o getInstance \o startLocation

Kinds == {"gps", "check", "request"}
\* A thread about to do one of these counts on what it found or made before.
Relies ==
  Kinds \cup {"initClient", "initOption", "destroyLooks", "destroyClient", "destroyOption",
             "useOption", "listen", "setOption", "start"}

At(t, op) == alive /\ todo[t] # << >> /\ Head(todo[t]) = op

Skip(t, n) == todo' = [todo EXCEPT ![t] = SubSeq(@, n + 1, Len(@))]

\* A step of t in LocationUtil, after which n accesses are done with.
Access(t, n) ==
  /\ Skip(t, n)
  /\ overlap' = (overlap \/ \E u \in Thread \ {t} : \E op \in Relies : At(u, op))
  /\ UNCHANGED << mode, sched, counter, wifi, alive >>

\* A NullPointerException: the executor drops a check that throws and never runs
\* it again, any other thread takes the process with it.
Throws(t) ==
  /\ todo' = [todo EXCEPT ![t] = << >>]
  /\ IF t \in Executor
       THEN sched' = [sched EXCEPT ![t] = IF @ = "on" THEN "dead" ELSE @] /\ UNCHANGED alive
       ELSE alive' = FALSE /\ UNCHANGED sched
  /\ UNCHANGED << mode, location, counter, wifi, overlap >>

InitLooks(t) ==
  /\ At(t, "initLooks")
  /\ Access(t, IF client = "null" THEN 1 ELSE 3)
  /\ UNCHANGED location

InitClient(t) ==
  /\ At(t, "initClient")
  /\ client' = "made"
  /\ Access(t, 1)
  /\ UNCHANGED << option, listener >>

InitOption(t) ==
  /\ At(t, "initOption")
  /\ option' = TRUE
  /\ Access(t, 1)
  /\ UNCHANGED << client, listener >>

DestroyLooks(t) ==
  /\ At(t, "destroyLooks")
  /\ Access(t, IF client = "null" THEN 3 ELSE 1)
  /\ UNCHANGED location

DestroyClient(t) ==
  /\ At(t, "destroyClient")
  /\ \/ client # "null" /\ client' = "null" /\ Access(t, 1) /\ UNCHANGED << option, listener >>
     \/ client = "null" /\ Throws(t)

DestroyOption(t) ==
  /\ At(t, "destroyOption")
  /\ option' = FALSE
  /\ Access(t, 1)
  /\ UNCHANGED << client, listener >>

UseOption(t) ==
  /\ At(t, "useOption")
  /\ \/ option /\ Access(t, 1) /\ UNCHANGED location
     \/ ~option /\ Throws(t)

\* locationClient.setLocationListener(this): without it positions reach nobody.
Listen(t) ==
  /\ At(t, "listen")
  /\ \/ /\ client # "null"
        /\ client' = IF client \in {"deaf", "started"} THEN "started" ELSE "listening"
        /\ Access(t, 1)
        /\ UNCHANGED << option, listener >>
     \/ client = "null" /\ Throws(t)

SetListener(t) ==
  \E kind \in Kinds :
    /\ At(t, kind)
    /\ listener' = kind
    /\ Access(t, 1)
    /\ UNCHANGED << client, option >>

\* The library refuses a null option.
SetOption(t) ==
  /\ At(t, "setOption")
  /\ \/ client # "null" /\ option /\ Access(t, 1) /\ UNCHANGED location
     \/ (client = "null" \/ ~option) /\ Throws(t)

StartClient(t) ==
  /\ At(t, "start")
  /\ \/ /\ client # "null"
        /\ client' = IF client \in {"listening", "started"} THEN "started" ELSE "deaf"
        /\ Access(t, 1)
        /\ UNCHANGED << option, listener >>
     \/ client = "null" /\ Throws(t)

LocationStep(t) ==
  \/ InitLooks(t) \/ InitClient(t) \/ InitOption(t)
  \/ DestroyLooks(t) \/ DestroyClient(t) \/ DestroyOption(t)
  \/ UseOption(t) \/ Listen(t) \/ SetListener(t) \/ SetOption(t) \/ StartClient(t)

-----------------------------------------------------------------------------
(* The user changes the mode; choosing the present one again changes nothing. *)

(* Mutant: shutdownNow() is forgotten. *)
Shutdown_forgotten == UNCHANGED sched

Shutdown == sched' = [e \in Executor |-> "off"]

Changes(m, program) ==
  /\ alive
  /\ todo["main"] = << >>
  /\ mode # m
  /\ m = "wifi" => \E e \in Executor : todo[e] = << >>   \* the bound on Executor
  /\ mode' = m
  /\ Shutdown
  /\ todo' = [todo EXCEPT !["main"] = program]
  /\ UNCHANGED << location, counter, wifi, alive, overlap >>

ChangeMode ==
  \/ Changes("default", DefaultMode)
  \/ Changes("wifi", WifiMode)
  \/ Changes("gps", GpsMode)

\* newSingleThreadScheduledExecutor(): one whose check has not ended is another one.
Schedule ==
  /\ At("main", "schedule")
  /\ \E e \in Executor :
       /\ todo[e] = << >>
       /\ sched' = [sched EXCEPT ![e] = "on"]
  /\ Skip("main", 1)
  /\ UNCHANGED << mode, location, counter, wifi, alive, overlap >>

CloseWifi ==
  /\ At("main", "closeWifi")
  /\ wifiOn' = FALSE
  /\ Skip("main", 1)
  /\ UNCHANGED << mode, location, sched, counter, wifiUp, alive, overlap >>

-----------------------------------------------------------------------------
(* The check for wifi. *)

CheckStarts(e) == alive /\ sched[e] = "on" /\ todo[e] = << >>

\* If it is open and connected it is time to close it.
CheckCloses(e) ==
  /\ CheckStarts(e)
  /\ wifiUp /\ wifiOn
  /\ wifiOn' = FALSE
  /\ UNCHANGED << mode, location, todo, sched, counter, wifiUp, alive, overlap >>

CheckOpens(e) ==
  /\ CheckStarts(e)
  /\ ~(wifiUp /\ wifiOn)
  /\ wifiOn' = TRUE
  /\ \E n \in 0..MaxWifis :
       todo' = [todo EXCEPT ![e] = [i \in 1..n |-> "try"] \o << "load", "store" >>]
  /\ UNCHANGED << mode, location, sched, counter, wifiUp, alive, overlap >>

(* Mutant: the counter is reset whether or not the wifi connected. *)
Try_resets(e) ==
  /\ At(e, "try")
  /\ count' = 0
  /\ IF wifiUp THEN todo' = [todo EXCEPT ![e] = FoundWifi] ELSE Skip(e, 1)
  /\ UNCHANGED << mode, location, sched, loaded, wifi, alive, overlap >>

\* Three seconds after a network was added, or at once when the sleep is
\* interrupted, which is printed and forgotten.
Try(e) ==
  /\ At(e, "try")
  /\ \/ wifiUp /\ count' = 0 /\ todo' = [todo EXCEPT ![e] = FoundWifi]
     \/ ~wifiUp /\ UNCHANGED count /\ Skip(e, 1)
  /\ UNCHANGED << mode, location, sched, loaded, wifi, alive, overlap >>

Load(e) ==
  /\ At(e, "load")
  /\ loaded' = [loaded EXCEPT ![e] = count]
  /\ Skip(e, 1)
  /\ UNCHANGED << mode, location, sched, count, wifi, alive, overlap >>

\* The counter stops at MaxTry here; the code only asks whether it is less.
Store(e) ==
  /\ At(e, "store")
  /\ count' = IF loaded[e] < MaxTry THEN loaded[e] + 1 ELSE MaxTry
  /\ todo' = [todo EXCEPT ![e] = IF count' >= MaxTry THEN Fallback ELSE << >>]
  /\ loaded' = [loaded EXCEPT ![e] = 0]
  /\ UNCHANGED << mode, location, sched, wifi, alive, overlap >>

CheckStep(e) ==
  CheckCloses(e) \/ CheckOpens(e) \/ Try(e) \/ Load(e) \/ Store(e)

-----------------------------------------------------------------------------
(* The server, the network and the satellites. *)

RequestArrives ==
  /\ alive
  /\ todo["request"] = << >>
  /\ todo' = [todo EXCEPT !["request"] = AnswerRequest]
  /\ UNCHANGED << mode, location, sched, counter, wifi, alive, overlap >>

\* ConnectionChangeReceiver, on the main thread
WifiChanges ==
  /\ alive
  /\ todo["main"] = << >>
  /\ wifiUp \/ wifiOn
  /\ wifiUp' = ~wifiUp
  /\ UNCHANGED << mode, location, todo, sched, counter, wifiOn, alive, overlap >>

\* A position comes in on the main thread; the listener uploads it.
Position ==
  /\ alive
  /\ todo["main"] = << >>
  /\ client = "started"
  /\ listener # "none"
  /\ todo' = [todo EXCEPT !["main"] = Uploads]
  /\ UNCHANGED << mode, location, sched, counter, wifi, alive, overlap >>

\* MainActivity.onCreate
Init ==
  /\ mode = "default"
  /\ client = "null"
  /\ option = FALSE
  /\ listener = "none"
  /\ todo = [t \in Thread |-> IF t = "main" THEN DefaultMode ELSE << >>]
  /\ sched = [e \in Executor |-> "off"]
  /\ count = 0
  /\ loaded = [e \in Executor |-> 0]
  /\ wifiOn \in BOOLEAN
  /\ wifiUp = FALSE
  /\ alive = TRUE
  /\ overlap = FALSE

Next ==
  \/ ChangeMode \/ Schedule \/ CloseWifi
  \/ \E t \in Thread : LocationStep(t)
  \/ \E e \in Executor : CheckStep(e)
  \/ RequestArrives \/ WifiChanges \/ Position

\* Every thread that has work is scheduled and the executor repeats its check;
\* nothing is assumed of the user, the server, the network and the satellites.
Fairness ==
  /\ WF_vars(Schedule) /\ WF_vars(CloseWifi)
  /\ \A t \in Thread : WF_vars(LocationStep(t))
  /\ \A e \in Executor : WF_vars(CheckStep(e))

Spec == Init /\ [][Next]_vars /\ Fairness

-----------------------------------------------------------------------------
(* Properties *)

TypeOK ==
  /\ mode \in {"default", "wifi", "gps"}
  /\ client \in {"null", "made", "listening", "deaf", "started"}
  /\ option \in BOOLEAN
  /\ listener \in {"none"} \cup Kinds
  /\ todo \in [Thread -> Seq(Relies \cup {"initLooks", "schedule", "closeWifi", "try", "load", "store"})]
  /\ sched \in [Executor -> {"off", "on", "dead"}]
  /\ count \in 0..MaxTry
  /\ loaded \in [Executor -> 0..MaxTry]
  /\ wifi \in BOOLEAN \X BOOLEAN
  /\ alive \in BOOLEAN
  /\ overlap \in BOOLEAN

\* Used by one thread at a time, LocationUtil never meets a null client or null
\* options: only an unsynchronized overlap of two threads in it throws.
\* (the order of the calls in the three modes, the check and the request task)
NullNeedsOverlap ==
  ~alive \/ (\E e \in Executor : sched[e] = "dead") => overlap

\* A client that delivers positions delivers them to a listener.
\* (setProofLocationListener comes before startLocation everywhere)
StartedIsHeard == client \in {"started", "deaf"} => listener # "none"

\* Modes do not add up: a check is repeated in wifi mode only, and by one
\* executor, although a mode is left while checks are under way and the main
\* thread schedules only after it has closed the client.
\* (shutdownNow() at the start of the three change...WordMode methods)
OneModeWorks ==
  \A e, f \in Executor :
    sched[e] = "on" => mode = "wifi" /\ (sched[f] = "on" => e = f)

\* While wifi mode lasts and no wifi is found, the checks go on to start the
\* location again and again, unless an exception ended them.
\* (count >= MAX_TRY_CHECK_COUNT at the end of WifiConnectCheckTask.run)
FallbackStarts ==
     <>[](mode = "wifi" /\ ~wifiUp /\ alive /\ \A e \in Executor : sched[e] # "dead")
  => []<>(client \in {"started", "deaf"})

\* In GPS mode the device keeps locating and uploading.
\* (the listener of changeGpsWordMode destroys the client)
GpsModeKeepsLocating ==
  <>[](mode = "gps" /\ alive) => []<>(client = "started")
=============================================================================
