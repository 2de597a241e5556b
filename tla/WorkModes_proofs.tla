-------------------------- MODULE WorkModes_proofs --------------------------
(***************************************************************************)
(* For any number of executors, any number of wifis per check and any      *)
(* number of tries: the state of the work modes has its type, a started    *)
(* client is heard, and an exception needs two threads in LocationUtil.    *)
(*                                                                         *)
(* The argument is about what a thread has still to do.  It is a walk      *)
(* through the graph Follows, so the next access says what the thread has  *)
(* done before (Needs); and a start in it is preceded by a listener.       *)
(***************************************************************************)
EXTENDS WorkModes, SequenceTheorems, TLAPS

Ops == Relies \cup {"initLooks", "schedule", "closeWifi", "try", "load", "store"}

(* Which access can come after which in a program *)
Follows(a, b) ==
  \/ a = "initLooks" /\ b = "initClient"
  \/ a = "initClient" /\ b = "initOption"
  \/ a = "initOption" /\ b \in {"destroyLooks", "useOption", "check", "setOption"}
  \/ a = "destroyLooks" /\ b = "destroyClient"
  \/ a = "destroyClient" /\ b = "destroyOption"
  \/ a = "destroyOption" /\ b \in {"initLooks", "closeWifi", "schedule", "load"}
  \/ a = "useOption" /\ b \in {"listen", "gps", "request", "initLooks"}
  \/ a = "listen" /\ b = "useOption"
  \/ a \in Kinds /\ b \in {"setOption", "initLooks"}
  \/ a = "setOption" /\ b = "start"
  \/ a = "try" /\ b \in {"try", "load"}
  \/ a = "load" /\ b = "store"

(* ... and which can be the last one *)
Last == {"start", "destroyOption", "closeWifi", "schedule", "store"}

(* A part of a program, from a to b *)
Chain(s, a, b) ==
  /\ s \in Seq(Ops)
  /\ Len(s) > 0
  /\ s[1] = a
  /\ s[Len(s)] = b
  /\ \A i \in 1..(Len(s) - 1) : Follows(s[i], s[i + 1])

Program(s) ==
  /\ s \in Seq(Ops)
  /\ s # << >> => s[Len(s)] \in Last
  /\ \A i \in 1..(Len(s) - 1) : Follows(s[i], s[i + 1])

HasKind(s) == \E i \in 1..Len(s) : s[i] \in Kinds

(* Whoever starts the client set a listener before. *)
Ordered(s) ==
  \A i \in 1..Len(s) : s[i] = "start" => \E j \in 1..(i - 1) : s[j] \in Kinds

(* What a thread about to access a field has found or made before *)
Needs(op) ==
  /\ op = "initClient" => client = "null" /\ ~option
  /\ op = "initOption" => client # "null"
  /\ op = "destroyClient" => client # "null"
  /\ op = "destroyOption" => client = "null"
  /\ op \in {"destroyLooks", "useOption", "listen", "setOption", "start"} \cup Kinds =>
       client # "null" /\ option

Inside(t) == todo[t] # << >> /\ Head(todo[t]) \in Relies

Quiet == client # "null" <=> option

(* As long as no two threads met in LocationUtil *)
Calm ==
  ~overlap =>
    /\ alive
    /\ \A e \in Executor : sched[e] # "dead"
    /\ \A t, u \in Thread : Inside(t) /\ Inside(u) => t = u
    /\ \A t \in Thread : Inside(t) => Needs(Head(todo[t]))
    /\ (\A t \in Thread : ~Inside(t)) => Quiet

Walks == todo \in [Thread -> Seq(Ops)] /\ \A t \in Thread : Program(todo[t])

Announced == listener = "none" => \A t \in Thread : Ordered(todo[t])

(* The rest of the types *)
Shape ==
  /\ mode \in {"default", "wifi", "gps"}
  /\ client \in {"null", "made", "listening", "deaf", "started"}
  /\ option \in BOOLEAN
  /\ listener \in {"none"} \cup Kinds
  /\ sched \in [Executor -> {"off", "on", "dead"}]
  /\ count \in 0..MaxTry
  /\ loaded \in [Executor -> 0..MaxTry]
  /\ wifi \in BOOLEAN \X BOOLEAN
  /\ alive \in BOOLEAN
  /\ overlap \in BOOLEAN

IInv == Shape /\ Walks /\ Announced /\ StartedIsHeard /\ Calm

EndsIn(s, op) == s # << >> /\ s[Len(s)] = op

(* While the main thread is still to schedule the check, no other one runs. *)
ModeFits ==
  /\ OneModeWorks
  /\ EndsIn(todo["main"], "schedule") => mode = "wifi" /\ \A e \in Executor : sched[e] # "on"

-----------------------------------------------------------------------------
(* Programs *)

(* Two parts that fit make a part. *)
LEMMA JoinChains ==
  ASSUME NEW s, NEW u, NEW a, NEW b, NEW c, NEW d,
         Chain(s, a, b), Chain(u, c, d), Follows(b, c)
  PROVE  Chain(s \o u, a, d)
<1> DEFINE w == s \o u
<1>1. s \in Seq(Ops) /\ u \in Seq(Ops) /\ Len(s) \in Nat \ {0} /\ Len(u) \in Nat \ {0}
  BY LenProperties DEF Chain
<1>2. /\ w \in Seq(Ops)
      /\ Len(w) = Len(s) + Len(u)
      /\ \A i \in 1..(Len(s) + Len(u)) :
           w[i] = IF i <= Len(s) THEN s[i] ELSE u[i - Len(s)]
  BY <1>1, ConcatProperties
<1> HIDE DEF w
<1>3. w[1] = a /\ w[Len(w)] = d
  BY <1>1, <1>2 DEF Chain
<1>4. ASSUME NEW i \in 1..(Len(w) - 1) PROVE Follows(w[i], w[i + 1])
  <2>1. CASE i < Len(s)
    BY <1>1, <1>2, <2>1 DEF Chain
  <2>2. CASE i = Len(s)
    <3>1. i \in 1..(Len(s) + Len(u)) /\ i + 1 \in 1..(Len(s) + Len(u)) /\ (i + 1) - Len(s) = 1
      BY <1>1, <2>2
    <3>2. w[i] = s[Len(s)] /\ w[i + 1] = u[1]
      BY <1>1, <1>2, <2>2, <3>1
    <3> QED BY <3>2 DEF Chain
  <2>3. CASE i > Len(s)
    <3>1. i - Len(s) \in 1..(Len(u) - 1)
      BY <1>1, <1>2, <2>3
    <3>2. w[i] = u[i - Len(s)] /\ w[i + 1] = u[(i - Len(s)) + 1]
      BY <1>1, <1>2, <2>3
    <3> QED BY <3>1, <3>2 DEF Chain
  <2> QED BY <1>1, <2>1, <2>2, <2>3
<1>5. Chain(w, a, d)
  BY <1>1, <1>2, <1>3, <1>4 DEF Chain
<1> QED BY <1>5 DEF w

(* A listener anywhere in the first part serves the second. *)
LEMMA JoinOrdered ==
  ASSUME NEW s \in Seq(Ops), NEW u \in Seq(Ops), Ordered(s), HasKind(s) \/ Ordered(u)
  PROVE  Ordered(s \o u) /\ (HasKind(s) \/ HasKind(u) => HasKind(s \o u))
<1> DEFINE w == s \o u
<1>1. Len(s) \in Nat /\ Len(u) \in Nat
  BY LenProperties
<1>2. /\ w \in Seq(Ops)
      /\ Len(w) = Len(s) + Len(u)
      /\ \A i \in 1..(Len(s) + Len(u)) :
           w[i] = IF i <= Len(s) THEN s[i] ELSE u[i - Len(s)]
  BY ConcatProperties
<1> HIDE DEF w
<1>3. ASSUME NEW i \in 1..Len(w), w[i] = "start"
      PROVE  \E j \in 1..(i - 1) : w[j] \in Kinds
  <2>1. CASE i <= Len(s)
    <3>1. i \in 1..Len(s) /\ s[i] = "start"
      BY <1>1, <1>2, <1>3, <2>1
    <3>2. PICK j \in 1..(i - 1) : s[j] \in Kinds
      BY <3>1 DEF Ordered
    <3>3. w[j] = s[j]
      BY <1>1, <1>2, <2>1
    <3> QED BY <3>2, <3>3
  <2>2. CASE i > Len(s) /\ HasKind(s)
    <3>1. PICK j \in 1..Len(s) : s[j] \in Kinds
      BY <2>2 DEF HasKind
    <3>2. w[j] = s[j] /\ j \in 1..(i - 1)
      BY <1>1, <1>2, <2>2
    <3> QED BY <3>1, <3>2
  <2>3. CASE i > Len(s) /\ Ordered(u)
    <3>1. i - Len(s) \in 1..Len(u) /\ u[i - Len(s)] = "start"
      BY <1>1, <1>2, <1>3, <2>3
    <3>2. PICK j \in 1..(i - Len(s) - 1) : u[j] \in Kinds
      BY <2>3, <3>1 DEF Ordered
    <3>3. PICK k \in Nat : k = j + Len(s)
      BY <1>1
    <3>4. k \in 1..(i - 1) /\ k > Len(s) /\ k - Len(s) = j
      BY <1>1, <1>2, <2>3, <3>1, <3>3
    <3>5. k \in 1..(Len(s) + Len(u))
      BY <1>1, <1>2, <3>4
    <3>6. w[k] = u[j]
      BY <1>1, <1>2, <3>4, <3>5
    <3> QED BY <3>2, <3>4, <3>6
  <2> QED BY <1>1, <2>1, <2>2, <2>3
<1>4. Ordered(w)
  BY <1>3 DEF Ordered
<1>5. HasKind(s) => HasKind(w)
  <2> SUFFICES ASSUME NEW j \in 1..Len(s), s[j] \in Kinds PROVE HasKind(w)
    BY DEF HasKind
  <2> QED BY <1>1, <1>2 DEF HasKind
<1>6. HasKind(u) => HasKind(w)
  <2> SUFFICES ASSUME NEW j \in 1..Len(u), u[j] \in Kinds PROVE HasKind(w)
    BY DEF HasKind
  <2>1. PICK k \in Nat : k = j + Len(s)
    BY <1>1
  <2>2. k \in 1..Len(w) /\ k > Len(s) /\ k - Len(s) = j
    BY <1>1, <1>2, <2>1
  <2>3. w[k] = u[j]
    BY <1>1, <1>2, <2>2
  <2> QED BY <2>2, <2>3 DEF HasKind
<1> QED BY <1>4, <1>5, <1>6 DEF w

(* Both facts at once, for the programs below *)
Part(s, a, b) == Chain(s, a, b) /\ Ordered(s)

LEMMA Join ==
  ASSUME NEW s, NEW u, NEW a, NEW b, NEW c, NEW d,
         Part(s, a, b), Part(u, c, d), Follows(b, c)
  PROVE  Part(s \o u, a, d) /\ (HasKind(s) \/ HasKind(u) => HasKind(s \o u))
BY JoinChains, JoinOrdered DEF Part, Chain

LEMMA JoinStart ==
  ASSUME NEW s, NEW a, NEW b, Part(s, a, b), HasKind(s), Follows(b, "setOption")
  PROVE  Part(s \o startLocation, a, "start")
<1>1. Chain(startLocation, "setOption", "start")
  BY DEF startLocation, Chain, Follows, Ops, Relies
<1> QED BY <1>1, JoinChains, JoinOrdered DEF Part, Chain

LEMMA Pieces ==
  /\ Part(init, "initLooks", "initOption")
  /\ Part(onDestroy, "destroyLooks", "destroyOption")
  /\ Part(LocationOption, "useOption", "useOption")
  /\ \A k \in Kinds : Part(<< k >>, k, k) /\ HasKind(<< k >>)
  /\ Part(<< "closeWifi" >>, "closeWifi", "closeWifi")
  /\ Part(<< "schedule" >>, "schedule", "schedule")
  /\ Part(<< "load", "store" >>, "load", "store")
<1> USE DEF Part, Chain, Ordered, Follows, Ops, Relies, Kinds
<1>1. Part(init, "initLooks", "initOption")
  BY DEF init
<1>2. Part(onDestroy, "destroyLooks", "destroyOption")
  BY DEF onDestroy
<1>3. Part(LocationOption, "useOption", "useOption")
  BY DEF LocationOption
<1>4. \A k \in Kinds : Part(<< k >>, k, k) /\ HasKind(<< k >>)
  BY DEF HasKind
<1>5. Part(<< "closeWifi" >>, "closeWifi", "closeWifi") /\ Part(<< "schedule" >>, "schedule", "schedule")
  OBVIOUS
<1>6. Part(<< "load", "store" >>, "load", "store")
  OBVIOUS
<1> QED BY <1>1, <1>2, <1>3, <1>4, <1>5, <1>6

(* A whole program, before its first access *)
Entry(s) == Program(s) /\ Ordered(s) /\ s # << >> /\ Head(s) = "initLooks"

LEMMA PartIsEntry ==
  ASSUME NEW s, NEW b, Part(s, "initLooks", b), b \in Last
  PROVE  Entry(s)
BY DEF Part, Chain, Program, Entry

-----------------------------------------------------------------------------
(* The programs of WorkModes *)

LEMMA Closing ==
  /\ Part(getInstance \o onDestroy, "initLooks", "destroyOption")
  /\ Part(DefaultMode, "initLooks", "closeWifi")
  /\ Entry(Uploads)
  /\ Entry(DefaultMode)
  /\ Entry(WifiMode)
  /\ Entry(FoundWifi)
<1>1. Part(getInstance \o onDestroy, "initLooks", "destroyOption")
  BY Pieces, Join DEF getInstance, Follows
<1>2. Part(DefaultMode, "initLooks", "closeWifi")
  BY <1>1, Pieces, Join DEF DefaultMode, Follows
<1>3. Part(WifiMode, "initLooks", "schedule")
  BY <1>1, Pieces, Join DEF WifiMode, Follows
<1>4. Part(FoundWifi, "initLooks", "store")
  BY <1>1, Pieces, Join DEF FoundWifi, Follows
<1> QED BY <1>1, <1>2, <1>3, <1>4, PartIsEntry DEF Uploads, Last

LEMMA Starting ==
  /\ Part(GpsMode, "initLooks", "start")
  /\ Entry(GpsMode)
  /\ Entry(AnswerRequest)
  /\ Entry(Fallback)
<1>1. Part(GpsMode, "initLooks", "start")
  <2>1. Part(getInstance \o LocationOption, "initLooks", "useOption")
    BY Pieces, Join DEF getInstance, Follows
  <2>2. /\ Part(getInstance \o LocationOption \o << "gps" >>, "initLooks", "gps")
        /\ HasKind(getInstance \o LocationOption \o << "gps" >>)
    BY <2>1, Pieces, Join DEF Follows, Kinds
  <2> QED BY <2>2, JoinStart DEF GpsMode, Follows, Kinds
<1>2. Part(AnswerRequest, "initLooks", "start")
  <2>1. Part(getInstance \o onDestroy \o init, "initLooks", "initOption")
    BY Closing, Pieces, Join DEF Follows
  <2>2. Part(getInstance \o onDestroy \o init \o LocationOption, "initLooks", "useOption")
    BY <2>1, Pieces, Join DEF Follows
  <2>3. /\ Part(getInstance \o onDestroy \o init \o LocationOption \o << "request" >>,
                "initLooks", "request")
        /\ HasKind(getInstance \o onDestroy \o init \o LocationOption \o << "request" >>)
    BY <2>2, Pieces, Join DEF Follows, Kinds
  <2> QED BY <2>3, JoinStart DEF AnswerRequest, Follows, Kinds
<1>3. Part(Fallback, "initLooks", "start")
  <2>1. /\ Part(getInstance \o << "check" >>, "initLooks", "check")
        /\ HasKind(getInstance \o << "check" >>)
    BY Pieces, Join DEF getInstance, Follows, Kinds
  <2>2. /\ Part(getInstance \o << "check" >> \o getInstance, "initLooks", "initOption")
        /\ HasKind(getInstance \o << "check" >> \o getInstance)
    BY <2>1, Pieces, Join DEF getInstance, Follows, Kinds
  <2>3. /\ Part(getInstance \o << "check" >> \o getInstance \o LocationOption,
                "initLooks", "useOption")
        /\ HasKind(getInstance \o << "check" >> \o getInstance \o LocationOption)
    BY <2>2, Pieces, Join DEF Follows
  <2>4. /\ Part(getInstance \o << "check" >> \o getInstance \o LocationOption \o getInstance,
                "initLooks", "initOption")
        /\ HasKind(getInstance \o << "check" >> \o getInstance \o LocationOption \o getInstance)
    BY <2>3, Pieces, Join DEF getInstance, Follows
  <2> QED BY <2>4, JoinStart DEF Fallback, Follows
<1> QED BY <1>1, <1>2, <1>3, PartIsEntry DEF Last

LEMMA Trying ==
  ASSUME NEW n \in Nat
  PROVE  LET s == [i \in 1..n |-> "try"] \o << "load", "store" >>
         IN  Program(s) /\ Ordered(s) /\ s # << >> /\ Head(s) \in {"try", "load"}
<1> DEFINE tries == [i \in 1..n |-> "try"]
           s == tries \o << "load", "store" >>
<1>1. tries \in Seq(Ops) /\ Len(tries) = n /\ \A i \in 1..n : tries[i] = "try"
  BY DEF Ops
<1>2. /\ << "load", "store" >> \in Seq(Ops)
      /\ Len(<< "load", "store" >>) = 2
      /\ << "load", "store" >>[1] = "load"
      /\ << "load", "store" >>[2] = "store"
  BY DEF Ops
<1> HIDE DEF tries
<1>3. /\ s \in Seq(Ops)
      /\ Len(s) = n + 2
      /\ \A i \in 1..(n + 2) :
           s[i] = IF i <= n THEN tries[i] ELSE << "load", "store" >>[i - n]
  BY <1>1, <1>2, ConcatProperties
<1> HIDE DEF s
<1>4. \A i \in 1..n : s[i] = "try"
  BY <1>1, <1>3
<1>5. s[n + 1] = "load" /\ s[n + 2] = "store"
  <2>1. n + 1 - n = 1 /\ n + 2 - n = 2 /\ ~(n + 1 <= n) /\ ~(n + 2 <= n)
    OBVIOUS
  <2>2. s[n + 1] = << "load", "store" >>[n + 1 - n] /\ s[n + 2] = << "load", "store" >>[n + 2 - n]
    BY <1>3, <2>1
  <2> QED BY <1>2, <2>1, <2>2
<1>6. \A i \in 1..(Len(s) - 1) : Follows(s[i], s[i + 1])
  <2> SUFFICES ASSUME NEW i \in 1..(n + 1) PROVE Follows(s[i], s[i + 1])
    BY <1>3
  <2>1. i < n \/ i = n \/ i = n + 1
    OBVIOUS
  <2>2. (i <= n => s[i] = "try") /\ (i < n => s[i + 1] = "try")
    BY <1>4
  <2> QED BY <1>5, <2>1, <2>2 DEF Follows
<1>7. Ordered(s)
  <2>1. \A i \in 1..Len(s) : s[i] # "start"
    BY <1>3, <1>4, <1>5
  <2> QED BY <2>1 DEF Ordered
<1>8. Head(s) = s[1] /\ s # << >>
  BY <1>3
<1>9. s[1] \in {"try", "load"}
  BY <1>4, <1>5
<1>10. Program(s)
  BY <1>3, <1>5, <1>6 DEF Program, Last
<1> QED BY <1>7, <1>8, <1>9, <1>10 DEF s, tries

(* What is left of a program after its first n accesses *)
LEMMA Suffix ==
  ASSUME NEW s, Program(s), NEW n \in 1..Len(s)
  PROVE  LET u == SubSeq(s, n + 1, Len(s))
         IN  /\ Program(u)
             /\ u = << >> => s[n] \in Last
             /\ u # << >> => Follows(s[n], Head(u))
             /\ Ordered(s) /\ (\A i \in 1..n : s[i] \notin Kinds) => Ordered(u)
<1> DEFINE u == SubSeq(s, n + 1, Len(s))
<1>1. s \in Seq(Ops) /\ Len(s) \in Nat /\ s # << >>
  BY LenProperties, EmptySeq DEF Program
<1>2. /\ u \in Seq(Ops)
      /\ Len(u) = Len(s) - n
      /\ \A i \in 1..(Len(s) - n) : u[i] = s[n + i]
  <2>1. \A i \in (n + 1)..Len(s) : s[i] \in Ops
    BY <1>1, ElementOfSeq
  <2> QED BY <1>1, <2>1, SubSeqProperties
<1> HIDE DEF u
<1>3. u # << >> <=> n < Len(s)
  BY <1>1, <1>2, EmptySeq
<1>4. u = << >> => s[n] \in Last
  BY <1>1, <1>3 DEF Program
<1>5. u # << >> => Follows(s[n], Head(u))
  <2> SUFFICES ASSUME u # << >> PROVE Follows(s[n], Head(u))
    OBVIOUS
  <2>1. Head(u) = u[1] /\ u[1] = s[n + 1] /\ n \in 1..(Len(s) - 1)
    BY <1>1, <1>2, <1>3
  <2> QED BY <2>1 DEF Program
<1>6. Program(u)
  <2>1. u # << >> => u[Len(u)] \in Last
    <3>1. u # << >> => u[Len(u)] = s[Len(s)]
      BY <1>1, <1>2, <1>3
    <3> QED BY <1>1, <3>1 DEF Program
  <2>2. ASSUME NEW i \in 1..(Len(u) - 1) PROVE Follows(u[i], u[i + 1])
    <3>1. i \in 1..(Len(s) - n) /\ i + 1 \in 1..(Len(s) - n)
      BY <1>1, <1>2
    <3>2. PICK k \in Nat : k = n + i
      OBVIOUS
    <3>3. k \in 1..(Len(s) - 1) /\ k + 1 = n + (i + 1)
      BY <1>1, <3>1, <3>2
    <3>4. u[i] = s[k] /\ u[i + 1] = s[k + 1]
      BY <1>2, <3>1, <3>2, <3>3
    <3> QED BY <3>3, <3>4 DEF Program
  <2> QED BY <1>2, <2>1, <2>2 DEF Program
<1>7. ASSUME Ordered(s), \A i \in 1..n : s[i] \notin Kinds PROVE Ordered(u)
  <2> SUFFICES ASSUME NEW i \in 1..Len(u), u[i] = "start"
               PROVE  \E j \in 1..(i - 1) : u[j] \in Kinds
    BY DEF Ordered
  <2>1. n + i \in 1..Len(s) /\ s[n + i] = "start"
    BY <1>1, <1>2
  <2>2. PICK k \in 1..(n + i - 1) : s[k] \in Kinds
    BY <1>7, <2>1 DEF Ordered
  <2>3. k > n
    BY <1>7, <2>2
  <2>4. PICK j \in Int : j = k - n
    BY <2>2
  <2>5. j \in 1..(i - 1) /\ j \in 1..(Len(s) - n) /\ n + j = k
    BY <1>1, <1>2, <2>2, <2>3, <2>4
  <2> QED BY <1>2, <2>2, <2>5
<1> QED BY <1>4, <1>5, <1>6, <1>7 DEF u

-----------------------------------------------------------------------------
(* Steps *)

(* What a step of t that uses up n elements leaves of the programs *)
LEMMA SkipKeeps ==
  ASSUME Walks, NEW t \in Thread, NEW n \in 1..Len(todo[t]), Skip(t, n)
  PROVE  /\ Walks'
         /\ \A v \in Thread \ {t} : todo'[v] = todo[v]
         /\ todo'[t] = << >> => todo[t][n] \in Last
         /\ todo'[t] # << >> => Follows(todo[t][n], Head(todo'[t]))
         /\ Announced /\ (\A i \in 1..n : todo[t][i] \notin Kinds) =>
              (listener = "none" => \A v \in Thread : Ordered(todo'[v]))
<1> DEFINE u == SubSeq(todo[t], n + 1, Len(todo[t]))
<1>1. /\ Program(u)
      /\ u = << >> => todo[t][n] \in Last
      /\ u # << >> => Follows(todo[t][n], Head(u))
      /\ Ordered(todo[t]) /\ (\A i \in 1..n : todo[t][i] \notin Kinds) => Ordered(u)
  BY Suffix DEF Walks
<1>2. todo' = [todo EXCEPT ![t] = u]
  BY DEF Skip
<1> HIDE DEF u
<1>3. todo'[t] = u /\ \A v \in Thread \ {t} : todo'[v] = todo[v]
  BY <1>2 DEF Walks
<1>4. Walks'
  BY <1>1, <1>2, <1>3 DEF Walks, Program
<1> QED BY <1>1, <1>3, <1>4 DEF Announced

(* The first elements of a program that looks at the client *)
LEMMA LooksHead ==
  ASSUME NEW s, Program(s), s # << >>
  PROVE  /\ Head(s) = s[1] /\ 1 \in 1..Len(s)
         /\ s[1] = "initLooks" =>
              3 \in 1..Len(s) /\ s[2] = "initClient" /\ s[3] = "initOption"
         /\ s[1] = "destroyLooks" =>
              3 \in 1..Len(s) /\ s[2] = "destroyClient" /\ s[3] = "destroyOption"
<1>1. s \in Seq(Ops) /\ Len(s) \in Nat /\ Len(s) # 0 /\ Head(s) = s[1]
  BY LenProperties, EmptySeq DEF Program
<1>2. PICK k \in Nat : k = Len(s)
  BY <1>1
<1>3. /\ k # 0 /\ s[k] \in Last
      /\ \A i \in 1..(k - 1) : Follows(s[i], s[i + 1])
  BY <1>1, <1>2 DEF Program
<1>4. ASSUME s[1] \in {"initLooks", "destroyLooks"} PROVE k > 1 /\ Follows(s[1], s[2])
  <2>1. k # 1
    BY <1>3, <1>4 DEF Last
  <2>2. k > 1
    BY <1>3, <2>1
  <2>3. Follows(s[1], s[1 + 1])
    BY <1>3, <2>2
  <2> QED BY <2>2, <2>3
<1>5. ASSUME s[1] \in {"initLooks", "destroyLooks"} PROVE k > 2 /\ Follows(s[2], s[3])
  <2>1. s[2] \in {"initClient", "destroyClient"}
    BY <1>4, <1>5 DEF Follows, Kinds
  <2>2. k # 2
    BY <1>3, <2>1 DEF Last
  <2>3. k > 2
    BY <1>4, <1>5, <2>2
  <2>4. Follows(s[2], s[2 + 1])
    BY <1>3, <2>3
  <2> QED BY <2>3, <2>4
<1>6. s[1] = "initLooks" => s[2] = "initClient" /\ s[3] = "initOption"
  BY <1>4, <1>5 DEF Follows, Kinds
<1>7. s[1] = "destroyLooks" => s[2] = "destroyClient" /\ s[3] = "destroyOption"
  BY <1>4, <1>5 DEF Follows, Kinds
<1>8. k > 2 => 3 \in 1..Len(s)
  BY <1>2
<1>9. 1 \in 1..Len(s)
  BY <1>2, <1>3
<1> QED BY <1>1, <1>4, <1>5, <1>6, <1>7, <1>8, <1>9

(* What t finds, if nobody else is inside *)
Alone(t) == ~overlap /\ \A u \in Thread \ {t} : ~Inside(u)
Finds(t) == IF Inside(t) THEN Needs(Head(todo[t])) ELSE Quiet

LEMMA AloneFinds ==
  ASSUME Calm, NEW t \in Thread, Alone(t)
  PROVE  Finds(t)
BY DEF Calm, Alone, Finds

(* An access keeps the invariant if it leaves t what t needs next. *)
LEMMA AccessKeeps ==
  ASSUME IInv, NEW t \in Thread, NEW n \in 1..Len(todo[t]), alive, Access(t, n),
         \/ listener' = listener /\ (\A i \in 1..n : todo[t][i] \notin Kinds)
         \/ listener' \in Kinds,
         client' \in {"null", "made", "listening", "deaf", "started"},
         option' \in BOOLEAN,
         StartedIsHeard',
         Alone(t) => Finds(t)'
  PROVE  IInv'
<1>1. /\ Walks'
      /\ \A v \in Thread \ {t} : todo'[v] = todo[v]
      /\ Announced /\ (\A i \in 1..n : todo[t][i] \notin Kinds) =>
           (listener = "none" => \A v \in Thread : Ordered(todo'[v]))
  BY SkipKeeps DEF IInv, Access
<1>2. Announced'
  BY <1>1 DEF IInv, Announced, Kinds
<1>3. Shape'
  BY DEF IInv, Shape, Access, counter, wifi
<1>4. Calm'
  <2> SUFFICES ASSUME ~overlap' PROVE Calm'
    BY DEF Calm
  <2>1. ~overlap /\ ~ \E u \in Thread \ {t} : \E op \in Relies : At(u, op)
    BY DEF Access
  <2>2. \A u \in Thread \ {t} : ~Inside(u)
    BY <2>1 DEF At, Inside
  <2>3. Finds(t)'
    BY <2>1, <2>2 DEF Alone
  <2>4. \A u \in Thread \ {t} : ~Inside(u)'
    BY <1>1, <2>2 DEF Inside
  <2>5. alive' /\ \A e \in Executor : sched'[e] # "dead"
    BY <2>1 DEF IInv, Calm, Access
  <2> QED BY <2>3, <2>4, <2>5 DEF Calm, Finds
<1> QED BY <1>1, <1>2, <1>3, <1>4 DEF IInv

(* An exception keeps it, since it needs the overlap. *)
LEMMA ThrowKeeps ==
  ASSUME IInv, NEW t \in Thread, Throws(t), overlap
  PROVE  IInv'
<1>1. Program(<< >>) /\ Ordered(<< >>)
  BY EmptySeq DEF Program, Ordered
<1>2. /\ todo' = [todo EXCEPT ![t] = << >>]
      /\ \A v \in Thread : todo'[v] = IF v = t THEN << >> ELSE todo[v]
  BY DEF Throws, IInv, Walks
<1>3. Walks'
  BY <1>1, <1>2 DEF IInv, Walks, Program
<1>4. Announced'
  BY <1>1, <1>2 DEF IInv, Announced, Throws, location
<1>5. Shape' /\ StartedIsHeard'
  <2>1. sched' \in [Executor -> {"off", "on", "dead"}] /\ alive' \in BOOLEAN
    BY DEF IInv, Shape, Throws
  <2> QED BY <2>1 DEF IInv, Shape, StartedIsHeard, Throws, location, counter, wifi
<1>6. Calm'
  BY DEF Calm, Throws
<1> QED BY <1>3, <1>4, <1>5, <1>6 DEF IInv

(* A step of t outside LocationUtil that gives it the program p *)
LEMMA OutsideKeeps ==
  ASSUME IInv, NEW t \in Thread, NEW p, todo' = [todo EXCEPT ![t] = p],
         Program(p), listener = "none" => Ordered(p),
         ~Inside(t), p = << >> \/ Head(p) \notin Relies,
         UNCHANGED << location, alive, overlap >>,
         \A e \in Executor : sched'[e] # "dead" \/ sched'[e] = sched[e],
         Shape'
  PROVE  IInv'
<1>1. \A v \in Thread : todo'[v] = IF v = t THEN p ELSE todo[v]
  BY DEF IInv, Walks
<1>2. Walks'
  BY <1>1 DEF IInv, Walks, Program
<1>3. Announced'
  BY <1>1 DEF IInv, Announced, location
<1>4. StartedIsHeard'
  BY DEF IInv, StartedIsHeard, location
<1>5. \A v \in Thread : Inside(v)' = Inside(v) /\ (Inside(v) => todo'[v] = todo[v])
  BY <1>1 DEF Inside
<1>6. Calm'
  <2> SUFFICES ASSUME ~overlap' PROVE Calm'
    BY DEF Calm
  <2>1. ~overlap /\ alive' = alive /\ client' = client /\ option' = option
    BY DEF location
  <2>2. /\ alive
        /\ \A e \in Executor : sched[e] # "dead"
        /\ \A v, u \in Thread : Inside(v) /\ Inside(u) => v = u
        /\ \A v \in Thread : Inside(v) => Needs(Head(todo[v]))
        /\ (\A v \in Thread : ~Inside(v)) => Quiet
    BY <2>1 DEF IInv, Calm
  <2>3. \A v \in Thread : Inside(v)' => Needs(Head(todo[v]))'
    BY <1>5, <2>1, <2>2 DEF Needs
  <2>4. (\A v \in Thread : ~Inside(v)') => Quiet'
    BY <1>5, <2>1, <2>2 DEF Quiet
  <2>5. \A v, u \in Thread : Inside(v)' /\ Inside(u)' => v = u
    BY <1>5, <2>2
  <2>6. alive' /\ \A e \in Executor : sched'[e] # "dead"
    BY <2>1, <2>2
  <2> QED BY <2>3, <2>4, <2>5, <2>6 DEF Calm
<1> QED BY <1>2, <1>3, <1>4, <1>6 DEF IInv

(* t is about to do op. *)
LEMMA AtFacts ==
  ASSUME IInv, NEW t \in Thread, NEW op, At(t, op)
  PROVE  /\ alive /\ todo[t] # << >> /\ todo[t][1] = op /\ Head(todo[t]) = op
         /\ 1 \in 1..Len(todo[t])
         /\ op = "initLooks" =>
              3 \in 1..Len(todo[t]) /\ todo[t][2] = "initClient" /\ todo[t][3] = "initOption"
         /\ op = "destroyLooks" =>
              3 \in 1..Len(todo[t]) /\ todo[t][2] = "destroyClient" /\ todo[t][3] = "destroyOption"
         /\ Alone(t) => IF op \in Relies THEN Needs(op) ELSE Quiet
<1>1. todo[t] # << >> /\ Head(todo[t]) = op /\ alive
  BY DEF At
<1>2. Program(todo[t])
  BY DEF IInv, Walks
<1>3. Alone(t) => IF op \in Relies THEN Needs(op) ELSE Quiet
  BY <1>1, AloneFinds DEF IInv, Finds, Inside
<1> QED BY <1>1, <1>2, <1>3, LooksHead

(* After n accesses, the last of which was op, comes one that follows op. *)
LEMMA NextFacts ==
  ASSUME IInv, NEW t \in Thread, NEW n \in 1..Len(todo[t]), Access(t, n)
  PROVE  IF Inside(t)' THEN Follows(todo[t][n], Head(todo'[t]))
                       ELSE \/ todo[t][n] \in Last
                            \/ \E op \in Ops \ Relies : Follows(todo[t][n], op)
<1>1. /\ Walks'
      /\ todo'[t] = << >> => todo[t][n] \in Last
      /\ todo'[t] # << >> => Follows(todo[t][n], Head(todo'[t]))
  BY SkipKeeps DEF IInv, Access
<1>2. todo'[t] # << >> => Head(todo'[t]) \in Ops
  <2>1. todo'[t] \in Seq(Ops)
    BY <1>1 DEF Walks
  <2> QED BY <2>1, EmptySeq, ElementOfSeq
<1> QED BY <1>1, <1>2 DEF Inside

(* One lemma for the accesses of one element that cannot throw *)
LEMMA AccessOne ==
  ASSUME IInv, NEW t \in Thread, NEW op \in Relies, At(t, op), Access(t, 1),
         op \notin Kinds => listener' = listener,
         op \in Kinds => listener' = op,
         client' \in {"null", "made", "listening", "deaf", "started"},
         option' \in BOOLEAN,
         StartedIsHeard',
         NEW next \in SUBSET Ops, \A b \in Ops : Follows(op, b) => b \in next,
         Needs(op) => \A b \in next \cap Relies : Needs(b)',
         Needs(op) /\ (op \in Last \/ next \ Relies # {}) => Quiet'
  PROVE  IInv'
<1>1. /\ alive /\ todo[t][1] = op /\ 1 \in 1..Len(todo[t])
      /\ Alone(t) => Needs(op)
  BY AtFacts
<1>2. IF Inside(t)' THEN Follows(op, Head(todo'[t]))
                    ELSE op \in Last \/ \E b \in Ops \ Relies : Follows(op, b)
  BY <1>1, NextFacts
<1>3. Inside(t)' => Head(todo'[t]) \in Relies /\ Head(todo'[t]) \in Ops
  BY DEF Inside, Ops
<1>4. Alone(t) => Finds(t)'
  BY <1>1, <1>2, <1>3 DEF Finds
<1>5. \A i \in 1..1 : todo[t][i] = op
  BY <1>1
<1> QED BY <1>1, <1>4, <1>5, AccessKeeps DEF Kinds

(* If the program holds what op needs, an exception at op needs the overlap. *)
LEMMA ThrowNeedsOverlap ==
  ASSUME IInv, NEW t \in Thread, NEW op \in Relies, At(t, op), ~Needs(op)
  PROVE  overlap
<1> SUFFICES ASSUME ~overlap PROVE FALSE
  BY DEF IInv, Shape
<1>1. Inside(t) /\ Head(todo[t]) = op
  BY DEF At, Inside
<1>2. Needs(op)
  BY <1>1 DEF IInv, Calm
<1> QED BY <1>2

(* Every access of LocationUtil keeps the invariant. *)
LEMMA LocationKeeps ==
  ASSUME IInv, NEW t \in Thread, LocationStep(t)
  PROVE  IInv'
<1>1. CASE InitClient(t)
  <2> DEFINE next == {"initOption"}
  <2>1. At(t, "initClient")
    BY <1>1 DEF InitClient
  <2>0. "initClient" \in Relies /\ "initClient" \notin Kinds
    BY DEF Relies, Kinds
  <2>2. next \in SUBSET Ops /\ \A b \in Ops : Follows("initClient", b) => b \in next
    BY DEF Follows, Ops, Relies, Kinds
  <2>3. /\ Access(t, 1) /\ listener' = listener
        /\ client' \in {"null", "made", "listening", "deaf", "started"} /\ option' \in BOOLEAN
        /\ StartedIsHeard'
        /\ Needs("initClient") => \A b \in next \cap Relies : Needs(b)'
        /\ Needs("initClient") /\ ("initClient" \in Last \/ next \ Relies # {}) => Quiet'
    BY <1>1, <2>1 DEF InitClient, location, Needs, Quiet, Relies, Kinds, Last, StartedIsHeard, IInv, Shape
  <2> HIDE DEF next
  <2> QED BY <2>1, <2>2, <2>3, <2>0, AccessOne
<1>2. CASE InitOption(t)
  <2> DEFINE next == {"destroyLooks", "useOption", "check", "setOption"}
  <2>1. At(t, "initOption")
    BY <1>2 DEF InitOption
  <2>0. "initOption" \in Relies /\ "initOption" \notin Kinds
    BY DEF Relies, Kinds
  <2>2. next \in SUBSET Ops /\ \A b \in Ops : Follows("initOption", b) => b \in next
    BY DEF Follows, Ops, Relies, Kinds
  <2>3. /\ Access(t, 1) /\ listener' = listener
        /\ client' \in {"null", "made", "listening", "deaf", "started"} /\ option' \in BOOLEAN
        /\ StartedIsHeard'
        /\ Needs("initOption") => \A b \in next \cap Relies : Needs(b)'
        /\ Needs("initOption") /\ ("initOption" \in Last \/ next \ Relies # {}) => Quiet'
    BY <1>2, <2>1 DEF InitOption, location, Needs, Quiet, Relies, Kinds, Last, StartedIsHeard, IInv, Shape
  <2> HIDE DEF next
  <2> QED BY <2>1, <2>2, <2>3, <2>0, AccessOne
<1>3. CASE DestroyClient(t)
  <2> DEFINE next == {"destroyOption"}
  <2>1. At(t, "destroyClient")
    BY <1>3 DEF DestroyClient
  <2>0. "destroyClient" \in Relies /\ "destroyClient" \notin Kinds
    BY DEF Relies, Kinds
  <2>2. next \in SUBSET Ops /\ \A b \in Ops : Follows("destroyClient", b) => b \in next
    BY DEF Follows, Ops, Relies, Kinds
  <2>3. CASE client # "null"
    <3>1. /\ Access(t, 1) /\ listener' = listener
          /\ client' \in {"null", "made", "listening", "deaf", "started"} /\ option' \in BOOLEAN
          /\ StartedIsHeard'
          /\ Needs("destroyClient") => \A b \in next \cap Relies : Needs(b)'
          /\ Needs("destroyClient") /\ ("destroyClient" \in Last \/ next \ Relies # {}) => Quiet'
      BY <1>3, <2>1, <2>3 DEF DestroyClient, location, Needs, Quiet, Relies, Kinds, Last, StartedIsHeard, IInv, Shape
    <3> HIDE DEF next
    <3> QED BY <2>1, <2>2, <2>0, <3>1, AccessOne
  <2>4. CASE ~(client # "null")
    <3>1. Throws(t) /\ ~Needs("destroyClient")
      BY <1>3, <2>4 DEF DestroyClient, Needs
    <3>2. overlap
      BY <2>1, <3>1, ThrowNeedsOverlap DEF Relies
    <3> QED BY <3>1, <3>2, ThrowKeeps
  <2> QED BY <2>3, <2>4
<1>4. CASE DestroyOption(t)
  <2> DEFINE next == {"initLooks", "closeWifi", "schedule", "load"}
  <2>1. At(t, "destroyOption")
    BY <1>4 DEF DestroyOption
  <2>0. "destroyOption" \in Relies /\ "destroyOption" \notin Kinds
    BY DEF Relies, Kinds
  <2>2. next \in SUBSET Ops /\ \A b \in Ops : Follows("destroyOption", b) => b \in next
    BY DEF Follows, Ops, Relies, Kinds
  <2>3. /\ Access(t, 1) /\ listener' = listener
        /\ client' \in {"null", "made", "listening", "deaf", "started"} /\ option' \in BOOLEAN
        /\ StartedIsHeard'
        /\ Needs("destroyOption") => \A b \in next \cap Relies : Needs(b)'
        /\ Needs("destroyOption") /\ ("destroyOption" \in Last \/ next \ Relies # {}) => Quiet'
    BY <1>4, <2>1 DEF DestroyOption, location, Needs, Quiet, Relies, Kinds, Last, StartedIsHeard, IInv, Shape
  <2> HIDE DEF next
  <2> QED BY <2>1, <2>2, <2>3, <2>0, AccessOne
<1>5. CASE UseOption(t)
  <2> DEFINE next == {"listen", "gps", "request", "initLooks"}
  <2>1. At(t, "useOption")
    BY <1>5 DEF UseOption
  <2>0. "useOption" \in Relies /\ "useOption" \notin Kinds
    BY DEF Relies, Kinds
  <2>2. next \in SUBSET Ops /\ \A b \in Ops : Follows("useOption", b) => b \in next
    BY DEF Follows, Ops, Relies, Kinds
  <2>3. CASE option
    <3>1. /\ Access(t, 1) /\ listener' = listener
          /\ client' \in {"null", "made", "listening", "deaf", "started"} /\ option' \in BOOLEAN
          /\ StartedIsHeard'
          /\ Needs("useOption") => \A b \in next \cap Relies : Needs(b)'
          /\ Needs("useOption") /\ ("useOption" \in Last \/ next \ Relies # {}) => Quiet'
      BY <1>5, <2>1, <2>3 DEF UseOption, location, Needs, Quiet, Relies, Kinds, Last, StartedIsHeard, IInv, Shape
    <3> HIDE DEF next
    <3> QED BY <2>1, <2>2, <2>0, <3>1, AccessOne
  <2>4. CASE ~(option)
    <3>1. Throws(t) /\ ~Needs("useOption")
      BY <1>5, <2>4 DEF UseOption, Needs
    <3>2. overlap
      BY <2>1, <3>1, ThrowNeedsOverlap DEF Relies
    <3> QED BY <3>1, <3>2, ThrowKeeps
  <2> QED BY <2>3, <2>4
<1>6. CASE Listen(t)
  <2> DEFINE next == {"useOption"}
  <2>1. At(t, "listen")
    BY <1>6 DEF Listen
  <2>0. "listen" \in Relies /\ "listen" \notin Kinds
    BY DEF Relies, Kinds
  <2>2. next \in SUBSET Ops /\ \A b \in Ops : Follows("listen", b) => b \in next
    BY DEF Follows, Ops, Relies, Kinds
  <2>3. CASE client # "null"
    <3>1. /\ Access(t, 1) /\ listener' = listener
          /\ client' \in {"null", "made", "listening", "deaf", "started"} /\ option' \in BOOLEAN
          /\ StartedIsHeard'
          /\ Needs("listen") => \A b \in next \cap Relies : Needs(b)'
          /\ Needs("listen") /\ ("listen" \in Last \/ next \ Relies # {}) => Quiet'
      BY <1>6, <2>1, <2>3 DEF Listen, location, Needs, Quiet, Relies, Kinds, Last, StartedIsHeard, IInv, Shape
    <3> HIDE DEF next
    <3> QED BY <2>1, <2>2, <2>0, <3>1, AccessOne
  <2>4. CASE ~(client # "null")
    <3>1. Throws(t) /\ ~Needs("listen")
      BY <1>6, <2>4 DEF Listen, Needs
    <3>2. overlap
      BY <2>1, <3>1, ThrowNeedsOverlap DEF Relies
    <3> QED BY <3>1, <3>2, ThrowKeeps
  <2> QED BY <2>3, <2>4
<1>7. CASE SetOption(t)
  <2> DEFINE next == {"start"}
  <2>1. At(t, "setOption")
    BY <1>7 DEF SetOption
  <2>0. "setOption" \in Relies /\ "setOption" \notin Kinds
    BY DEF Relies, Kinds
  <2>2. next \in SUBSET Ops /\ \A b \in Ops : Follows("setOption", b) => b \in next
    BY DEF Follows, Ops, Relies, Kinds
  <2>3. CASE client # "null" /\ option
    <3>1. /\ Access(t, 1) /\ listener' = listener
          /\ client' \in {"null", "made", "listening", "deaf", "started"} /\ option' \in BOOLEAN
          /\ StartedIsHeard'
          /\ Needs("setOption") => \A b \in next \cap Relies : Needs(b)'
          /\ Needs("setOption") /\ ("setOption" \in Last \/ next \ Relies # {}) => Quiet'
      BY <1>7, <2>1, <2>3 DEF SetOption, location, Needs, Quiet, Relies, Kinds, Last, StartedIsHeard, IInv, Shape
    <3> HIDE DEF next
    <3> QED BY <2>1, <2>2, <2>0, <3>1, AccessOne
  <2>4. CASE ~(client # "null" /\ option)
    <3>1. Throws(t) /\ ~Needs("setOption")
      BY <1>7, <2>4 DEF SetOption, Needs
    <3>2. overlap
      BY <2>1, <3>1, ThrowNeedsOverlap DEF Relies
    <3> QED BY <3>1, <3>2, ThrowKeeps
  <2> QED BY <2>3, <2>4
<1>8. CASE StartClient(t)
  <2> DEFINE next == {}
  <2>1. At(t, "start")
    BY <1>8 DEF StartClient
  <2>0. "start" \in Relies /\ "start" \notin Kinds
    BY DEF Relies, Kinds
  <2>2. next \in SUBSET Ops /\ \A b \in Ops : Follows("start", b) => b \in next
    BY DEF Follows, Ops, Relies, Kinds
  <2>3. CASE client # "null"
    <3>1. listener # "none"
      <4>1. todo[t][1] = "start" /\ 1 \in 1..Len(todo[t])
        BY <2>1, AtFacts
      <4>2. ~Ordered(todo[t])
        BY <4>1 DEF Ordered
      <4> QED BY <4>2 DEF IInv, Announced
    <3>2. /\ Access(t, 1) /\ listener' = listener
          /\ client' \in {"null", "made", "listening", "deaf", "started"} /\ option' \in BOOLEAN
          /\ StartedIsHeard'
          /\ Needs("start") => Quiet'
      BY <1>8, <2>1, <2>3, <3>1 DEF StartClient, Needs, Quiet, StartedIsHeard, IInv, Shape
    <3> QED BY <2>1, <2>2, <3>2, AccessOne DEF Relies, Kinds
  <2>4. CASE client = "null"
    <3>1. Throws(t) /\ ~Needs("start")
      BY <1>8, <2>4 DEF StartClient, Needs
    <3>2. overlap
      BY <2>1, <3>1, ThrowNeedsOverlap DEF Relies
    <3> QED BY <3>1, <3>2, ThrowKeeps
  <2> QED BY <2>3, <2>4
<1>9. CASE SetListener(t)
  <2> DEFINE next == {"setOption", "initLooks"}
  <2>1. PICK kind \in Kinds : At(t, kind) /\ listener' = kind /\ Access(t, 1) /\ UNCHANGED << client, option >>
    BY <1>9 DEF SetListener
  <2>2. next \in SUBSET Ops /\ \A b \in Ops : Follows(kind, b) => b \in next
    BY DEF Follows, Ops, Relies, Kinds
  <2>3. /\ client' \in {"null", "made", "listening", "deaf", "started"} /\ option' \in BOOLEAN
        /\ StartedIsHeard'
    BY <2>1 DEF StartedIsHeard, IInv, Shape, Kinds
  <2>4. Needs(kind) => /\ \A b \in next \cap Relies : Needs(b)'
                       /\ Quiet'
    BY <2>1 DEF Needs, Quiet, Relies, Kinds
  <2> HIDE DEF next
  <2> QED BY <2>1, <2>2, <2>3, <2>4, AccessOne DEF Relies
<1>10. CASE InitLooks(t)
  <2>1. /\ alive /\ todo[t][1] = "initLooks" /\ 1 \in 1..Len(todo[t]) /\ 3 \in 1..Len(todo[t])
        /\ todo[t][2] = "initClient" /\ todo[t][3] = "initOption"
        /\ Alone(t) => Quiet
    BY <1>10, AtFacts DEF InitLooks, Relies, Kinds
  <2>2. /\ UNCHANGED location /\ StartedIsHeard'
        /\ client' \in {"null", "made", "listening", "deaf", "started"} /\ option' \in BOOLEAN
    BY <1>10 DEF InitLooks, location, IInv, Shape, StartedIsHeard
  <2>3. CASE client = "null"
    <3>1. Access(t, 1)
      BY <1>10, <2>3 DEF InitLooks
    <3>2. IF Inside(t)' THEN Follows("initLooks", Head(todo'[t]))
                        ELSE \/ "initLooks" \in Last
                             \/ \E op \in Ops \ Relies : Follows("initLooks", op)
      BY <2>1, <3>1, NextFacts
    <3>3. Inside(t)' /\ Head(todo'[t]) = "initClient"
      BY <3>2 DEF Follows, Last, Kinds, Relies
    <3>4. Alone(t) => Needs("initClient")'
      BY <2>1, <2>2, <2>3 DEF Needs, Quiet, location, Kinds
    <3>5. \A i \in 1..1 : todo[t][i] \notin Kinds
      BY <2>1 DEF Kinds
    <3>6. Alone(t) => Finds(t)'
      BY <3>3, <3>4 DEF Finds
    <3> QED BY <2>1, <2>2, <3>1, <3>5, <3>6, AccessKeeps DEF location
  <2>4. CASE client # "null"
    <3>1. Access(t, 3)
      BY <1>10, <2>4 DEF InitLooks
    <3>2. IF Inside(t)' THEN Follows("initOption", Head(todo'[t]))
                        ELSE \/ "initOption" \in Last
                             \/ \E op \in Ops \ Relies : Follows("initOption", op)
      BY <2>1, <3>1, NextFacts
    <3>3. Inside(t)' /\ Head(todo'[t]) \in {"destroyLooks", "useOption", "check", "setOption"}
      BY <3>2 DEF Follows, Last, Kinds, Relies
    <3>4. ASSUME Alone(t), NEW op \in {"destroyLooks", "useOption", "check", "setOption"}
          PROVE  Needs(op)'
      BY <2>1, <2>2, <2>4, <3>4 DEF Needs, Quiet, location, Kinds
    <3>5. \A i \in 1..3 : todo[t][i] \notin Kinds
      <4>1. \A i \in 1..3 : i = 1 \/ i = 2 \/ i = 3
        OBVIOUS
      <4> QED BY <2>1, <4>1 DEF Kinds
    <3>6. Alone(t) => Finds(t)'
      BY <3>3, <3>4 DEF Finds
    <3> QED BY <2>1, <2>2, <3>1, <3>5, <3>6, AccessKeeps DEF location
  <2> QED BY <2>3, <2>4
<1>11. CASE DestroyLooks(t)
  <2>1. /\ alive /\ todo[t][1] = "destroyLooks" /\ 1 \in 1..Len(todo[t]) /\ 3 \in 1..Len(todo[t])
        /\ todo[t][2] = "destroyClient" /\ todo[t][3] = "destroyOption"
        /\ Alone(t) => client # "null" /\ option
    <3>1. Alone(t) => Needs("destroyLooks")
      BY <1>11, AtFacts DEF DestroyLooks, Relies
    <3> QED BY <1>11, <3>1, AtFacts DEF DestroyLooks, Needs
  <2>2. /\ UNCHANGED location /\ StartedIsHeard'
        /\ client' \in {"null", "made", "listening", "deaf", "started"} /\ option' \in BOOLEAN
    BY <1>11 DEF DestroyLooks, location, IInv, Shape, StartedIsHeard
  <2>3. CASE client = "null"
    <3>1. Access(t, 3)
      BY <1>11, <2>3 DEF DestroyLooks
    <3>2. \A i \in 1..3 : todo[t][i] \notin Kinds
      <4>1. \A i \in 1..3 : i = 1 \/ i = 2 \/ i = 3
        OBVIOUS
      <4> QED BY <2>1, <4>1 DEF Kinds
    <3> QED BY <2>1, <2>2, <2>3, <3>1, <3>2, AccessKeeps DEF location
  <2>4. CASE client # "null"
    <3>1. Access(t, 1)
      BY <1>11, <2>4 DEF DestroyLooks
    <3>2. IF Inside(t)' THEN Follows("destroyLooks", Head(todo'[t]))
                        ELSE \/ "destroyLooks" \in Last
                             \/ \E op \in Ops \ Relies : Follows("destroyLooks", op)
      BY <2>1, <3>1, NextFacts
    <3>3. Inside(t)' /\ Head(todo'[t]) = "destroyClient"
      BY <3>2 DEF Follows, Last, Kinds, Relies
    <3>4. Alone(t) => Needs("destroyClient")'
      BY <2>1, <2>2 DEF Needs, location, Kinds
    <3>5. \A i \in 1..1 : todo[t][i] \notin Kinds
      BY <2>1 DEF Kinds
    <3>6. Alone(t) => Finds(t)'
      BY <3>3, <3>4 DEF Finds
    <3> QED BY <2>1, <2>2, <3>1, <3>5, <3>6, AccessKeeps DEF location
  <2> QED BY <2>3, <2>4
<1> QED
  BY <1>1, <1>2, <1>3, <1>4, <1>5, <1>6, <1>7, <1>8, <1>9, <1>10, <1>11 DEF LocationStep

(* So do the steps outside LocationUtil. *)
LEMMA OthersKeep ==
  ASSUME IInv,
         \/ ChangeMode \/ Schedule \/ CloseWifi
         \/ \E e \in Executor : CheckStep(e)
         \/ RequestArrives \/ WifiChanges \/ Position
  PROVE  IInv'
<1> USE ConstantsAssumption
<1>1. "main" \in Thread /\ "request" \in Thread /\ \A e \in Executor : e \in Thread
  BY DEF Thread
<1>2. Program(<< >>) /\ Ordered(<< >>)
  BY EmptySeq DEF Program, Ordered
<1>3. ASSUME NEW t \in Thread, NEW p, Entry(p) \/ p = << >>
      PROVE  Program(p) /\ Ordered(p) /\ (p = << >> \/ Head(p) \notin Relies)
  BY <1>2, <1>3 DEF Entry, Relies, Kinds
<1>4. ASSUME NEW m \in {"default", "wifi", "gps"}, NEW p, Entry(p), Changes(m, p) PROVE IInv'
  <2>1. ~Inside("main")
    BY <1>4 DEF Changes, Inside
  <2>2. Shape' /\ \A e \in Executor : sched'[e] # "dead"
    BY <1>4 DEF Changes, Shutdown, IInv, Shape, location, counter, wifi
  <2>3. todo' = [todo EXCEPT !["main"] = p] /\ UNCHANGED << location, alive, overlap >>
    BY <1>4 DEF Changes
  <2> QED BY <1>1, <1>3, <1>4, <2>1, <2>2, <2>3, OutsideKeeps
<1>5. CASE ChangeMode
  BY <1>4, <1>5, Closing, Starting DEF ChangeMode
<1>6. ASSUME NEW t \in Thread, NEW op \in Ops \ Relies, At(t, op), Skip(t, 1),
             op # "initLooks",
             UNCHANGED << location, alive, overlap >>,
             \A e \in Executor : sched'[e] # "dead" \/ sched'[e] = sched[e],
             Shape'
      PROVE  IInv'
  <2> DEFINE p == SubSeq(todo[t], 2, Len(todo[t]))
  <2>1. todo[t] # << >> /\ todo[t][1] = op /\ 1 \in 1..Len(todo[t])
    BY <1>6, AtFacts
  <2>2. ~Inside(t)
    BY <1>6 DEF At, Inside
  <2>3. Program(todo[t]) /\ 1 + 1 = 2
    BY DEF IInv, Walks
  <2>4. /\ Program(p)
        /\ p # << >> => Follows(todo[t][1], Head(p))
        /\ Ordered(todo[t]) /\ (\A i \in 1..1 : todo[t][i] \notin Kinds) => Ordered(p)
    BY <2>1, <2>3, Suffix
  <2>5. todo' = [todo EXCEPT ![t] = p]
    BY <1>6 DEF Skip
  <2> HIDE DEF p
  <2>6. p # << >> => Head(p) \notin Relies
    <3> SUFFICES ASSUME p # << >> PROVE Head(p) \notin Relies
      OBVIOUS
    <3>1. Follows(op, Head(p))
      BY <2>1, <2>4
    <3> QED BY <1>6, <3>1 DEF Follows, Ops, Relies, Kinds
  <2>7. \A i \in 1..1 : todo[t][i] \notin Kinds
    BY <1>6, <2>1 DEF Relies
  <2>8. listener = "none" => Ordered(p)
    BY <2>4, <2>7 DEF IInv, Announced
  <2> QED BY <1>6, <2>2, <2>4, <2>5, <2>6, <2>8, OutsideKeeps
<1>7. CASE Schedule
  <2>1. At("main", "schedule") /\ Skip("main", 1) /\ UNCHANGED << location, alive, overlap >>
    BY <1>7 DEF Schedule
  <2>2. PICK e \in Executor : sched' = [sched EXCEPT ![e] = "on"]
    BY <1>7 DEF Schedule
  <2>3. Shape' /\ \A f \in Executor : sched'[f] # "dead" \/ sched'[f] = sched[f]
    BY <1>7, <2>2 DEF Schedule, IInv, Shape, location, counter, wifi
  <2>4. "schedule" \in Ops \ Relies
    BY DEF Ops, Relies, Kinds
  <2> QED BY <1>1, <1>6, <2>1, <2>3, <2>4
<1>8. CASE CloseWifi
  <2>1. At("main", "closeWifi") /\ Skip("main", 1) /\ UNCHANGED << location, sched, alive, overlap >>
    BY <1>8 DEF CloseWifi
  <2>2. Shape'
    BY <1>8 DEF CloseWifi, IInv, Shape, location, counter, wifi
  <2>3. "closeWifi" \in Ops \ Relies
    BY DEF Ops, Relies, Kinds
  <2> QED BY <1>1, <1>6, <2>1, <2>2, <2>3
<1>9. ASSUME UNCHANGED << location, todo, sched, alive, overlap >>, Shape' PROVE IInv'
  <2>1. Walks' /\ Announced' /\ StartedIsHeard'
    BY <1>9 DEF IInv, Walks, Program, Announced, StartedIsHeard, location
  <2>2. Calm'
    BY <1>9 DEF IInv, Calm, Inside, Needs, Quiet, location
  <2> QED BY <1>9, <2>1, <2>2 DEF IInv
<1>10. ASSUME NEW e \in Executor, CheckCloses(e) PROVE IInv'
  <2>1. Shape'
    BY <1>10 DEF CheckCloses, IInv, Shape, location, counter, wifi
  <2> QED BY <1>9, <1>10, <2>1 DEF CheckCloses
<1>11. ASSUME NEW e \in Executor, CheckOpens(e) PROVE IInv'
  <2>1. Shape'
    BY <1>11 DEF CheckOpens, IInv, Shape, location, counter, wifi
  <2>2. PICK n \in 0..MaxWifis :
          todo' = [todo EXCEPT ![e] = [i \in 1..n |-> "try"] \o << "load", "store" >>]
    BY <1>11 DEF CheckOpens
  <2> DEFINE p == [i \in 1..n |-> "try"] \o << "load", "store" >>
  <2>3. Program(p) /\ Ordered(p) /\ Head(p) \in {"try", "load"}
    BY Trying
  <2>4. todo' = [todo EXCEPT ![e] = p]
    BY <2>2
  <2> HIDE DEF p
  <2>5. ~Inside(e)
    BY <1>11 DEF CheckOpens, CheckStarts, Inside
  <2>6. Head(p) \notin Relies
    BY <2>3 DEF Relies, Kinds
  <2>7. UNCHANGED << location, sched, alive, overlap >>
    BY <1>11 DEF CheckOpens
  <2> QED BY <1>1, <2>1, <2>3, <2>4, <2>5, <2>6, <2>7, OutsideKeeps
<1>12. ASSUME NEW e \in Executor, Try(e) PROVE IInv'
  <2>1. Shape'
    BY <1>12 DEF Try, IInv, Shape, location, counter, wifi
  <2>2. At(e, "try") /\ UNCHANGED << location, sched, alive, overlap >>
    BY <1>12 DEF Try
  <2>3. "try" \in Ops \ Relies
    BY DEF Ops, Relies, Kinds
  <2>4. CASE Skip(e, 1)
    BY <1>1, <1>6, <2>1, <2>2, <2>3, <2>4
  <2>5. CASE todo' = [todo EXCEPT ![e] = FoundWifi]
    <3>1. ~Inside(e)
      BY <2>2, <2>3 DEF At, Inside
    <3>2. Program(FoundWifi) /\ Ordered(FoundWifi) /\ Head(FoundWifi) \notin Relies
      BY Closing DEF Entry, Relies, Kinds
    <3> QED BY <1>1, <2>1, <2>2, <2>5, <3>1, <3>2, OutsideKeeps
  <2> QED BY <1>12, <2>4, <2>5 DEF Try
<1>13. ASSUME NEW e \in Executor, Load(e) PROVE IInv'
  <2>1. Shape'
    BY <1>13 DEF Load, IInv, Shape, location, wifi
  <2>2. At(e, "load") /\ Skip(e, 1) /\ UNCHANGED << location, sched, alive, overlap >>
    BY <1>13 DEF Load
  <2>3. "load" \in Ops \ Relies
    BY DEF Ops, Relies, Kinds
  <2> QED BY <1>1, <1>6, <2>1, <2>2, <2>3
<1>14. ASSUME NEW e \in Executor, Store(e) PROVE IInv'
  <2> DEFINE p == IF count' >= MaxTry THEN Fallback ELSE << >>
  <2>1. Shape'
    <3>1. count' \in 0..MaxTry /\ loaded' \in [Executor -> 0..MaxTry]
      BY <1>14 DEF Store, IInv, Shape
    <3> QED BY <1>14, <3>1 DEF Store, IInv, Shape, location, wifi
  <2>2. At(e, "store") /\ UNCHANGED << location, sched, alive, overlap >>
    BY <1>14 DEF Store
  <2>3. ~Inside(e)
    BY <2>2 DEF At, Inside, Relies, Kinds
  <2>4. todo' = [todo EXCEPT ![e] = p]
    BY <1>14 DEF Store
  <2>5. Entry(p) \/ p = << >>
    BY Starting
  <2> HIDE DEF p
  <2>6. Program(p) /\ Ordered(p) /\ (p = << >> \/ Head(p) \notin Relies)
    BY <1>1, <1>3, <2>5
  <2> QED BY <1>1, <2>1, <2>2, <2>3, <2>4, <2>6, OutsideKeeps
<1>15. CASE RequestArrives
  <2>1. Shape'
    BY <1>15 DEF RequestArrives, IInv, Shape, location, counter, wifi
  <2>2. /\ ~Inside("request") /\ todo' = [todo EXCEPT !["request"] = AnswerRequest]
        /\ UNCHANGED << location, sched, alive, overlap >>
    BY <1>15 DEF RequestArrives, Inside
  <2>3. Program(AnswerRequest) /\ Ordered(AnswerRequest) /\ Head(AnswerRequest) \notin Relies
    BY <1>1, Starting DEF Entry, Relies, Kinds
  <2> QED BY <1>1, <2>1, <2>2, <2>3, OutsideKeeps
<1>16. CASE WifiChanges
  <2>1. Shape'
    BY <1>16 DEF WifiChanges, IInv, Shape, location, counter, wifi
  <2> QED BY <1>9, <1>16, <2>1 DEF WifiChanges
<1>17. CASE Position
  <2>1. Shape'
    BY <1>17 DEF Position, IInv, Shape, location, counter, wifi
  <2>2. /\ ~Inside("main") /\ todo' = [todo EXCEPT !["main"] = Uploads]
        /\ UNCHANGED << location, sched, alive, overlap >>
    BY <1>17 DEF Position, Inside
  <2>3. Program(Uploads) /\ Ordered(Uploads) /\ Head(Uploads) \notin Relies
    BY Closing DEF Entry, Relies, Kinds
  <2> QED BY <1>1, <2>1, <2>2, <2>3, OutsideKeeps
<1> QED
  BY <1>5, <1>7, <1>8, <1>10, <1>11, <1>12, <1>13, <1>14, <1>15, <1>16, <1>17 DEF CheckStep

(* The initial states satisfy the invariant. *)
LEMMA InitHolds == Init => IInv
<1> SUFFICES ASSUME Init PROVE IInv
  OBVIOUS
<1> USE ConstantsAssumption
<1>1. \A t \in Thread : todo[t] = DefaultMode \/ todo[t] = << >>
  BY DEF Init
<1>2. Entry(DefaultMode) /\ Program(<< >>) /\ Ordered(<< >>)
  BY Closing, EmptySeq DEF Program, Ordered
<1>3. Walks
  <2>1. DefaultMode \in Seq(Ops) /\ << >> \in Seq(Ops)
    BY <1>2, EmptySeq DEF Entry, Program
  <2>2. todo \in [Thread -> Seq(Ops)]
    BY <2>1 DEF Init
  <2> QED BY <1>1, <1>2, <2>2 DEF Walks, Entry
<1>4. Announced
  BY <1>1, <1>2 DEF Announced, Entry
<1>5. Shape /\ StartedIsHeard
  <2>1. wifi \in BOOLEAN \X BOOLEAN
    BY Zenon DEF Init, wifi
  <2>2. /\ sched \in [Executor -> {"off", "on", "dead"}]
        /\ count \in 0..MaxTry
        /\ loaded \in [Executor -> 0..MaxTry]
    BY DEF Init
  <2>3. option \in BOOLEAN /\ alive \in BOOLEAN /\ overlap \in BOOLEAN
    BY DEF Init
  <2> QED BY <2>1, <2>2, <2>3 DEF Init, Shape, StartedIsHeard
<1>6. \A t \in Thread : ~Inside(t)
  BY <1>1, <1>2 DEF Inside, Entry, Relies, Kinds
<1>7. Calm
  BY <1>6 DEF Calm, Init, Quiet
<1> QED BY <1>3, <1>4, <1>5, <1>7 DEF IInv

(* Every step keeps it. *)
LEMMA StepHolds == IInv /\ [Next]_vars => IInv'
<1> SUFFICES ASSUME IInv, [Next]_vars PROVE IInv'
  OBVIOUS
<1>1. CASE UNCHANGED vars
  <2>1. Shape' /\ Walks' /\ Announced' /\ StartedIsHeard'
    BY <1>1 DEF vars, IInv, Shape, Walks, Program, Announced, StartedIsHeard, location, counter, wifi
  <2>2. Calm'
    BY <1>1 DEF vars, IInv, Calm, Inside, Needs, Quiet, location
  <2> QED BY <2>1, <2>2 DEF IInv
<1> QED BY <1>1, LocationKeeps, OthersKeep DEF Next

LEMMA InvariantHolds == Spec => []IInv
BY InitHolds, StepHolds, PTL DEF Spec

(* The state of the work modes, what every thread has still to do included, has
   its type. *)
THEOREM TypeCorrect == Spec => []TypeOK
<1>1. IInv => TypeOK
  BY DEF IInv, Shape, Walks, TypeOK, Ops
<1> QED BY <1>1, InvariantHolds, PTL

(* A location client that was started reports to a listener, whoever started
   it and whatever came in between. *)
THEOREM StartedIsHeardHolds == Spec => []StartedIsHeard
<1>1. IInv => StartedIsHeard
  BY DEF IInv
<1> QED BY <1>1, InvariantHolds, PTL

(* No exception without an overlap: every sequence of modes, checks, requests
   and positions in which the threads take turns in LocationUtil is safe. *)
THEOREM NullNeedsOverlapHolds == Spec => []NullNeedsOverlap
<1>1. IInv => NullNeedsOverlap
  BY DEF IInv, Shape, Calm, NullNeedsOverlap
<1> QED BY <1>1, InvariantHolds, PTL

-----------------------------------------------------------------------------
(* One mode works at a time *)

LEMMA RestEnds ==
  ASSUME NEW s, Program(s), NEW n \in Nat, NEW op, EndsIn(SubSeq(s, n + 1, Len(s)), op)
  PROVE  EndsIn(s, op)
<1> DEFINE u == SubSeq(s, n + 1, Len(s))
<1>1. s \in Seq(Ops) /\ Len(s) \in Nat
  BY LenProperties DEF Program
<1>2. u # << >> /\ u[Len(u)] = op
  BY DEF EndsIn
<1>3. /\ u \in Seq(Ops)
      /\ Len(u) = IF n + 1 <= Len(s) THEN Len(s) - n ELSE 0
      /\ \A i \in 1..(Len(s) - n) : u[i] = s[n + i]
  <2>1. \A i \in (n + 1)..Len(s) : s[i] \in Ops
    BY <1>1, ElementOfSeq
  <2> QED BY <1>1, <2>1, SubSeqProperties
<1> HIDE DEF u
<1>4. n < Len(s)
  BY <1>1, <1>2, <1>3, EmptySeq
<1>5. u[Len(u)] = s[Len(s)]
  BY <1>1, <1>3, <1>4
<1> QED BY <1>1, <1>2, <1>4, <1>5, EmptySeq DEF EndsIn

(* Nothing comes after schedule. *)
LEMMA ScheduleEnds ==
  ASSUME NEW s, Program(s), s # << >>, s[1] = "schedule"
  PROVE  EndsIn(s, "schedule")
<1>1. PICK k \in Nat : k = Len(s)
  BY LenProperties DEF Program
<1>2. /\ k # 0
      /\ \A i \in 1..(k - 1) : Follows(s[i], s[i + 1])
  BY <1>1, EmptySeq DEF Program
<1>3. k > 1 => Follows(s[1], s[1 + 1])
  BY <1>2
<1>4. ~(k > 1)
  BY <1>3 DEF Follows, Kinds
<1>5. k = 1
  BY <1>2, <1>4
<1> QED BY <1>1, <1>5 DEF EndsIn

LEMMA ScheduleIsLast ==
  ASSUME IInv, At("main", "schedule"), Skip("main", 1)
  PROVE  todo'["main"] = << >>
<1>1. "main" \in Thread
  BY DEF Thread
<1>2. todo["main"][1] = "schedule" /\ 1 \in 1..Len(todo["main"])
  BY <1>1, AtFacts
<1>3. todo'["main"] # << >> => Follows("schedule", Head(todo'["main"]))
  BY <1>1, <1>2, SkipKeeps DEF IInv
<1> QED BY <1>3 DEF Follows, Kinds

(* A step that neither chooses a mode nor schedules a check *)
LEMMA FitsOn ==
  ASSUME ModeFits, mode' = mode,
         \A e \in Executor : sched'[e] = "on" => sched[e] = "on",
         EndsIn(todo'["main"], "schedule") => EndsIn(todo["main"], "schedule")
  PROVE  ModeFits'
BY DEF ModeFits, OneModeWorks

LEMMA SkipFits ==
  ASSUME IInv, NEW t \in Thread, NEW n \in Nat, Skip(t, n), EndsIn(todo'["main"], "schedule")
  PROVE  EndsIn(todo["main"], "schedule")
<1>1. "main" \in Thread /\ Program(todo[t])
  BY DEF Thread, IInv, Walks
<1>2. todo'["main"] = IF t = "main" THEN SubSeq(todo[t], n + 1, Len(todo[t])) ELSE todo["main"]
  BY <1>1 DEF Skip, IInv, Walks
<1> QED BY <1>1, <1>2, RestEnds

LEMMA LocationFits ==
  ASSUME IInv, ModeFits, NEW t \in Thread, LocationStep(t)
  PROVE  ModeFits'
<1>1. ASSUME NEW n \in Nat, Access(t, n) PROVE ModeFits'
  BY <1>1, SkipFits, FitsOn DEF Access
<1>2. ASSUME Throws(t) PROVE ModeFits'
  <2>1. EndsIn(todo'["main"], "schedule") => EndsIn(todo["main"], "schedule")
    BY <1>2 DEF Throws, EndsIn, IInv, Walks, Thread
  <2>2. \A e \in Executor : sched'[e] = "on" => sched[e] = "on"
    BY <1>2 DEF Throws, IInv, Shape
  <2> QED BY <1>2, <2>1, <2>2, FitsOn DEF Throws
<1>3. (\E n \in Nat : Access(t, n)) \/ Throws(t)
  <2>1. 1 \in Nat /\ 3 \in Nat
    OBVIOUS
  <2>2. CASE InitLooks(t) \/ DestroyLooks(t)
    BY <2>1, <2>2 DEF InitLooks, DestroyLooks
  <2>3. CASE InitClient(t) \/ InitOption(t) \/ DestroyClient(t) \/ DestroyOption(t)
    BY <2>1, <2>3 DEF InitClient, InitOption, DestroyClient, DestroyOption
  <2>4. CASE UseOption(t) \/ Listen(t) \/ SetListener(t) \/ SetOption(t) \/ StartClient(t)
    BY <2>1, <2>4 DEF UseOption, Listen, SetListener, SetOption, StartClient
  <2> QED BY <2>2, <2>3, <2>4 DEF LocationStep
<1> QED BY <1>1, <1>2, <1>3

(* Only wifi mode ends in schedule. *)
LEMMA ModeProgramsEnd ==
  /\ ~EndsIn(DefaultMode, "schedule")
  /\ ~EndsIn(GpsMode, "schedule")
  /\ ~EndsIn(Uploads, "schedule")
<1>1. ASSUME NEW s, NEW a, NEW b, Part(s, a, b), b # "schedule" PROVE ~EndsIn(s, "schedule")
  BY <1>1 DEF Part, Chain, EndsIn
<1> QED BY <1>1, Closing, Starting DEF Uploads

LEMMA FitsStep == IInv /\ ModeFits /\ [Next]_vars => ModeFits'
<1> SUFFICES ASSUME IInv, ModeFits, [Next]_vars PROVE ModeFits'
  OBVIOUS
<1>1. "main" \in Thread
  BY DEF Thread
<1>2. ASSUME NEW m, NEW p, Changes(m, p), EndsIn(p, "schedule") => m = "wifi" PROVE ModeFits'
  <2>1. mode' = m /\ \A e \in Executor : sched'[e] = "off"
    BY <1>2 DEF Changes, Shutdown
  <2>2. todo'["main"] = p
    BY <1>1, <1>2 DEF Changes, IInv, Walks
  <2> QED BY <1>2, <2>1, <2>2 DEF ModeFits, OneModeWorks
<1>3. CASE ChangeMode
  BY <1>2, <1>3, ModeProgramsEnd DEF ChangeMode
<1>4. CASE Schedule
  <2>1. /\ At("main", "schedule") /\ Skip("main", 1) /\ mode' = mode
        /\ \E e \in Executor : sched' = [sched EXCEPT ![e] = "on"]
    BY <1>4 DEF Schedule
  <2>2. EndsIn(todo["main"], "schedule")
    <3>1. /\ todo["main"] # << >> /\ todo["main"][1] = "schedule"
          /\ Program(todo["main"])
      BY <1>1, <2>1, AtFacts DEF IInv, Walks
    <3> QED BY <3>1, ScheduleEnds
  <2>3. mode = "wifi" /\ \A e \in Executor : sched[e] # "on"
    BY <2>2 DEF ModeFits
  <2>4. ~EndsIn(todo'["main"], "schedule")
    BY <2>1, ScheduleIsLast DEF EndsIn
  <2>5. OneModeWorks'
    BY <2>1, <2>3 DEF OneModeWorks, IInv, Shape
  <2> QED BY <2>4, <2>5 DEF ModeFits
<1>5. CASE CloseWifi
  BY <1>1, <1>5, SkipFits, FitsOn DEF CloseWifi
<1>6. ASSUME NEW t \in Thread, LocationStep(t) PROVE ModeFits'
  BY <1>6, LocationFits
<1>7. ASSUME NEW e \in Executor, CheckStep(e) PROVE ModeFits'
  <2>1. e # "main"
    BY ThreadsAssumption
  <2>2. todo'["main"] = todo["main"]
    <3>1. todo' = todo \/ \E p : todo' = [todo EXCEPT ![e] = p]
      <4>1. CASE CheckCloses(e)
        BY <4>1 DEF CheckCloses
      <4>2. CASE CheckOpens(e)
        BY <4>2 DEF CheckOpens
      <4>3. CASE Try(e)
        BY <4>3 DEF Try, Skip
      <4>4. CASE Load(e)
        BY <4>4 DEF Load, Skip
      <4>5. CASE Store(e)
        BY <4>5 DEF Store
      <4> QED BY <1>7, <4>1, <4>2, <4>3, <4>4, <4>5 DEF CheckStep
    <3> QED BY <1>1, <2>1, <3>1 DEF IInv, Walks
  <2>3. mode' = mode /\ sched' = sched
    BY <1>7 DEF CheckStep, CheckCloses, CheckOpens, Try, Load, Store
  <2> QED BY <2>2, <2>3, FitsOn
<1>8. CASE RequestArrives
  <2>1. todo'["main"] = todo["main"]
    BY <1>8 DEF RequestArrives, IInv, Walks
  <2> QED BY <1>8, <2>1, FitsOn DEF RequestArrives
<1>9. CASE WifiChanges
  BY <1>9, FitsOn DEF WifiChanges
<1>10. CASE Position
  <2>1. todo'["main"] = Uploads
    BY <1>1, <1>10 DEF Position, IInv, Walks
  <2> QED BY <1>10, <2>1, ModeProgramsEnd, FitsOn DEF Position
<1>11. CASE UNCHANGED vars
  BY <1>11, FitsOn DEF vars
<1> QED
  BY <1>3, <1>4, <1>5, <1>6, <1>7, <1>8, <1>9, <1>10, <1>11 DEF Next

(* However often and whenever the user changes the mode, checks for wifi run in
   wifi mode only and on one executor: shutdownNow() comes before the new mode
   does anything, and the check of wifi mode is the last thing it schedules. *)
THEOREM OneModeWorksHolds == Spec => []OneModeWorks
<1>1. Init => ModeFits
  <2>1. Init => todo["main"] = DefaultMode
    BY DEF Init, Thread
  <2> QED BY <2>1, ModeProgramsEnd DEF Init, ModeFits, OneModeWorks
<1>2. ModeFits => OneModeWorks
  BY DEF ModeFits
<1> QED BY <1>1, <1>2, FitsStep, InvariantHolds, PTL DEF Spec
=============================================================================
