----------------------------- MODULE WifiStore ------------------------------
(***************************************************************************)
(* The stored list of wifis of the tracker: ProofDeviceparseData.parseData *)
(* runs the commands of a phone on the UI thread, StorageUtil keeps the    *)
(* list in a file that it truncates and writes anew.  Storage may fail,    *)
(* the process may be killed between any two system calls.                 *)
(***************************************************************************)
EXTENDS Naturals, Sequences, FiniteSets

CONSTANTS
  Mac, Data,
  MaxWifis    \* bound on the length of the list, for TLC

ASSUME BoundAssumption == MaxWifis \in Nat

VARIABLES
  file,   \* the list that readWifiInfoObjects() would return now
  pc,     \* where the UI thread is in parseData()
  cmd,    \* the command it runs
  read,   \* the list the command read
  list,   \* that list with the command's change
  code    \* response.code

vars == << file, pc, cmd, read, list, code >>

\* What other readers of the list are to see: the old list until the new one is
\* in the file.  An unreadable file counts as an empty list.
WL == INSTANCE WifiList WITH wifis <- IF pc = "write" THEN read ELSE file

Wifi == WL!Wifi
Mentioned(l, macs) == WL!Mentioned(l, macs)
IsFirst(l, i, mac) == WL!IsFirst(l, i, mac)

Cmd ==
       [name : {"add", "update"}, wifi : Wifi]
  \cup [name : {"delete"}, macs : SUBSET Mac]
  \cup [name : {"query"}]

TypeOK ==
  /\ file \in Seq(Wifi)
  /\ pc \in {"idle", "open", "write", "answer", "failed", "dead"}
  /\ cmd \in Cmd
  /\ read \in Seq(Wifi)
  /\ list \in Seq(Wifi)
  /\ code \in {0, 1, 3, 4}

Init ==
  /\ file = << >>
  /\ pc = "idle"
  /\ cmd = [name |-> "query"]
  /\ read = << >>
  /\ list = << >>
  /\ code = 0

-----------------------------------------------------------------------------
(* The commands, up to the first call that touches the file for writing. *)

\* A command that needs no change of the file is answered at once.
Replies(c) ==
  /\ code' = c
  /\ pc' = "answer"
  /\ UNCHANGED << file, read, list >>

\* The command changed its copy of the list and goes on to write it.
Stores(new, c) ==
  /\ read' = file
  /\ list' = new
  /\ code' = c
  /\ pc' = "open"
  /\ UNCHANGED file

Query ==
  /\ pc = "idle"
  /\ cmd' = [name |-> "query"]
  /\ Replies(0)

Refuse ==
  /\ pc = "idle"
  /\ \E n \in {"add", "update"}, w \in Wifi : cmd' = [name |-> n, wifi |-> w]
  /\ Replies(4)

Add ==
  /\ pc = "idle"
  /\ Len(file) < MaxWifis
  /\ \E w \in Wifi :
       /\ cmd' = [name |-> "add", wifi |-> w]
       /\ Stores(Append(file, w), 0)

Update ==
  /\ pc = "idle"
  /\ \E w \in Wifi :
       /\ cmd' = [name |-> "update", wifi |-> w]
       /\ \/ \E i \in DOMAIN file :
               IsFirst(file, i, w.mac) /\ Stores([file EXCEPT ![i] = w], 0)
          \/ Mentioned(file, {w.mac}) = {} /\ Replies(3)

\* for (i = 0; i < n; i++) list.remove(i): each removal moves the rest down, so
\* that of the first wifis every second one goes.
Removed(l, n) == [j \in 1..(Len(l) - n) |-> l[IF j < n THEN 2 * j ELSE j + n]]

\* remove(i) finds an element as long as i is less than what is left.
RemovesAll(l, n) == 2 * (n - 1) < Len(l)

(* Mutants: the answer is success even if nothing was deleted; the answer is the
   number of deleted wifis. *)
Delete_success ==
  /\ pc = "idle"
  /\ \E macs \in SUBSET Mac :
       LET n == Cardinality(Mentioned(file, macs)) IN
       /\ RemovesAll(file, n)
       /\ cmd' = [name |-> "delete", macs |-> macs]
       /\ Stores(Removed(file, n), 0)

Delete_count ==
  /\ pc = "idle"
  /\ \E macs \in SUBSET Mac :
       LET n == Cardinality(Mentioned(file, macs)) IN
       /\ RemovesAll(file, n)
       /\ cmd' = [name |-> "delete", macs |-> macs]
       /\ Stores(Removed(file, n), n)

Delete ==
  /\ pc = "idle"
  /\ \E macs \in SUBSET Mac :
       LET n == Cardinality(Mentioned(file, macs)) IN
       /\ RemovesAll(file, n)
       /\ cmd' = [name |-> "delete", macs |-> macs]
       /\ Stores(Removed(file, n), IF n = 0 THEN 1 ELSE 0)

\* An IndexOutOfBoundsException that nobody catches ends the process.
DeleteThrows ==
  /\ pc = "idle"
  /\ \E macs \in SUBSET Mac :
       /\ ~RemovesAll(file, Cardinality(Mentioned(file, macs)))
       /\ cmd' = [name |-> "delete", macs |-> macs]
  /\ pc' = "dead"
  /\ UNCHANGED << file, read, list, code >>

-----------------------------------------------------------------------------
(* Writing the list. *)

\* new FileOutputStream(file) truncates the file...
OpenFile ==
  /\ pc = "open"
  /\ pc' = "write"
  /\ file' = << >>
  /\ UNCHANGED << cmd, read, list, code >>

\* ... unless it throws: the exception is printed and the command goes on.
OpenFails ==
  /\ pc = "open"
  /\ pc' = "failed"
  /\ UNCHANGED << file, cmd, read, list, code >>

(* Mutant: the file is opened for appending. *)
WriteFile_append ==
  /\ pc = "write"
  /\ pc' = "answer"
  /\ file' = read \o list
  /\ UNCHANGED << cmd, read, list, code >>

WriteFile ==
  /\ pc = "write"
  /\ pc' = "answer"
  /\ file' = list
  /\ UNCHANGED << cmd, read, list, code >>

\* An IOException, before the list is in the file as a whole or, from close(), after.
WriteFails ==
  /\ pc = "write"
  /\ pc' = "failed"
  /\ file' \in {file, list}
  /\ UNCHANGED << cmd, read, list, code >>

Answer ==
  /\ pc \in {"answer", "failed"}
  /\ pc' = "idle"
  /\ UNCHANGED << file, cmd, read, list, code >>

Kill ==
  /\ pc # "dead"
  /\ pc' = "dead"
  /\ UNCHANGED << file, cmd, read, list, code >>

Restart ==
  /\ pc = "dead"
  /\ pc' = "idle"
  /\ UNCHANGED << file, cmd, read, list, code >>

Next ==
  \/ Query \/ Refuse \/ Add \/ Update \/ Delete \/ DeleteThrows
  \/ OpenFile \/ OpenFails \/ WriteFile \/ WriteFails \/ Answer
  \/ Kill \/ Restart

Spec == Init /\ [][Next]_vars

-----------------------------------------------------------------------------
(* Properties *)

\* The list implements WifiList: whatever fails and wherever the process dies,
\* the stored list is the old one, the new one, or empty.
\* (writeWifiInfoObjects and the four commands of parseData)
ImplementsWifiList == WL!Spec

\* The list l is short of as many wifis as a deletion of the addresses was about.
ShorterBy(l, macs) ==
  Len(l) + Cardinality(Mentioned(read, macs)) = Len(read) /\ Mentioned(read, macs) # {}

\* What the answer can count on of the list l: an accepted wifi is there, a missing
\* address is missing, a successful deletion took as many wifis as it was about,
\* and there was one.  That it took those wifis is what its "success" says and is
\* false: see DeleteDeletes.
AnswerFits(l) ==
  /\ cmd.name \in {"add", "update"} /\ code = 0 => \E i \in DOMAIN l : l[i] = cmd.wifi
  /\ code = 3 => Mentioned(l, {cmd.wifi.mac}) = {}
  /\ code = 1 => Mentioned(l, cmd.macs) = {}
  /\ cmd.name = "delete" /\ code = 0 => ShorterBy(l, cmd.macs)

\* When a phone is about to get its answer, the stored list is one that goes with
\* it; but a command whose write failed gives the same answer, and then the list
\* may also be the one the command read, or be gone: never a part of either.
\* (response.code of add_wifi, update_wifi and delete_wifi, and the exceptions
\* that writeWifiInfoObjects prints)
AnswersFitStore ==
  /\ pc = "answer" => AnswerFits(file)
  /\ pc = "failed" => file \in {read, << >>, list} /\ AnswerFits(list)

\* A pending change is one that WifiList allows, its answer fits it, and the
\* file is untouched until it is truncated.
\* (the locals of parseData across the call of writeWifiInfoObjects)
PendingFits ==
  /\ pc \in {"open", "write"} => WL!Changed(read, list) /\ AnswerFits(list)
  /\ pc = "open" => file = read
  /\ pc = "write" => file = << >>

\* delete_wifi deletes the wifis with the given addresses, those only, and does
\* not bring the process down.
\* (lines 71-80: the indexes that need removing are collected, then not used)
DeleteDeletes ==
  [][/\ Delete => list' = SelectSeq(file, LAMBDA w : w.mac \notin cmd'.macs)
     /\ ~DeleteThrows]_vars
=============================================================================
