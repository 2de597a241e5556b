-------------------------- MODULE WifiStore_proofs --------------------------
(***************************************************************************)
(* The stored list of wifis implements WifiList, for any set of addresses, *)
(* any contents and lists of any length.                                   *)
(***************************************************************************)
EXTENDS WifiStore, FiniteSetTheorems, SequenceTheorems, TLAPS

Inv == TypeOK /\ PendingFits /\ AnswersFitStore

\* The number of wifis a deletion is about is at most the length of the list,
\* and zero only if there is none.
\* (needRemoveIndexList.size())
LEMMA MentionedCount ==
  ASSUME NEW l \in Seq(Wifi), NEW macs
  PROVE  LET n == Cardinality(Mentioned(l, macs)) IN
         n \in Nat /\ n <= Len(l) /\ (n = 0 => Mentioned(l, macs) = {})
<1> DEFINE n == Cardinality(Mentioned(l, macs))
<1>1. Mentioned(l, macs) \subseteq 1..Len(l)
  BY DEF Mentioned, WL!Mentioned
<1>2. IsFiniteSet(1..Len(l)) /\ Cardinality(1..Len(l)) = Len(l)
  <2>1. Len(l) \in Nat
    OBVIOUS
  <2> QED BY <2>1, FS_Interval
<1>3. IsFiniteSet(Mentioned(l, macs)) /\ n <= Len(l)
  BY <1>1, <1>2, FS_Subset
<1>4. n \in Nat
  BY <1>3, FS_CardinalityType
<1>5. n = 0 => Mentioned(l, macs) = {}
  BY <1>3, FS_EmptySet
<1> QED BY <1>3, <1>4, <1>5

\* Removing positions 0 to n-1 one after the other leaves a subsequence that is
\* shorter by n.
\* (list.remove(i), line 79)
LEMMA RemovedKeeps ==
  ASSUME NEW l \in Seq(Wifi), NEW n \in Nat, n <= Len(l), RemovesAll(l, n)
  PROVE  /\ Removed(l, n) \in Seq(Wifi)
         /\ \E kept \in WL!Staying(Len(l), n) :
              Removed(l, n) = [j \in 1..(Len(l) - n) |-> l[kept[j]]]
<1> DEFINE m == Len(l) - n
           kept == [j \in 1..m |-> IF j < n THEN 2 * j ELSE j + n]
<1>1. m \in Nat /\ Len(l) \in Nat
  OBVIOUS
<1>2. ASSUME NEW j \in 1..m
      PROVE  kept[j] \in 1..Len(l)
  <2>1. 2 * (n - 1) < Len(l)
    BY DEF RemovesAll
  <2> QED BY <1>1, <2>1
<1>3. \A j, k \in 1..m : j < k => kept[j] < kept[k]
  BY <1>1
<1>4. kept \in [1..m -> 1..Len(l)]
  BY <1>2
<1>5. kept \in WL!Staying(Len(l), n)
  BY <1>3, <1>4 DEF WL!Staying
<1>6. Removed(l, n) = [j \in 1..m |-> l[kept[j]]]
  BY DEF Removed
<1>7. \A j \in 1..m : l[kept[j]] \in Wifi
  BY <1>2
<1>8. Removed(l, n) \in Seq(Wifi)
  BY <1>1, <1>6, <1>7
<1> HIDE DEF kept
<1> QED BY <1>5, <1>6, <1>8

\* Replacing an entry leaves a list of wifis.
\* (the assignments to item in update_wifi)
LEMMA UpdateType ==
  ASSUME NEW l \in Seq(Wifi), NEW i \in DOMAIN l, NEW w \in Wifi
  PROVE  [l EXCEPT ![i] = w] \in Seq(Wifi)
BY ExceptSeq

\* Initially nothing is stored and nothing is pending.
LEMMA InitInv == Init => Inv
<1> SUFFICES ASSUME Init PROVE Inv
  OBVIOUS
<1>1. << >> \in Seq(Wifi)
  OBVIOUS
<1>2. cmd \in Cmd
  BY DEF Init, Cmd
<1>3. TypeOK
  BY <1>1, <1>2 DEF Init, TypeOK
<1>4. PendingFits
  BY DEF Init, PendingFits
<1>5. AnswersFitStore
  BY DEF Init, AnswersFitStore
<1> QED BY <1>3, <1>4, <1>5 DEF Inv

\* A command that changes the list leaves a pending change WifiList allows.
\* (add_wifi, update_wifi and delete_wifi up to writeWifiInfoObjects)
LEMMA CommandInv == Inv /\ (Query \/ Refuse \/ Add \/ Update \/ Delete \/ DeleteThrows) => Inv'
<1> SUFFICES ASSUME Inv, Query \/ Refuse \/ Add \/ Update \/ Delete \/ DeleteThrows
             PROVE  Inv'
  OBVIOUS
<1> USE DEF Inv
<1>t. /\ file \in Seq(Wifi) /\ read \in Seq(Wifi) /\ list \in Seq(Wifi)
      /\ code \in {0, 1, 3, 4}
  BY DEF TypeOK
<1>1. CASE Query
  <2>1. AnswerFits(file)'
    BY <1>1 DEF Query, Replies, AnswerFits
  <2> QED BY <1>1, <1>t, <2>1 DEF Query, Replies, TypeOK, PendingFits, AnswersFitStore, Cmd
<1>2. CASE Refuse
  <2>1. cmd' \in Cmd
    BY <1>2 DEF Refuse, Cmd
  <2>2. AnswerFits(file)'
    BY <1>2 DEF Refuse, Replies, AnswerFits
  <2> QED BY <1>2, <1>t, <2>1, <2>2 DEF Refuse, Replies, TypeOK, PendingFits, AnswersFitStore
<1>3. CASE Add
  <2>1. PICK w \in Wifi : /\ cmd' = [name |-> "add", wifi |-> w]
                          /\ Stores(Append(file, w), 0)
    BY <1>3 DEF Add
  <2>2. cmd' \in Cmd
    BY <2>1 DEF Cmd
  <2>3. list' = Append(file, w) /\ read' = file /\ file' = file /\ pc' = "open" /\ code' = 0
    BY <2>1 DEF Stores
  <2>4. list' \in Seq(Wifi)
    BY <2>3, <1>t
  <2>5. WL!Changed(read', list')
    BY <2>3 DEF WL!Changed, WL!Added, Wifi
  <2>6. list'[Len(file) + 1] = w /\ Len(file) + 1 \in DOMAIN list'
    BY <2>3, <1>t
  <2>7. AnswerFits(list)'
    BY <2>1, <2>3, <2>6 DEF AnswerFits
  <2> QED BY <1>t, <2>2, <2>3, <2>4, <2>5, <2>7 DEF TypeOK, PendingFits, AnswersFitStore
<1>4. CASE Update
  <2>1. PICK w \in Wifi :
          /\ cmd' = [name |-> "update", wifi |-> w]
          /\ \/ \E i \in DOMAIN file :
                  IsFirst(file, i, w.mac) /\ Stores([file EXCEPT ![i] = w], 0)
             \/ Mentioned(file, {w.mac}) = {} /\ Replies(3)
    BY <1>4 DEF Update
  <2>2. cmd' \in Cmd
    BY <2>1 DEF Cmd
  <2>3. CASE Mentioned(file, {w.mac}) = {} /\ Replies(3)
    <3>1. AnswerFits(file)'
      BY <2>1, <2>3 DEF Replies, AnswerFits, Mentioned, WL!Mentioned
    <3> QED BY <1>t, <2>2, <2>3, <3>1 DEF Replies, TypeOK, PendingFits, AnswersFitStore
  <2>4. ASSUME NEW i \in DOMAIN file,
               IsFirst(file, i, w.mac), Stores([file EXCEPT ![i] = w], 0)
        PROVE  Inv'
    <3>1. list' = [file EXCEPT ![i] = w] /\ read' = file /\ file' = file /\ pc' = "open" /\ code' = 0
      BY <2>4 DEF Stores
    <3>2. list' \in Seq(Wifi)
      BY <1>t, <3>1, UpdateType
    <3>3. WL!Changed(read', list')
      BY <2>4, <3>1 DEF WL!Changed, WL!Updated, Wifi, IsFirst
    <3>4. i \in DOMAIN list' /\ list'[i] = w
      BY <1>t, <3>1
    <3>5. AnswerFits(list)'
      BY <2>1, <3>1, <3>4 DEF AnswerFits
    <3> QED BY <1>t, <2>2, <3>1, <3>2, <3>3, <3>5 DEF TypeOK, PendingFits, AnswersFitStore
  <2> QED BY <2>1, <2>3, <2>4
<1>5. CASE Delete
  <2>1. PICK macs \in SUBSET Mac :
          LET n == Cardinality(Mentioned(file, macs)) IN
          /\ RemovesAll(file, n)
          /\ cmd' = [name |-> "delete", macs |-> macs]
          /\ Stores(Removed(file, n), IF n = 0 THEN 1 ELSE 0)
    BY <1>5 DEF Delete
  <2> DEFINE n == Cardinality(Mentioned(file, macs))
  <2>2. cmd' \in Cmd
    BY <2>1 DEF Cmd
  <2>3. n \in Nat /\ n <= Len(file) /\ (n = 0 => Mentioned(file, macs) = {})
    BY <1>t, MentionedCount
  <2>4. /\ RemovesAll(file, n)
        /\ list' = Removed(file, n) /\ read' = file /\ file' = file /\ pc' = "open"
        /\ code' = (IF n = 0 THEN 1 ELSE 0)
    BY <2>1 DEF Stores
  <2> HIDE DEF n
  <2>5. /\ Removed(file, n) \in Seq(Wifi)
        /\ \E kept \in WL!Staying(Len(file), n) :
             Removed(file, n) = [j \in 1..(Len(file) - n) |-> file[kept[j]]]
    BY <1>t, <2>3, <2>4, RemovedKeeps
  <2>6. WL!Changed(read', list')
    <3>1. n = WL!Cardinality(WL!Mentioned(file, macs))
      BY DEF n, Mentioned, Cardinality, WL!Cardinality, IsFiniteSet, WL!IsFiniteSet
    <3> DEFINE k == WL!Cardinality(WL!Mentioned(file, macs))
    <3>2. \E kept \in WL!Staying(Len(file), k) :
            list' = [j \in 1..(Len(file) - k) |-> file[kept[j]]]
      <4> HIDE DEF k
      <4>1. n = k
        BY <3>1 DEF k
      <4> QED BY <2>4, <2>5, <4>1
    <3>3. WL!Shortened(file, list')
      BY <3>2 DEF WL!Shortened
    <3> QED BY <2>4, <3>3 DEF WL!Changed
  <2>7. n = 0 => list' = file
    <3>1. ASSUME n = 0 PROVE Removed(file, n) = file
      BY <3>1, <1>t DEF Removed
    <3> QED BY <2>4, <3>1
  <2>8. n # 0 => ShorterBy(list, macs)'
    <3>1. Mentioned(read, macs)' = Mentioned(file, macs)
      BY <2>4 DEF Mentioned, WL!Mentioned
    <3>2. Len(Removed(file, n)) + n = Len(file)
      BY <1>t, <2>3 DEF Removed
    <3>3. n # 0 => Mentioned(file, macs) # {}
      BY FS_EmptySet DEF n
    <3>4. Len(list') + Cardinality(Mentioned(file, macs)) = Len(read')
      BY <2>4, <3>2 DEF n
    <3> QED BY <3>1, <3>3, <3>4 DEF ShorterBy
  <2>9. AnswerFits(list)'
    <3>1. cmd'.name = "delete" /\ cmd'.macs = macs
      BY <2>1
    <3>2. code' = 0 => ShorterBy(list, macs)'
      BY <2>4, <2>8
    <3>3. code' = 1 => Mentioned(list, macs)' = {}
      BY <2>3, <2>4, <2>7 DEF Mentioned, WL!Mentioned
    <3>4. code' # 3
      BY <2>4
    <3> QED BY <3>1, <3>2, <3>3, <3>4 DEF AnswerFits, ShorterBy, Mentioned, WL!Mentioned
  <2> QED BY <1>t, <2>2, <2>4, <2>5, <2>6, <2>9 DEF TypeOK, PendingFits, AnswersFitStore
<1>6. CASE DeleteThrows
  <2>1. cmd' \in Cmd
    BY <1>6 DEF DeleteThrows, Cmd
  <2> QED BY <1>6, <1>t, <2>1 DEF DeleteThrows, TypeOK, PendingFits, AnswersFitStore
<1> QED BY <1>1, <1>2, <1>3, <1>4, <1>5, <1>6

\* Writing the list, failing to, dying and restarting keep the invariant.
\* (writeWifiInfoObjects)
LEMMA StorageInv ==
  Inv /\ (OpenFile \/ OpenFails \/ WriteFile \/ WriteFails \/ Answer \/ Kill \/ Restart) => Inv'
<1> SUFFICES ASSUME Inv, OpenFile \/ OpenFails \/ WriteFile \/ WriteFails \/ Answer \/ Kill \/ Restart
             PROVE  Inv'
  OBVIOUS
<1>1. TypeOK'
  <2>1. << >> \in Seq(Wifi)
    OBVIOUS
  <2> QED BY <2>1 DEF Inv, TypeOK, OpenFile, OpenFails, WriteFile, WriteFails, Answer, Kill, Restart
<1>2. cmd' = cmd /\ read' = read /\ list' = list /\ code' = code
  BY DEF OpenFile, OpenFails, WriteFile, WriteFails, Answer, Kill, Restart
<1>3. AnswerFits(list)' <=> AnswerFits(list)
  BY <1>2 DEF AnswerFits, ShorterBy, Mentioned, WL!Mentioned
<1>4. PendingFits'
  BY <1>2, <1>3 DEF Inv, PendingFits, OpenFile, OpenFails, WriteFile, WriteFails, Answer, Kill, Restart
<1>5. AnswersFitStore'
  <2>1. CASE WriteFile
    <3>1. pc = "write" /\ pc' = "answer" /\ file' = list'
      BY <1>2, <2>1 DEF WriteFile
    <3>2. AnswerFits(list)'
      BY <1>3, <3>1 DEF Inv, PendingFits
    <3>3. AnswerFits(file)' <=> AnswerFits(list)'
      BY <3>1 DEF AnswerFits, ShorterBy, Mentioned, WL!Mentioned
    <3> QED BY <3>1, <3>2, <3>3 DEF AnswersFitStore
  <2>2. CASE OpenFails \/ WriteFails
    <3>1. AnswerFits(list)' /\ pc' = "failed"
      BY <1>3, <2>2 DEF Inv, PendingFits, OpenFails, WriteFails
    <3>2. file' \in {read', << >>, list'}
      BY <1>2, <2>2 DEF Inv, PendingFits, OpenFails, WriteFails
    <3> QED BY <3>1, <3>2 DEF AnswersFitStore
  <2>3. CASE OpenFile \/ Answer \/ Kill \/ Restart
    BY <2>3 DEF AnswersFitStore, OpenFile, Answer, Kill, Restart
  <2> QED BY <2>1, <2>2, <2>3
<1> QED BY <1>1, <1>4, <1>5 DEF Inv

\* The invariant of the stored list.
THEOREM InvHolds == Spec => []Inv
<1>1. Inv /\ [Next]_vars => Inv'
  <2>1. Inv /\ UNCHANGED vars => Inv'
    BY DEF Inv, TypeOK, PendingFits, AnswersFitStore, AnswerFits, ShorterBy, Mentioned,
       WL!Mentioned, vars
  <2> QED BY <2>1, CommandInv, StorageInv DEF Next
<1> QED BY InitInv, <1>1, PTL DEF Spec

\* Commands, lists and codes always have their types.
\* (the fields of the classes WifiInfo and BaseResponse)
THEOREM TypeCorrect == Spec => []TypeOK
BY InvHolds, PTL DEF Inv

\* A pending change of the list is one that WifiList allows.
\* (parseData across the call of writeWifiInfoObjects)
THEOREM PendingFitsHolds == Spec => []PendingFits
BY InvHolds, PTL DEF Inv

\* The stored list goes with the answer: what was accepted is in it, what was missing
\* is not, a successful deletion took as many wifis as it was about.  If the write
\* failed, it is the list that was read, that one with the change, or empty.
\* (response.code, and the exceptions that writeWifiInfoObjects prints)
THEOREM AnswersFitStoreHolds == Spec => []AnswersFitStore
BY InvHolds, PTL DEF Inv

\* Whatever fails and wherever the process dies, the stored list is the old one,
\* the new one, or empty.
\* (writeWifiInfoObjects: the file is truncated and written anew)
THEOREM Implements == Spec => ImplementsWifiList
<1>1. Init => WL!Init
  BY DEF Init, WL!Init
<1>2. Inv /\ [Next]_vars => [WL!Next]_(IF pc = "write" THEN read ELSE file)
  <2> SUFFICES ASSUME Inv, [Next]_vars
               PROVE  [WL!Next]_(IF pc = "write" THEN read ELSE file)
    OBVIOUS
  <2> DEFINE w == IF pc = "write" THEN read ELSE file
  <2>1. CASE Query \/ Refuse \/ Add \/ Update \/ Delete \/ DeleteThrows
    <3>1. file' = file /\ pc # "write" /\ pc' # "write"
      BY <2>1 DEF Query, Refuse, Add, Update, Delete, DeleteThrows, Replies, Stores
    <3> QED BY <3>1
  <2>2. CASE OpenFile
    BY <2>2 DEF OpenFile, Inv, PendingFits
  <2>3. CASE WriteFile
    BY <2>3 DEF WriteFile, Inv, PendingFits, WL!Next, WL!Command
  <2>4. CASE WriteFails \/ Kill
    <3>1. \/ pc' # "write" /\ file' = file
          \/ pc' # "write" /\ pc = "write" /\ file' = list
      <4>1. CASE WriteFails
        BY <4>1 DEF WriteFails
      <4>2. CASE Kill
        BY <4>2 DEF Kill
      <4> QED BY <2>4, <4>1, <4>2
    <3> QED BY <3>1 DEF Inv, PendingFits, WL!Next, WL!Lose, WL!Command
  <2>5. CASE OpenFails \/ Answer \/ Restart
    <3>1. file' = file /\ pc # "write" /\ pc' # "write"
      BY <2>5 DEF OpenFails, Answer, Restart
    <3> QED BY <3>1
  <2>6. CASE UNCHANGED vars
    BY <2>6 DEF vars
  <2> QED BY <2>1, <2>2, <2>3, <2>4, <2>5, <2>6 DEF Next
<1> QED BY <1>1, <1>2, InvHolds, PTL DEF Spec, ImplementsWifiList, WL!Spec
=============================================================================
