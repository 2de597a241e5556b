------------------------------ MODULE WifiList ------------------------------
(***************************************************************************)
(* What the list of wifis of the tracker promises to the phones that edit  *)
(* it: a command changes it at once or not at all.  A deletion promises    *)
(* only how many wifis go, because that is all the code achieves (see      *)
(* DeleteDeletes in WifiStore); a list can also be lost as a whole.        *)
(***************************************************************************)
EXTENDS Naturals, Sequences, FiniteSets

CONSTANTS
  Mac,   \* addresses of the phones that register a wifi
  Data   \* what else a WifiInfo holds: name, password, pen name, type

VARIABLE wifis

Wifi == [mac : Mac, data : Data]

\* The positions of the wifis that a deletion of the addresses in macs is about.
Mentioned(list, macs) == {i \in DOMAIN list : list[i].mac \in macs}

IsFirst(list, i, mac) ==
  /\ i \in DOMAIN list
  /\ list[i].mac = mac
  /\ \A k \in 1..(i - 1) : list[k].mac # mac

Added(old, new) == \E w \in Wifi : new = Append(old, w)

Updated(old, new) ==
  \E w \in Wifi : \E i \in DOMAIN old :
    IsFirst(old, i, w.mac) /\ new = [old EXCEPT ![i] = w]

\* The positions that stay when n of the len positions go, in their order.
Staying(len, n) ==
  {kept \in [1..(len - n) -> 1..len] :
     \A j, k \in 1..(len - n) : j < k => kept[j] < kept[k]}

Shortened(old, new) ==
  \E macs \in SUBSET Mac :
    LET n == Cardinality(Mentioned(old, macs)) IN
    \E kept \in Staying(Len(old), n) :
      new = [j \in 1..(Len(old) - n) |-> old[kept[j]]]

Changed(old, new) == Added(old, new) \/ Updated(old, new) \/ Shortened(old, new)

Init == wifis = << >>
Command == Changed(wifis, wifis')
Lose == wifis' = << >>
Next == Command \/ Lose
Spec == Init /\ [][Next]_wifis
=============================================================================
