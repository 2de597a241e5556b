---------------------------- MODULE TrackerSession ----------------------------
(***************************************************************************)
(* What the tracker's Bluetooth session promises to the rest of the app:   *)
(* it is off, listens, or serves one connection.  A connection is served   *)
(* only after listening, from one moment to the next, and until the        *)
(* session listens again or is stopped: never in exchange for another one. *)
(***************************************************************************)
CONSTANTS
  Connection,  \* the connections there can be
  None         \* no connection

VARIABLES state, peer

vars == <<state, peer>>

Init == state = "NONE" /\ peer = None

Listen == state' = "LISTEN" /\ peer' = None

Stop == state' = "NONE" /\ peer' = None

Serve ==
  /\ state = "LISTEN"
  /\ state' = "CONNECTED"
  /\ peer' \in Connection

Next == Listen \/ Stop \/ Serve

Spec == Init /\ [][Next]_vars
===============================================================================
