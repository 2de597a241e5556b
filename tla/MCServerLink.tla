----------------------------- MODULE MCServerLink -----------------------------
(* Small instances of ServerLink for TLC: the delays are those of the code in
   units of 30 s (keep-alive 60 s, request 30 s, silence 120 s). *)
EXTENDS ServerLink
=============================================================================
