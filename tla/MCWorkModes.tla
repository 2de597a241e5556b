---------------------------- MODULE MCWorkModes -----------------------------
\* The UI thread, one request of the server at a time, and the checks of one
\* executor, which go on while their mode has already changed.
EXTENDS WorkModes
=============================================================================
