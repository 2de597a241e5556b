---------------------------- MODULE MCWifiStore -----------------------------
\* Two phones, two states of an entry: duplicates, updates of one of several
\* entries, and deletions of some or all of up to three entries.
EXTENDS WifiStore
=============================================================================
