\* The iOS client with a server that comes and goes.
SPECIFICATION FairSpec
INVARIANTS TypeOK LoginStands
PROPERTIES OnlyClashKills ClosedReconnects
