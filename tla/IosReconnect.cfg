\* The connection the server closed is never replaced.
SPECIFICATION FairSpec
PROPERTY GoneReconnects
