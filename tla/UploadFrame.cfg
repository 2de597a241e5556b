\* The main thread and a wifi check upload at the same time.
CONSTANTS
  main = main  check = check
  Uploader = {main, check}
  Main = main
  Number = {50, 109}
  Text <- MCText
  N = 4
  Rounds = 6
  Modulus = 8
  Digest <- MCDigest
  MX <- MCMX
SPECIFICATION Spec
INVARIANTS TypeOK DecryptsOwnText ThrowNeedsOther
CHECK_DEADLOCK FALSE
