SPECIFICATION Spec
CONSTANTS
  Executor = {e1}
  MaxWifis = 1
  MaxTry = 2
PROPERTY GpsModeKeepsLocating
CHECK_DEADLOCK FALSE
