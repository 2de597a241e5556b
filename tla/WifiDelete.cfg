SPECIFICATION Spec
CONSTANTS
  Mac = {m1, m2}
  Data = {d1, d2}
  MaxWifis = 3
PROPERTY DeleteDeletes
