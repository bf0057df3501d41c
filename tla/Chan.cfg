SPECIFICATION ChanSpec
CONSTANTS
  Takers = {t1, t2}
  Values = {a, b}
  Nothing = Nothing
  MaxQueue = 3
INVARIANT NoTakerForgotten
PROPERTY ImplementsFifo
