CONSTANTS
  a = a
  b = b
  c = c
  s1 = s1
  s2 = s2
  Paths = {a, b, c}
  Unopenable = {c}
  Slots = {s1, s2}
  MaxStreams = 2
  Word = 8
SPECIFICATION Spec
INVARIANTS CountsExact LoggersWritable
PROPERTIES NoTruncation
