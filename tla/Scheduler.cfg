SPECIFICATION Spec
CONSTANTS
  a = a
  b = b
  c = c
  Tasks = {a, b, c}
  NoTask = NoTask
  MinPrio <- MinusOne
  MaxPrio = 1
SYMMETRY Prios
INVARIANTS
  TypeOK
  LoopSelectsFirstBest
  BoundedWait
  DynamicBounded
