\* Two sessions whose clocks differ, stand still, step back and run out of random
\* parts, over four transactions and restarts.
SPECIFICATION Spec
CONSTANTS
  Session = {s1, s2}
  MaxMs = 2
  MaxRandom = 1
  MaxDraws = 4
INVARIANTS TypeOK NoCoupling ReopenedInOrder
PROPERTY OwnOrder
CHECK_DEADLOCK FALSE
