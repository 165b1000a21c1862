SPECIFICATION Spec
CONSTANTS
  None = None
  w1 = w1
  w2 = w2
  n1 = n1
  n2 = n2
  n3 = n3
  n4 = n4
  a = a
  b = b
  t1 = t1
  t2 = t2
  t3 = t3
  Workflows = {w1, w2}
  Nodes = {n1, n2, n3, n4}
  Names = {a, b}
  Transitions = {t1, t2, t3}
SYMMETRY Symmetric
INVARIANTS GraphsAreSeparate GraphIsAsAsked
