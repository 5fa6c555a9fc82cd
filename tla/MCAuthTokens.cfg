\* A request admitted before the password changes, committed after.
CONSTANTS
  w1 = w1
  w2 = w2
  g1 = g1
  g2 = g2
  Workers <- MCWorkers
  Ids <- MCIds
  Unbound = Unbound
  MaxPasswords = 3
  MaxCreds = 3
  MaxSettings = 3
  MaxFlows = 2
SPECIFICATION AuthSpec
SYMMETRY MCSymmetry
INVARIANT TokensCurrent
