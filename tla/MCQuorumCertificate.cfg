\* Three organs, a policy of two of three, two actions and two changes on the way.
SPECIFICATION Spec
CONSTANTS
  o1 = o1
  o2 = o2
  o3 = o3
  a1 = a1
  a2 = a2
  Organ <- MCOrgan
  Trusted <- MCOrgan
  Unhashable = Unhashable
  Action = {a1, a2}
  NoAction = NoAction
  Threshold = 2
  N = 3
  Policy <- MCPolicy
  Undeclared = Undeclared
  MaxOrgans = 3
  MaxElsewhere = 2
  MaxFaults = 2
INVARIANTS
  TypeOK
  CanonicalIsEarned
  GenuineQuorumSurvives
  ProposerAndVerifierAgree
SYMMETRY MCSymmetry
CHECK_DEADLOCK FALSE
