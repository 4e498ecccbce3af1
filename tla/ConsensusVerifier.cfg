SPECIFICATION Spec
CONSTANTS
  NodeA = NodeA
  NodeB = NodeB
  NodeC = NodeC
  Outsider = Outsider
  ZERO = ZERO
  Address <- MCAddress
  expected_signers <- MCExpected
  threshold = 2
  Signature <- MCSignature
  MaxSigs = 4
INVARIANTS
  AnswerCountsDistinctNodes
  RevertsExactlyOnMalformed
  MockAgrees
CHECK_DEADLOCK FALSE
