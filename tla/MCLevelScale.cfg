SPECIFICATION Spec
INVARIANTS PercentIsShare EchoClose ShownOrder RecallClose
