SPECIFICATION PauseFairSpec
CONSTANTS
  Callers = {c1, c2}
INVARIANTS
  NoLostContinue
  OverrunBounded
PROPERTIES
  ContinueResumes
