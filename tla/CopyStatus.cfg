SPECIFICATION FairSpec
CONSTANTS
  Consumers = {copier, adder}
  MaxMail = 4
INVARIANTS
  FlagIsRight
  NeverDownForGood
PROPERTIES
  EndShown
