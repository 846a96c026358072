SPECIFICATION Spec
CONSTANTS
  Offers <- SomeOffers
  Random <- SomeRandom
  Answers <- SomeAnswers
  KeyKinds <- SomeKeyKinds
  Damages <- SomeDamages
  Parseable <- SomeParseable
INVARIANT FramedReadsBack
CHECK_DEADLOCK FALSE
