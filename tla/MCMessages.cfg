SPECIFICATION Spec
CONSTANTS
  Offers <- SomeOffers
  Random <- SomeRandom
  Answers <- SomeAnswers
  KeyKinds <- SomeKeyKinds
  Damages <- SomeDamages
  Parseable <- SomeParseable
INVARIANTS
  OfferSurvives
  ReadingIsExact
  SlicesInRange
  GoesOnWithTheServers
CHECK_DEADLOCK FALSE
