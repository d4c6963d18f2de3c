SPECIFICATION FairSpec
CONSTANTS
  ann = ann
  bob = bob
  w1 = w1
  Nobody = Nobody
  Syncer = Syncer
  Names <- TwoNames
  Workers <- OneWorker
INVARIANTS
  DocumentNamesSpeakers
PROPERTIES
  KeepsGivenSpeaker
  EventuallyChecked
CHECK_DEADLOCK FALSE
