CONSTANTS
  High = High
  Main = Main
  Consumer = Low
  NoThread = NoThread
  Producers <- MCProducers
  Clearers <- MCClearers
  MaxAdds = 3
SPECIFICATION FairSpec
INVARIANTS
  TypeOK
  NoLostUpdate
  NoLostWakeup
  NullOnlyAfterClear
  PeekedIsNext
PROPERTIES
  FifoSpec
  EventuallyDrained
