CONSTANTS
  MaxPublish = 2
  Queries <- MCQueries
  Files <- MCFiles
  Numbers <- MCNumbers
SPECIFICATION Spec
INVARIANTS
  TypeOK
  ArgumentsAsGiven
  SettingsAsWritten
  HandleIsWhole
  LedgerByFailure
PROPERTIES
  NoJoinableThreadDestroyed
