CONSTANTS
  MaxPublish = 1
  Queries <- MCQueries
  Files <- MCFiles
  Numbers <- MCNumbers
SPECIFICATION Spec
PROPERTIES
  DisconnectDeallocates
