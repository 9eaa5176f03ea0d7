SPECIFICATION SchemasSpec
CONSTANTS
  Families <- MCFamilies
  MaxObjects = 4
INVARIANTS
  OrderIsIrrelevant
  SameSchemas
  ChannelsAreDecodable
CHECK_DEADLOCK FALSE
