SPECIFICATION Spec
CONSTANTS
  Order <- MCOrder
  Family <- MCFamily
  Named <- MCNamed
  Tunnel <- MCTunnel
  Prefixable <- MCPrefixable
  Shapes <- MCShapes
  MAX_ACTIVE_VPNS = 1
  CacheMax = 1
  MaxChanges = 2
  MaxFailures = 1
INVARIANTS
  SpoofPairIsOneInterface
  PassPublishesOneView
PROPERTIES
  EventuallyPublished
  FilesEventuallyHidden
