SPECIFICATION Spec
CONSTANTS
  c1 = c1
  Nobody = Nobody
  MaxFd = 3
  MaxWeight = 2
  Servers <- MCServers
  Clients <- MCClients
  Objects <- MCObjects
  VidHash <- MCVidHash
  ObjHash <- MCObjHash
INVARIANTS
  RingExact
  FdTableExact
  RoutedToOwner
PROPERTY StickyRouting
