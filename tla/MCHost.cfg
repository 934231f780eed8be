SPECIFICATION HostSpec
CONSTANTS
  SoftFree = 2
  HardFree = 1
  ReserveFree = 3
  SoftInodes = 2
  HardInodes = 1
  MaxManaged = 4
  HighPct = 75
  LowPct = 50
  MaxFree = 4
  MaxInodes = 3
  MaxLoad = 4
  ResLeases = {"l1"}
  CreateOrder <- MCCreateOrder
  MaxStops = 2
  BoxLeases = {"l1"}
  Subnets = {"a", "b"}
  MaxChanges = 2
  MaxRestarts = 1
  Dests = {"x"}
  Documents = {{}, {"x"}}
  Transfers = {"t1", "t2"}
  Slots = 2
  MaxInstalls = 1
  MaxPools = 2
  Width = 4
  BaselineDeny <- MCBaselineDeny
  Unreachable <- MCUnreachable
  LinkLocal <- MCLinkLocal
  Allows <- MCAllows
  DenyCIDRs <- MCDenyCIDRs
  HostSubnets <- MCHostSubnets
  MaxSets = 3
  MaxEnds = 3
INVARIANTS HostTypeOK
  OpenIsDurable
  BooksMatchHost
  ForceIsCarried
  GatewayAgrees
  PolicyIsSound
  OwnSetIsAccounted RefusedStaysRefused
PROPERTIES
  EmergencyEndsClear AdmissionReopens
  RemovalsAreSafe LeftoversGo
  AppearedIsDenied
  RevocationHolds
  BindingIsEnsured
CHECK_DEADLOCK FALSE
