SPECIFICATION Spec
CONSTANTS
  c1 = c1
  c2 = c2
  east = east
  west = west
  PhoneCells <- PhoneCell
  ZoneCells = {"east", " west ", "Mars/Base", ""}
  StripPhone <- PhoneOfCell
  StripZone <- ZoneOfCell
  Phones = {1, 2, 3}
  NoPhone = NoPhone
  Zones = {east, west}
  Campaigns = {c1, c2}
  NoCampaign = NoCampaign
  Files <- AllFiles
  NoFile = NoFile
  Lambdas = {l1, l2}
  MaxUploads = 2
  MaxTries = 2
  MaxConcurrency <- OneSlotEach
SYMMETRY Interchangeable
PROPERTY
  IngestsAtomically
INVARIANTS
  IntakeTypeOK
  OneContactPerPhone
  ContactsAreCallable
  UploadsAreIngested
  ParsersAgree
  HandlersNeverDeadlock
  SlotsWithinCapacity
  FunnelWithinTotals
