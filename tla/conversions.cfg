SPECIFICATION MCSpec
CONSTANTS
  c1 = c1
  c2 = c2
  Machines = {"cells", "wire", "edges", "durations", "datetimes", "values", "types"}
  Thread = {t1, t2, t3}
  Cell <- MCCells
  Idle = Idle
  Invoked <- MCRequests
  Half = 2
  MaxWrites = 1
  Radix = 2
  Catalogue <- SoundCatalogue
  TypeBits = 2
  Types = {1}
  Nodes = {1, 2}
  Ranks = {0}
  Graphs = {0}
  MaxHeld = 2
  MicrosOfMilli = 1
  MillisOfSecond = 2
  SecondsOfMinute = 2
  MinutesOfHour = 2
  HoursOfDay = 2
  DaysOfMonth = 2
  MonthsOfYear = 2
  EpochYear = 5
  MicroBits = 2
  Offset <- MCOffset
  Amounts <- MCAmounts
  Stamps <- MCStamps
  Longest = 36
  MostMonths = 4
  ByteBits = 2
  BasicTypes = {"Bytes", "String", "Invalid", "Null", "Bool", "Duration", "Date", "LocalTime", "ZonedTime", "LocalDatetime", "ZonedDatetime", "Int32", "Float64"}
  Operands = {"String", "Date", "LocalTime"}
  FieldNames = {1}
  MaxMade = 17
  MaxClones = 1
INVARIANT SizesExact
INVARIANT RoundTrip
INVARIANT OneIdPerEdge
INVARIANT SeenFromBothEnds
INVARIANT DurationExact
INVARIANT MomentsOrdered
INVARIANT NumberKept
INVARIANT ValueFitsItsKind
INVARIANT CloneKeepsShape
INVARIANT SupertypeIsInclusion
PROPERTY Atomic
PROPERTY CallsEnd
CHECK_DEADLOCK FALSE
