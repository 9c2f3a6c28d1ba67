SPECIFICATION Spec
CONSTANTS
  Mant = 2
  Exps = 8
  X = 8
  UMax = 15
  MinExp10 <- CMinExp10
  MaxExp10 = 1
  ExpLimit = 2
  Inline = 3
  B = 4
  LinearScanLimit = 2
  Seeds = 2
  DenseSpan = 4
  KeyMax = 7
  Inputs <- CInputs
INVARIANTS
  Utf8Exact
  BytesRoundTrip
  HalfNearest
  StringsRead
  NumbersScanned
  HeadsCanonical
  TypedArrayTravels
  LookupFinds
CHECK_DEADLOCK FALSE
