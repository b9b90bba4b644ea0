SPECIFICATION MCSpec
CONSTANTS
  Bases <- B2
  Exchanges = {7}
  Keys <- K3
  Values <- V2
  MaxInitial = 3
  EventIds = {1, 2}
  Times <- T11
  MaxSeconds = 1
  SECOND = 10
  MILLIS = 16
  SEQUENCES = 4
  NANOS_IN_MILLIS = 2
  ExchangeCodes = {0, 65, 127}
INVARIANTS PartsAgree EventPartsAgree WordsAreOrdered QuotePartsAgree FlagsAgree
PROPERTY StaysCanonical
