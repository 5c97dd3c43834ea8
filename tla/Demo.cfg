\* The routine counts up to 28: past 9 and 25, which only the last divisor that
\* isPrime tries finds out.
CONSTANTS
  Limit = 28
  Stride = 10
  Nobody = Nobody
SPECIFICATION Spec
INVARIANT TypeOK
INVARIANT SuspendedBetween
INVARIANT CountsPrimes
PROPERTY MenuComesBack
PROPERTY JoinsWhatRuns
CHECK_DEADLOCK FALSE
