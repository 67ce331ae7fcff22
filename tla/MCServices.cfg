\* Three calls of the verifier around a restart; two experiments around a crash; two writers of
\* two digests; two keys under a short lifetime; two quotes and two consumers.
SPECIFICATION MCSpec
CONSTANTS
  Handlers = {h1, h2, h3}
  NoHandler = NoHandler
  MaxRestarts = 1
  Attempts = {a1, a2}
  NoAttempt = NoAttempt
  MaxCrashes = 1
  Writers = {w1, w2}
  Digests = {d1, d2}
  MaxAttempts = 2
  MaxPuts = 3
  SigningKeys = {k1, k2}
  NoKey = NoKey
  Lifetime = 4
  RefreshEvery = 2
  FetchTime = 1
  MaxClock = 9
  Events = 2
  Altered = Altered
  Consumers = {c1, c2}
  Nobody = Nobody
  Budget = 2
  MaxLog = 4
  MaxRuns = 3
SYMMETRY Symmetry
CHECK_DEADLOCK FALSE
INVARIANTS OneEngine VerdictsAreEarned MountOutlivesContainer ConfirmedIsGone ResultsAreCoherent
  RetiredKeysLapse CommittedIsJournaled
PROPERTIES PutsKeepThePromise
