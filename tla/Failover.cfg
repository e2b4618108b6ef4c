\* Two requests, one at most that is not a stream, over two backends.
CONSTANTS
  Backends = {b1, b2}
  Requests = {r1, r2}
  Forms <- MCForms
  Cooldowns = {1}
  NoBackend = NoBackend
  Settings <- MCSettings
  MinBackoff = 1
  MaxBackoff = 2
  DefaultThreshold = 3
  DefaultBackoff = 2
  ProbeEnabled = FALSE
  MaxFailures = 2

SPECIFICATION SpecAll

INVARIANTS
  TypeOKAll
  InFlightIsExact
  ExhaustedMeansAllTried
  UsageIsExact

PROPERTIES
  ServedByOne
  BreakerIsUsedAsSpecified
  AnswerComes

