SPECIFICATION FairLinkSpec
CONSTANTS
  Speeds <- MCSpeeds
  ppr_ = 4680
  pwm_freq_ = 20000
  DEADLINE = 2
  MaxCuts = 1
  NoiseBytes <- MCNoise
  REPEATS = 4
\* The destructor is the end.
CHECK_DEADLOCK FALSE
INVARIANT CommandsGetThrough
PROPERTIES
  NothingInvented
  ConstructorEnds
