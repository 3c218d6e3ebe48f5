SPECIFICATION FairSpec
CONSTANTS
  PingTimeout = 5
  PingRetries = 10
  PingBackoff = 2
  AttemptTimes = {0, 3}
  Times = {0, 1, 4, 5, 9}
  Never = Never
  Envs <- MCEnvs
  OddEnvs <- MCOddEnvs
  Calls <- MCCalls
\* A program that has ended or given up does nothing more.
CHECK_DEADLOCK FALSE
INVARIANTS TypeOK BacksOff ServesWhenReady EndsForAReason ClosedInOrder LastOptionWins RoutesAsRegistered
PROPERTIES Decides
