SPECIFICATION Spec
CONSTANTS
  IntMax = 7
  UintMax = 15
  NULL = NULL
  Decimal <- MCDecimal
  GitHubRequests <- MCGitHubRequests
  GitLabRequests <- MCGitLabRequests
INVARIANTS TypeOK RowIsTheRequest LostExactly ForeignRows
\* A request ends when it is refused, lost or stored.
CHECK_DEADLOCK FALSE
