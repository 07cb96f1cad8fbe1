SPECIFICATION Spec
CONSTANTS Names <- FiveNames
          Apis <- SmallApis
INVARIANTS AcceptedBuilds RecursionExact NoTokenInPayload RejectedForAReason
PROPERTY Decides
\* An API is validated and built once.
CHECK_DEADLOCK FALSE
