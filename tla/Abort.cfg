SPECIFICATION FairSpec
CONSTANTS
  one = one
  two = two
  Job = {one, two}
  NoJob = NoJob
  first = first
  second = second
  Request = {first, second}
  MaxInterrupts = 1
INVARIANTS TypeOK LiveJobReachable
PROPERTIES AbortEnds
