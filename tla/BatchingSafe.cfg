SPECIFICATION Spec
CONSTANTS
  u1 = u1
  u2 = u2
  s1 = s1
  s2 = s2
  b1 = b1
  b2 = b2
  Url = {u1, u2}
  Story = {s1, s2}
  Near <- NearSame
  Batch = {b1, b2}
  NoBatch = NoBatch
  Legacy = {}
  NoPage = NoPage
  MaxInterrupts = 1
SYMMETRY Interchangeable
INVARIANTS TypeOK CountsMatch DistinctNews OneLogPerItem
           OneLogPerBatch NoStrandedItem EveryCandidateOwned
PROPERTIES ParityMeansAll ImplementsStream
