SPECIFICATION Spec
CONSTANTS
  Workers = {w1, w2}
  MaxResults = 2
INVARIANT
  SubmitFindsHandler
