SPECIFICATION Spec
CONSTANTS
  counter = counter
  price = price
  input = input
  note = note
  letter = letter
  due = due
  flag = flag
  left = left
  right = right
  total = total
  total_fee = total_fee
  asset = asset
  amount = amount
  order = order
  IntMax = 3
  AmountMax = 5
  UintMax = 7
  DecimalMax = 15
  Scale = 2
  Rest <- NoRest
  Values <- MCValues
  Conditions <- MCConditions
  Depth <- MCDepth
  Submitted <- MCJobs
  Inputs <- MCInputs
  Answers <- MCAnswers
  Selectors <- MCSelectors
  MaxTime = 2
  MaxRuns = 4
  Probes <- NoProbes
INVARIANT
  NestedPathsFollowed
