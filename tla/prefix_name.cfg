SPECIFICATION Spec
CONSTANTS
  counter = counter
  price = price
  input = input
  note = note
  letter = letter
  due = due
  flag = flag
  left = left
  right = right
  total = total
  total_fee = total_fee
  asset = asset
  amount = amount
  order = order
  IntMax = 3
  AmountMax = 5
  UintMax = 7
  DecimalMax = 15
  Scale = 2
  Rest <- FeeRest
  Values <- FeeValues
  Conditions <- FeeConditions
  Depth <- MCDepth
  Submitted <- FeeJobs
  Inputs <- MCInputs
  Answers <- MCAnswers
  Selectors <- NoSelectors
  MaxTime = 2
  MaxRuns = 4
  Probes <- NoProbes
INVARIANT
  ReferenceIsVariable
