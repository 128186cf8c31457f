SPECIFICATION Spec
CONSTANTS
  main = main
  savings = savings
  dollars = dollars
  extra = extra
  card = card
  r1 = r1
  r2 = r2
  x1 = x1
  x2 = x2
  NoRule = NoRule
  NoAccount = NoAccount
  Checking = {main, dollars, extra}
  Main = main
  Savings = savings
  Custom = {dollars, extra}
  Foreign = {dollars, extra}
  Cards = {card}
  RuleIds = {r1}
  TransferIds = {x1}
  Amounts = {2}
  AnchorDays = {2}
  Rate = 2
  Opening = 2
  Growth = 2
  RecentCap = 1
  MaxOccurrences = 2
  MaxTransactions = 5
  LongMonth = 2
  ShortMonth = 1
  MaxDays = 3
SYMMETRY
  CustomSymmetry
INVARIANTS
  StateParses
  MaterializationSettles
  MirrorAgrees
  InterestSettledFirst
