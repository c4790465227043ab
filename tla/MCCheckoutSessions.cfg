CONSTANTS
  payer = payer
  treasuryAccount = treasuryAccount
  router = router
  s1 = s1
  tab1 = tab1
  tab2 = tab2
  None = None
  Account <- Accounts
  Router = router
  Treasury <- OneTreasury
  Ref = {s1, s2}
  Amount <- Amounts
  Deadline <- NoDeadline
  Customer = payer
  Tab <- TwoTabs
  Session = {s1, s2}
  Price = 1
  Purse = 2
  PermitTTL = 0
  HasPermit = TRUE
  DemoEnabled = TRUE
  MinConfirmations = 1
  MaxPolls = 2
  MaxBoots = 3
  MaxMishaps = 0
  MaxClock = 1
SPECIFICATION CheckoutSpec
PROPERTIES NeverBlocked
CHECK_DEADLOCK FALSE
