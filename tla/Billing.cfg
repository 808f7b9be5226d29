CONSTANTS
  Subscriptions = {s1, s2}
  Named = {s1}
  Creators = {c1}
  FreeQuota = 1
  MaxAccounts = 2
  MaxEvents = 3
  MaxReports = 3
  MaxMishaps = 1
SPECIFICATION FairBillingSpec
INVARIANTS NothingWithoutPurchase PlanFollowsRows
PROPERTIES EventsAreAnswered
