SPECIFICATION FairSpec
CONSTANTS
  NumAccounts = 1
  m1 = m1
  m2 = m2
  Models = {m1, m2}
  Seed = {m2}
  Discoverers = {d1, d2}
  d1 = d1
  d2 = d2
  Roles <- MCRoles
  FirstOffer <- MCFirstOffer
  Offers <- MCOffers
  MaxEvents = 2
CHECK_DEADLOCK FALSE
INVARIANTS TypeOK  PromotedLosesHeader
PROPERTY ListConverges
