SPECIFICATION FairSpec
CONSTANTS
  Orders = {o1, o2}
  NoOrder = NoOrder
  Variants = {month, year, life}
  month = month
  year = year
  life = life
  NoVariant = NoVariant
  Lifetime = {life}
  Price <- Prices
  Products <- OneEach
  Macs = {"m1"}
  NoMac = NoMac
  Buyer = Buyer
  Credits = 2
  AsyncThreshold = 1
  MaxQuantity = 2
  MaxAsks = 2
INVARIANTS TypeOK OnePurchasePerCard DeniedIsFree PageShowsItsOrder DialogIsHonest
PROPERTIES ReceiptIsEarned BoughtAsDisplayed OutcomeShown
