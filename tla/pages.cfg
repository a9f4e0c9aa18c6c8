SPECIFICATION PagesSpec
CONSTANTS
  Threads = 2
  NoValue = NoValue
  ClientsClicks = 5
  UsersClicks = 1
  ShipmentsClicks = 2
  SmsClicks = 4
  ShipmentsFilters = {"all"}
  SmsFilters = {"all", "some"}
  SmsSearches = {"some"}
  MaxPages = 2
INVARIANTS PagesConsistent UsersEveryPasswordShown
PROPERTIES NeverAnOlderList PagesFreeAgain
\* The user may stop, and a page ends with its session.
CHECK_DEADLOCK FALSE
