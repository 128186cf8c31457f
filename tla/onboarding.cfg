SPECIFICATION FairSpec
CONSTANTS
  Names = {"tele", "ada"}
  TelegramName = "tele"
  Currencies = {"kzt", "usd"}
  Locales = {"en", "ru"}
  DefaultCurrency = "kzt"
  DefaultLocale = "en"
  Requests <- MCRequests
  MaxAttempts = 2
  NoUser = NoUser
  NoCard = NoCard
  NoBank = NoBank
  NoRequest = NoRequest
  MaxUpdates = 3
  MaxCrashes = 1
  MaxLaunches = 1
  MaxFaults = 1
INVARIANTS
  NameIntentSettled
  DeviceAgrees
PROPERTIES
  OnlyAskedFor
  EveryNameAnswered
