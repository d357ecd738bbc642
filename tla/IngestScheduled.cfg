SPECIFICATION FairSpec
CONSTANTS
  u1 = u1
  u2 = u2
  a1 = a1
  a2 = a2
  Urls = {u1}
  Ats = {a1}
  AtsOf <- OneAts
  Daily = {daily}
  Polls = {poll}
  Startups = {startup}
  Manual = {}
  Cli = {}
  Filters = {}
  Forces = {FALSE}
  Catalogs <- Histories
  Expirable = {}
  Scrapable = {u1}
  MaxVersion = 2
  MaxAge = 0
  MaxMissed = 2
  MaxAtsFailures = 0
  MaxFailures = 1
INVARIANTS TypeOK FlagNeedsAbsence
PROPERTIES OncePerVersion 
