SPECIFICATION Spec
CONSTANTS
  u1 = u1
  u2 = u2
  a1 = a1
  a2 = a2
  Urls = {u1}
  Ats = {a1}
  AtsOf <- OneAts
  Daily = {}
  Polls = {}
  Startups = {}
  Manual = {manual}
  Cli = {cli}
  Filters = {{}}
  Forces = {TRUE}
  Catalogs <- AlwaysListed
  Expirable = {u1}
  Scrapable = {}
  MaxVersion = 1
  MaxAge = 1
  MaxMissed = 1
  MaxAtsFailures = 1
  MaxFailures = 1
PROPERTIES DropsNeverEscape
