SPECIFICATION FairScanSpec
CONSTANTS
  Uploads = {u1}
  MaxPages = 1
  Sheets = {s1}
  NoSheet = NoSheet
  MaxPrints = 1
  Hosts = {h1}
  Desks = {}
  MaxSubmits = 1
  MaxTries = 2
PROPERTY UploadIsSettled
CHECK_DEADLOCK FALSE
