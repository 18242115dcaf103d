CONSTANTS
  t1 = t1
  t2 = t2
  a = a
  b = b
  x = x
  y = y
  u1 = u1
  u2 = u2
  u3 = u3
  o1 = o1
  o2 = o2
  i1 = i1
  i2 = i2
  j1 = j1
  j2 = j2
  f = f
  g = g
  manager = manager
  worker = worker
  user = user
  front = front
  article = article
  video = video
  sitemap = sitemap
  anna = anna
  box = box
  form1 = form1
  form2 = form2
  near = near
  far = far
  bella = bella
  space = space
  letter = letter
  None = None
  Requests = {t1, t2}
  Candidates = {1, 2}
  CheckedHosts = {a}
  Inspectors = {i1, i2}
  Managers = {manager}
  ScoreCommands <- NewFeatures
  ScoreFindings <- FoundFeatures
  Observations <- SeenPages
  Adjustments <- ManualAdjustments
  MaxScoreTime = 3
  Jobs = {j1, j2}
  ImportHosts = {a, b}
  Names = {x, y}
  Files <- ImportedFiles
  Accounts = {u1, u2, u3}
  Founders = {u1, u2}
  MaxUserVersion = 2
  Opportunities = {o1, o2}
  Publishers = {manager}
  MaxProcessVersion = 3
  Week = 2
  Due = 1
  MaxTime = 4
  Requested <- RequestedReports
  ReportFormulas = {f, g}
  Scheduled = f
  Worker = worker
  Processes = {worker, user}
  FrontPage = front
  Links = {article, video}
  Videos = {video}
  Documents = {sitemap}
  Rules <- RobotsRules
  Findings <- PageFindings
  Players <- PlayersFound
  Feeds <- DatedFeeds
  VisitsTold = {}
  Regions = {a}
  Directors <- Heads
  MaxLinked = 2
  MaxRendered = 2
  Contents = {form1, form2}
  MaxIntent = 3
  MaxRequest = 3
  EditorPages = {"users", "settings", "candidate", "stage"}
  Items = {1, 2}
  MaxRowVersion = 3
  MaxFetch = 2
  Reported = {1, 2}
  Stages = {"S2"}
  WeekDays = 1
  Weeks = 1
  Stall = 1
  HighStall = 2
  HighOverdue = 2
  Top = 1
  DigestSize = 3
  MaxDay = 2
  Listed = {1, 2, 3}
  OrganizationOf <- PartnerOf
  ScoreOf <- ScoresOf
  Changing = {1, 2}
  Placed = {a}
  PageLimit = 1
  MaxTask = 2
  Keys = {i1, i2}
  QueueCommands <- TaskCommands
  PartnerScore = 80
  Acted = {1}
  MaxDue = 3
  LastDay = 2
  Users = {u1}
  Local = u1
  TeamOf <- Teams
  ScopedOrganizations = {a}
  OwnerOf <- Owner
  DealOwner <- OpportunityOwner
  UserRequests = {i1}
  Term = 1
  MaxSessionTime = 1
  MaxBoots = 2
  SourcingHosts = {a, b}
  InlineSeeds <- SeedUrls
  InFile <- SeedFile
  LinksOf <- LinksBetween
  Excluded = {}
  MaxNew = 1
  MaxSites = 1
  MaxDomains = 1
  RankedHosts = {a}
  Ranks = {90, 2000000}
  Counts <- DailyVisits
  Ttl = 2
  Pause = 2
  MaxMoment = 2
  Urls = {front, article, video, box}
  RefusedUrls = {box}
  Public = {near}
  Private = {far}
  Documented = {video}
  Frames <- EmbeddedFrames
  HttpStatuses = {200, 302, 403, 404}
  MaxRedirects = 1
  Number = "own"
  OfPerson = FALSE
  Keyed = TRUE
  Leads <- KnownLeads
  Rows <- RegisterRows
  Persons = {anna, bella}
  EntityRegions = {a, b}
  MaxPolls = 3
  Header <- Columns
  FieldOf <- FieldsOf
  Required = {"organization_name", "domain"}
  TableRows <- Cells
  MaxRows = 1
  MaxTable = 2
  MaxText = 60
  Space = space
  Letters = {letter, x, y}
  Lists <- RenderedLists
  RenderedHosts = {a}
  Blocked = {}
  MaxPages = 2
  MaxLaunches = 2
  MaxToken = 2
  MaxPromise = 4
  MaxSync = 1
SYMMETRY Symmetry
SPECIFICATION Spec
\* Every part stops at its bounds.
CHECK_DEADLOCK FALSE
INVARIANTS
  TypeOK
  OverlapsAreSafe
  DecidedScoreWasSeen
  InspectionIsSound
  FormsAreSafe
  ReadsAreComplete
PROPERTIES
  ImplementsTwins
