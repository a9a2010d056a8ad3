SPECIFICATION PlatformSpec
CONSTANTS
  r1 = r1
  r2 = r2
  r3 = r3
  m1 = m1
  Readers = {"r1"}
  Editors = {"e1", "e2"}
  Contacts = {"owner", "ghost"}
  Symbols = {"tol"}
  Declared = {"owner", "tol"}
  Values = {"v1", "v2"}
  Valid = {"v1", "v2"}
  Bodies <- MCBodies
  Key = "pdf"
  Corpora <- MCCorpora
  MaxMishaps = 1
  Cases = {"c1", "c2", "c3"}
  TypeOf <- MCType
  SupplierOf <- MCSupplier
  AmountOf <- MCAmount
  Lengths = {1, 2}
  OwnedTypes = {"A"}
  MaxExemplars = 1
  MaxPrecedents = 2
  MaxBuilds = 2
  MaxFailures = 1
  MaxTurns = 4
  Vendors = {"a", "b", "c", "d"}
  Supplier = "a"
  MaxDepth = 2
  Spellings <- MCSpellings
  Texts <- MCTexts
  Records <- MCRecords
  None = None
  WebhookSettings <- MCWebhookSettings
  MinLength = 10
  Feeds <- MCFeeds
  Config <- MCConfig
  MaxPolls = 2
  Runs = {r1, r2, r3}
  Posts = {m1}
  MaxTraces = 2
  MaxConcurrent = 3
  MaxFaults = 2
  Unsaid = Unsaid
  KeyOf <- MCKeyOf
  Columns = {"price", "qty"}
  Figures = {0, 1}
  Answers <- MCAnswers
  Payloads <- MCPayloads
  Proposals <- MCProposals
  MaxFields = 1
  MaxSteps = 3
  MaxAsides = 1
  Templates <- MCTemplates
  Secrets <- MCSecrets
  Page = 2
  MaxChanges = 3
  MaxOutages = 2
  AlwaysDeployed = {"backend"}
  Optional = {"sap-mcp"}
  Enabled = {"sap-mcp"}
  HomeOf <- MCHomeOf
  CredReaders = {"poller"}
  LocalDocs <- MCLocal
  StrayDocs <- MCStray
  MaxCommands = 2
  MaxBadLuck = 1
  Files = {"a", "b"}
  Chats = {"s1", "s2"}
  NoFile = "none"
  MaxRuns = 2
  MaxClicks = 2
  MaxTokens = 5
  Selectable <- MCSelectable
  Catalog <- MCCatalog
  Basic <- MCBasic
  Edited <- MCEdited
  Exported <- MCExported
  MaxDeploys = 3
  Operators = {"op1", "op2", "tf"}
  OnTerraform = {"tf"}
  Issuers <- MCIssuers
  MaxSeconds = 1
  MaxDrops = 1
  MaxTrouble = 3
  Items = {"x", "y"}
  Reports = {"complete", "awaiting_human_input"}
  PageLimit = 1
  Day = 1
  MaxInvocations = 2
  MaxMoments = 2
  MaxLosses = 1
  Parts = {"chat"}
CHECK_DEADLOCK FALSE
INVARIANT HistoryIsOfTheCase
