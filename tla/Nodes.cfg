SPECIFICATION MCSpec
CONSTANTS
  p1 = p1
  p2 = p2
  Editors <- Pair
  Lookers = {"a"}
  Types = {"mongo"}
  SchemaTTL = 2
  ErrorTTL = 1
  MaxTime = 2
  MaxRotations = 1
  Mask = "***"
  Blank = ""
  Agents <- Pair
  Grants <- MCGrants
  MaxIterations = 2
  Limit = 2
  PoolSize = 2
  ClientRetries = 1
  Asked <- MCAsked
  MaxReplyCalls = 2
  Runs = {"r"}
  Sources = {"ftp_folder", "sftp_folder", "s3_folder", "s3", "sftp", "fetch"}
  Folders <- MCFolders
  MaxSweeps = 2
  Dispatches <- Pair
  NodeKinds = {"sql_writer", "sql_nothing", "pdf", "excel", "csv", "email", "download", "pdf_inline",
               "bucket", "sftp_writer", "webhook", "notify", "state_set", "state_get",
               "sql", "mongo", "api_post", "mcp", "vector"}
  Items = 2
  Processing = {"rules", "simple_rules", "classifier", "llm", "merging", "extractor",
                "summarizer", "dedup_first", "dedup_last", "validator"}
  Modes = {"all", "each", "batch"}
  Inputs <- MCInputs
  BatchSize = 2
  Concurrency = 2
  Fanout = 3
  Budget = 5
  Threshold = 1
  Absent = "-"
  Missing <- MCMissing
  Names = {"a", "b"}
  Canvases <- MCCanvases
  Creations <- MCCreations
  MaxRounds = 2
  MaxTurnCalls = 2
  MaxTests = 2
  MaxMishaps = 1
  NodeRetries = 1
  RedisFaults = 1
  MediaFaults = 2
  EffectFaults = 2
  CallFaults = 2
SYMMETRY Symmetry
INVARIANTS ConnectionsSound AgentsSound MediaSound NodesSound ProcessorsSound AssistantSound
CHECK_DEADLOCK FALSE
