SPECIFICATION Spec
CONSTANTS
  Parts = {"skills"}
  f = f
  xf = xf
  Paths <- MCPaths
  Contents = {x, y}
  Absent = Absent
  Ignored = {}
  LastField <- EndsWithF
  Callers = {a, b}
  MaxSnapshots = 2
  Publishers = {p, q}
  EventsEach = 2
  Watchers = {v, w}
  FeedCap = 1
  Ended = 4
  Statuses = {"completed", "failed"}
  MaxRuns = 3
  MostPerPage = 2
  Queries <- MCQueries
  Writers = {r, s}
  MaxSessions = 1
  MaxWrites = 2
  MaxSecond = 1
  Topics <- MCTopics
  LineBytes <- MCLineBytes
  Header <- MCHeader
  MaxLines = 5
  MaxBytes = 13
  Keepers = {k, l}
  Plain = {"turns"}
  Optional = {"memory"}
  Flags = {"disabled"}
  Defaults <- MCDefaults
  Values = {"v", "w"}
  Zero = "zero"
  Unset = "unset"
  Files <- MCFiles
  Environ = {"turns", "memory"}
  Bad = "bad"
  Protocols = {"anthropic", "openai", "google"}
  Replies <- MCReplies
  Skills = {"skill"}
  SearchPaths = 2
  Users = {t, u}
INVARIANT
  AlreadyMeansDelivered
CHECK_DEADLOCK FALSE
