\* Two users and two requests; one run of an app, one of the Lab, two exports
\* at a time; two runs behind a link; two runs of four spans; two variants;
\* every state a release left a database in, and two copies of one.
SPECIFICATION ServiceSpec
CONSTANTS
  Users = {u1, u2}
  Projects = {main, side}
  Default = main
  Teams = {t}
  Tokens = {k}
  Requests = {q1, q2}
  NoProject = NoProject
  NoToken = NoToken
  NoUser = NoUser
  Given = {3}
  MaxDecided = 1
  MaxChanges = 1
  a1 = a1
  l1 = l1
  i1 = i1
  p1 = p1
  AppRuns = {a1}
  LabRuns = {l1}
  Exps = {e1}
  Spans = {i1}
  Points = {p1}
  Sources <- MCSources
  LabSource <- MCLabSource
  Exports <- MCExports
  Handlers = {h1, h2}
  NoRun = NoRun
  NoExp = NoExp
  Ids = {d1, d2}
  Homes = {p, q}
  Links = {k1}
  Viewers = {v1, v2}
  NoHome = NoHome
  MaxViews = 2
  SpanIds = {1, 2, 3}
  Names = {n1, n2}
  NoParent = NoParent
  MaxSpans = 4
  Variants = {x, y}
  Medians = {0, 2, 3, 5}
  MaxTrials = 3
  CopyRuns = {x1, x2}
  MaxCopies = 2
INVARIANTS WriteWasAllowed
PROPERTIES RolesAreEarned RowsAreKept LinksAreSafe ComparisonsExact
SYMMETRY MCSymmetry
\* Requests and exports are finished, and every count is bounded.
CHECK_DEADLOCK FALSE
