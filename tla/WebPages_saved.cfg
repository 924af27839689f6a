CONSTANTS
  Nobody = Nobody
  Nothing = Nothing
  Mine = Mine
  ann = ann
  root = root
  l1 = l1
  hd = hd
  HD = HD
  c1 = c1
  c2 = c2
  w1 = w1
  w2 = w2
  w3 = w3
  t1 = t1
  t2 = t2
  t3 = t3
  s1 = s1
  s2 = s2
  s3 = s3
  h1 = h1
  h2 = h2
  f1 = f1
  f2 = f2
  u1 = u1
  u2 = u2
  p1 = p1
  r1 = r1
  r2 = r2
  Gone = Gone
  MaxAsked = 2
  MaxSent = 3
  Accounts = {ann, root}
  Admins = {root}
  Links = {l1}
  Tags = {hd, HD}
  Alike = {hd, HD}
  Categories = {c1, c2}
  Workers = {w1, w2}
  Hosted <- TwoHosted
  Torrents = {t1, t2, t3}
  Statuses = {s1, s2}
  Matching = {t1, t2}
  FirstRows = 1
  PerLoad = 1
  PageSizes = {1, 2}
  Releases = {r1, r2}
  Guess <- SomeGuesses
  Vague = {}
  Prefers <- OnePreference
  Files = {f1, f2}
  Urls = {u1, u2}
  Peers = {p1}
  Labels = {c1}
  Hosts = {w1}
  Selected = {t1, t2}
  MaxLimit = 1
  Schedules = {s1, s2, s3}
  MaxSchedules = 2
  MaxLogs = 2
  Watched = {w1, w2, w3}
  Lanes = 2
  Swatches = {c1, c2}
  Cached <- PlainColors
  ManyAsked = 3
  Sends <- SomeSends
SPECIFICATION EditingSpec
INVARIANT SavedIsStored
CHECK_DEADLOCK FALSE
