SPECIFICATION Spec
CONSTANTS
  u1 = u1  k1 = k1  r1 = r1
  Uploads = {u1}
  CommitOf <- MCCommitOf1
  LinesAdded <- MCLinesAdded
  LinesByAI <- MCLinesByAI
  MaxRetries = 1
  NoteRetries = 3
  NoKey = NoKey
  Conns <- MCConns
  Legacy = {}
  Repos <- MCRepos
  Payload <- MCPayload
  DbFaults = FALSE
  Gateway = FALSE
INVARIANT StoredAtMostOnce
