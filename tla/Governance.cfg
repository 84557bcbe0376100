SPECIFICATION Spec
CONSTANTS
  a1 = a1  a2 = a2  a3 = a3  p1 = p1  p2 = p2  d1 = d1
  Accounts = {a1, a2, a3}
  Pillars = {p1, p2}
  Dossiers = {d1}
  NoAccount = NoAccount
  NoPillar = NoPillar
  QUORUM_REQUIRED = 2
  VOTE_WINDOW = 1
  REVEAL_DELAY = 1
  MaxProposals = 2
  MaxTime = 4
  MaxRotations = 1
  MaxCommits = 1
SYMMETRY Council
INVARIANTS MirrorsAgree TallyIsVotes PillarQuorum
PROPERTY DecidedForGood
CHECK_DEADLOCK FALSE
