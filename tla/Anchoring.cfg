SPECIFICATION Spec
CONSTANTS
  Wallets = {w1, w2}
  HighSig = {h1}
  Stamp <- Stamps
  MaxRange = 2
  MaxBatch = 2
  MaxSeq = 4
  MaxTxs = 5
  MaxFaults = 2
INVARIANTS Coverage ChainFollowsRows ReconciledMeansAgree OneTxPerFault
PROPERTY StaysWedged
CHECK_DEADLOCK FALSE
