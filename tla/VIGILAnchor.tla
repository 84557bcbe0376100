----------------------------- MODULE VIGILAnchor -----------------------------
(***************************************************************************)
(* The contract VIGILAnchor (contracts/contracts/VIGILAnchor.sol): an      *)
(* append-only list of commitments, each to a range of the audit chain,    *)
(* written by one wallet.  The root of a commitment is a function of its   *)
(* range (rows of the chain are never rewritten) and is left out.          *)
(***************************************************************************)
EXTENDS Naturals, Sequences

CONSTANTS
  Wallets,
  MaxRange   \* MAX_RANGE_PER_COMMIT

ASSUME ContractAssumption == MaxRange \in Nat \ {0}

VARIABLES
  commitments,  \* _commitments, in order
  lastToSeq,
  committer

contractVars == <<commitments, lastToSeq, committer>>

ContractInit ==
  /\ commitments = << >> /\ lastToSeq = 0
  /\ committer \in Wallets

(* Mutant: the guard before the first commit was anchored to seq 1.        *)
ContiguousAfterFirst(from) == lastToSeq # 0 => from = lastToSeq + 1

(* The range starts where the last one ended, the first one at 1.          *)
ContiguousRange(from) == IF commitments = << >> THEN from = 1 ELSE from = lastToSeq + 1

CanCommit(w, from, to) ==
  /\ w = committer
  /\ from <= to /\ to - from + 1 <= MaxRange
  /\ ContiguousRange(from)

Commit(w, from, to) ==
  /\ CanCommit(w, from, to)
  /\ commitments' = Append(commitments, [from |-> from, to |-> to, by |-> w])
  /\ lastToSeq' = to
  /\ UNCHANGED committer

RotateCommitter(w) ==
  /\ w # committer /\ committer' = w
  /\ UNCHANGED <<commitments, lastToSeq>>

ContractNext ==
  \E w \in Wallets :
    \/ RotateCommitter(w)
    \/ \E from, to \in Nat : Commit(w, from, to)

ContractSpec == ContractInit /\ [][ContractNext]_contractVars

-----------------------------------------------------------------------------
(* "Monotonic": the commitments divide 1..lastToSeq between them, so every *)
(* row up to the last is covered once and none after it.                   *)
Coverage ==
  /\ \A i \in 1..Len(commitments) :
       /\ commitments[i].from = (IF i = 1 THEN 1 ELSE commitments[i - 1].to + 1)
       /\ commitments[i].to \in commitments[i].from..(commitments[i].from + MaxRange - 1)
  /\ lastToSeq = (IF commitments = << >> THEN 0 ELSE commitments[Len(commitments)].to)
=============================================================================
