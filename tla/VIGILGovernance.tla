--------------------------- MODULE VIGILGovernance ---------------------------
(***************************************************************************)
(* The contract VIGILGovernance (contracts/contracts/VIGILGovernance.sol): *)
(* the council's seats, one per pillar, the two-step opening of a proposal *)
(* (commitProposal, then openProposal after a delay) and the vote on it.   *)
(* Every call is one transaction; block.timestamp never decreases, and     *)
(* several calls share a block.                                            *)
(*                                                                         *)
(* A dossier stands for the <<findingHash, uri, salt>> that a commitment   *)
(* binds its sender to.                                                    *)
(***************************************************************************)
EXTENDS Naturals, Sequences, FiniteSets

CONSTANTS
  Pillars, Accounts, Dossiers,
  NoAccount,        \* account of a seat nobody ever held
  NoPillar,         \* pillar of an account never seated
  QUORUM_REQUIRED, VOTE_WINDOW, REVEAL_DELAY,
  MaxProposals,     \* bound: proposals opened
  MaxTime,          \* bound: block.timestamp
  MaxRotations,     \* bound: members removed
  MaxCommits        \* bound: commits of an account to a dossier

ASSUME GovernanceAssumption ==
  /\ NoAccount \notin Accounts /\ NoPillar \notin Pillars
  /\ QUORUM_REQUIRED \in Nat \ {0} /\ VOTE_WINDOW \in Nat /\ REVEAL_DELAY \in Nat
  /\ MaxProposals \in Nat /\ MaxTime \in Nat \ {0} /\ MaxRotations \in Nat
  /\ MaxCommits \in Nat

VARIABLES
  memberByPillar,   \* per pillar, its account and whether it holds the seat
  memberByAccount,  \* per account, its pillar and whether it holds the seat
  commitments,      \* per account and dossier, the time of the commit, or 0
  proposals,        \* in the order of their index
  votedChoice,      \* per proposal and account, 0 or the choice + 1
  now,              \* block.timestamp
  cast,             \* the VoteCast events
  turnover,         \* history: per proposal, the pillars vacated while it was open
  commits,          \* history: per account and dossier, commits made
  rotations         \* how much of the bound is spent

seats == <<memberByPillar, memberByAccount>>
vars  == <<seats, commitments, proposals, votedChoice, now, cast, turnover,
           commits, rotations>>

Indices == 1..MaxProposals

Yes     == 0
No      == 1
Abstain == 2
Recuse  == 3
Choices == {Yes, No, Abstain, Recuse}

NOT_VOTED == 0

IsMember(a) == memberByAccount[a].active = "yes"
Seated(p)   == memberByPillar[p].active = "yes"
IsOpen(i)   == i <= Len(proposals) /\ proposals[i].state = "open"

Init ==
  /\ memberByPillar  = [p \in Pillars |-> [account |-> NoAccount, active |-> "no"]]
  /\ memberByAccount = [a \in Accounts |-> [pillar |-> NoPillar, active |-> "no"]]
  /\ commitments = [a \in Accounts |-> [d \in Dossiers |-> 0]]
  /\ proposals = << >> /\ votedChoice = [i \in Indices |-> [a \in Accounts |-> NOT_VOTED]]
  /\ now = 1 /\ cast = {} /\ turnover = [i \in Indices |-> {}]
  /\ commits = [a \in Accounts |-> [d \in Dossiers |-> 0]] /\ rotations = 0

NextBlock ==
  /\ now < MaxTime /\ now' = now + 1
  /\ UNCHANGED <<seats, commitments, proposals, votedChoice, cast, turnover,
                 commits, rotations>>

-----------------------------------------------------------------------------
(* The council *)

(* Mutant: an account already on the council may take a second seat. *)
MaySeatAgain(a, p) == a \in Accounts /\ ~Seated(p)

(* PillarOccupied, AccountAlreadyMember. *)
MaySeat(a, p) == ~Seated(p) /\ ~IsMember(a)

AddMember(a, p) ==
  /\ MaySeat(a, p)
  /\ memberByPillar'  = [memberByPillar EXCEPT ![p] = [account |-> a, active |-> "yes"]]
  /\ memberByAccount' = [memberByAccount EXCEPT ![a] = [pillar |-> p, active |-> "yes"]]
  /\ UNCHANGED <<commitments, proposals, votedChoice, now, cast, turnover, commits, rotations>>

RemoveMember(p) ==
  /\ Seated(p) /\ rotations < MaxRotations
  /\ memberByPillar'  = [memberByPillar EXCEPT ![p].active = "no"]
  /\ memberByAccount' = [memberByAccount EXCEPT ![memberByPillar[p].account].active = "no"]
  /\ turnover' = [i \in Indices |-> IF IsOpen(i) THEN turnover[i] \union {p} ELSE turnover[i]]
  /\ rotations' = rotations + 1
  /\ UNCHANGED <<commitments, proposals, votedChoice, now, cast, commits>>

-----------------------------------------------------------------------------
(* Proposals *)

(* A second commit of the same dossier starts the delay again. *)
CommitProposal(a, d) ==
  /\ IsMember(a) /\ commits[a][d] < MaxCommits
  /\ commitments' = [commitments EXCEPT ![a][d] = now]
  /\ commits' = [commits EXCEPT ![a][d] = @ + 1]
  /\ UNCHANGED <<seats, proposals, votedChoice, now, cast, turnover, rotations>>

NewProposal(a, d) ==
  [dossier |-> d, proposer |-> a, state |-> "open", openedAt |-> now,
   closesAt |-> now + VOTE_WINDOW, yes |-> 0, no |-> 0, abstain |-> 0, recuse |-> 0]

OpenProposal(a, d) ==
  /\ IsMember(a) /\ Len(proposals) < MaxProposals
  /\ commitments[a][d] # 0 /\ now >= commitments[a][d] + REVEAL_DELAY
  /\ commitments' = [commitments EXCEPT ![a][d] = 0]
  /\ proposals' = Append(proposals, NewProposal(a, d))
  /\ UNCHANGED <<seats, votedChoice, now, cast, turnover, commits, rotations>>

(* Mutant: a proposal that is decided still takes votes. *)
MayVoteLate(a, i) ==
  /\ IsMember(a) /\ i <= Len(proposals)
  /\ now <= proposals[i].closesAt /\ votedChoice[i][a] = NOT_VOTED

MayVote(a, i) ==
  /\ IsMember(a) /\ IsOpen(i)
  /\ now <= proposals[i].closesAt /\ votedChoice[i][a] = NOT_VOTED

Counted(q, choice) ==
  [q EXCEPT !.yes     = @ + (IF choice = Yes THEN 1 ELSE 0),
            !.no      = @ + (IF choice = No THEN 1 ELSE 0),
            !.abstain = @ + (IF choice = Abstain THEN 1 ELSE 0),
            !.recuse  = @ + (IF choice = Recuse THEN 1 ELSE 0)]

(* Mutant: the vote that reaches a quorum is not looked at until the next. *)
DecidedBefore(q, choice) ==
  [Counted(q, choice) EXCEPT !.state = IF q.yes >= QUORUM_REQUIRED THEN "escalated"
                                       ELSE IF q.no >= QUORUM_REQUIRED THEN "dismissed" ELSE @]

(* The proposal after a vote: the tally, and the state the tally decides.  *)
Decided(q, choice) ==
  LET c == Counted(q, choice)
  IN  [c EXCEPT !.state = IF c.yes >= QUORUM_REQUIRED THEN "escalated"
                          ELSE IF c.no >= QUORUM_REQUIRED THEN "dismissed" ELSE @]

(* Mutant: a vote is stored as the choice itself. *)
StoredPlain(choice) == choice

(* A vote is stored as the choice + 1, 0 being no vote. *)
Stored(choice) == choice + 1

Vote(a, i, choice) ==
  /\ MayVote(a, i)
  /\ proposals' = [proposals EXCEPT ![i] = Decided(@, choice)]
  /\ votedChoice' = [votedChoice EXCEPT ![i][a] = Stored(choice)]
  /\ cast' = cast \union {[on |-> i, by |-> a, choice |-> choice,
                           pillar |-> memberByAccount[a].pillar]}
  /\ UNCHANGED <<seats, commitments, now, turnover, commits, rotations>>

(* settleExpiredProposal, by anyone. *)
Settle(i) ==
  /\ IsOpen(i) /\ now > proposals[i].closesAt
  /\ proposals' = [proposals EXCEPT ![i].state = "expired"]
  /\ UNCHANGED <<seats, commitments, votedChoice, now, cast, turnover, commits, rotations>>

Next ==
  \/ NextBlock
  \/ \E a \in Accounts, p \in Pillars : AddMember(a, p)
  \/ \E p \in Pillars : RemoveMember(p)
  \/ \E a \in Accounts, d \in Dossiers : CommitProposal(a, d) \/ OpenProposal(a, d)
  \/ \E a \in Accounts, i \in Indices, choice \in Choices : Vote(a, i, choice)
  \/ \E i \in Indices : Settle(i)

Spec == Init /\ [][Next]_vars

-----------------------------------------------------------------------------
(* What a Proposal of the contract holds.                                  *)
ProposalRecords ==
  [dossier : Dossiers, proposer : Accounts,
   state : {"open", "escalated", "dismissed", "expired"},
   openedAt : Nat, closesAt : Nat, yes : Nat, no : Nat, abstain : Nat, recuse : Nat]

(* Types; a commitment carries the time of a block that is past or current. *)
TypeOK ==
  /\ memberByPillar \in [Pillars -> [account : Accounts \union {NoAccount}, active : {"yes", "no"}]]
  /\ memberByAccount \in [Accounts -> [pillar : Pillars \union {NoPillar}, active : {"yes", "no"}]]
  /\ commitments \in [Accounts -> [Dossiers -> 0..now]]
  /\ proposals \in Seq(ProposalRecords) /\ Len(proposals) <= MaxProposals
  /\ votedChoice \in [Indices -> [Accounts -> Nat]]
  /\ now \in Nat \ {0}
  /\ cast \subseteq [on : Indices, by : Accounts, choice : Choices,
                    pillar : Pillars \union {NoPillar}]
  /\ turnover \in [Indices -> SUBSET Pillars]
  /\ commits \in [Accounts -> [Dossiers -> Nat]] /\ rotations \in Nat

(* "the two mirror mappings": a seat and its account name each other, so   *)
(* an account holds one seat and a seat has one account.                   *)
MirrorsAgree ==
  /\ \A p \in Pillars : Seated(p) =>
       /\ memberByPillar[p].account \in Accounts
       /\ memberByAccount[memberByPillar[p].account] = [pillar |-> p, active |-> "yes"]
  /\ \A a \in Accounts : IsMember(a) =>
       /\ memberByAccount[a].pillar \in Pillars
       /\ memberByPillar[memberByAccount[a].pillar] = [account |-> a, active |-> "yes"]

VotesOn(i) == {v \in cast : v.on = i}
Voters(i, choice) == {a \in Accounts : votedChoice[i][a] = choice + 1}

(* votedChoice, the VoteCast events and the tally say the same; the state  *)
(* is what the tally decides.                                              *)
TallyIsVotes ==
  \A i \in 1..Len(proposals) :
    LET q == proposals[i]
    IN  /\ q.yes = Cardinality(Voters(i, Yes)) /\ q.no = Cardinality(Voters(i, No))
        /\ q.abstain = Cardinality(Voters(i, Abstain))
        /\ q.recuse = Cardinality(Voters(i, Recuse))
        /\ Cardinality(VotesOn(i)) = q.yes + q.no + q.abstain + q.recuse
        /\ \A v \in VotesOn(i) : votedChoice[i][v.by] = v.choice + 1
        /\ (q.state = "escalated") <=> (q.yes = QUORUM_REQUIRED)
        /\ (q.state = "dismissed") <=> (q.no = QUORUM_REQUIRED)

(* "3-of-5 escalation quorum": votes are kept by account, so the accounts  *)
(* that decide a proposal speak for a quorum of pillars if no seat changed *)
(* hands while it was open.                                                *)
VotesFor(i, choice) == {v \in VotesOn(i) : v.choice = choice}

PillarsFor(i, choice) == {v.pillar : v \in VotesFor(i, choice)}

PillarQuorum ==
  \A i \in 1..Len(proposals) :
    turnover[i] = {} =>
      /\ proposals[i].state = "escalated" => Cardinality(PillarsFor(i, Yes)) >= QUORUM_REQUIRED
      /\ proposals[i].state = "dismissed" => Cardinality(PillarsFor(i, No)) >= QUORUM_REQUIRED

(* What it follows from: the seat that has voted votes again only after it *)
(* changed hands, ...                                                      *)
OneVotePerSeat ==
  \A v, u \in cast :
    v.on = u.on /\ v.pillar = u.pillar /\ v.pillar \notin turnover[v.on] => v = u

(* ... because whoever voted from it still holds it until then.            *)
VoterStillSeated ==
  \A v \in cast :
    v.pillar \notin turnover[v.on] /\ IsOpen(v.on) =>
      memberByPillar[v.pillar] = [account |-> v.by, active |-> "yes"]

(* A proposal that is decided or expired stays as it is: no vote, and no   *)
(* settlement, that comes later changes its tally or its state.            *)
DecidedForGood ==
  [][\A i \in 1..Len(proposals) : ~IsOpen(i) => proposals'[i] = proposals[i]]_vars

=============================================================================
