--------------------------- MODULE GovernanceProofs ---------------------------
(***************************************************************************)
(* Proofs about VIGILGovernance, for any council, any number of accounts   *)
(* and proposals and any rotation of the seats: the two seat tables agree, *)
(* a proposal that is closed stays as it is, and a proposal is decided by  *)
(* a quorum of pillars unless a seat changed hands while it was open.      *)
(***************************************************************************)
EXTENDS VIGILGovernance, FiniteSetTheorems, TLAPS

USE GovernanceAssumption DEF GovernanceAssumption

(***************************************************************************)
(* Type correctness.                                                       *)
(***************************************************************************)

LEMMA CountedType ==
  ASSUME NEW q \in ProposalRecords, NEW choice \in Choices
  PROVE  /\ Decided(q, choice) \in ProposalRecords
         /\ Decided(q, choice).yes = q.yes + (IF choice = Yes THEN 1 ELSE 0)
         /\ Decided(q, choice).no = q.no + (IF choice = No THEN 1 ELSE 0)
         /\ Decided(q, choice).state =
              (IF Decided(q, choice).yes >= QUORUM_REQUIRED THEN "escalated"
               ELSE IF Decided(q, choice).no >= QUORUM_REQUIRED THEN "dismissed" ELSE q.state)
<1> DEFINE One(c) == IF choice = c THEN 1 ELSE 0
<1>1. /\ Counted(q, choice) \in ProposalRecords
      /\ Counted(q, choice).yes = q.yes + One(Yes)
      /\ Counted(q, choice).no = q.no + One(No)
      /\ Counted(q, choice).state = q.state
  <2>1. PICK y \in Nat, n \in Nat, m \in Nat, r \in Nat :
          y = One(Yes) /\ n = One(No) /\ m = One(Abstain) /\ r = One(Recuse)
    OBVIOUS
  <2>2. PICK c : c = Counted(q, choice)
    OBVIOUS
  <2>3. c = [q EXCEPT !.yes = @ + y, !.no = @ + n, !.abstain = @ + m, !.recuse = @ + r]
    BY <2>1, <2>2 DEF Counted
  <2>4. c \in ProposalRecords /\ c.yes = q.yes + y /\ c.no = q.no + n /\ c.state = q.state
    <3>1. q.yes + y \in Nat /\ q.no + n \in Nat /\ q.abstain + m \in Nat /\ q.recuse + r \in Nat
      BY DEF ProposalRecords
    <3> QED BY <2>3, <3>1 DEF ProposalRecords
  <2> QED BY <2>1, <2>2, <2>4
<1>2. ASSUME NEW c \in ProposalRecords, NEW s \in {"open", "escalated", "dismissed", "expired"},
             NEW e, e = [c EXCEPT !.state = s]
      PROVE  e \in ProposalRecords /\ e.yes = c.yes /\ e.no = c.no /\ e.state = s
  BY <1>2 DEF ProposalRecords
<1>3. Counted(q, choice).state \in {"open", "escalated", "dismissed", "expired"}
  BY <1>1 DEF ProposalRecords
<1> DEFINE c == Counted(q, choice)
           s == IF c.yes >= QUORUM_REQUIRED THEN "escalated"
                ELSE IF c.no >= QUORUM_REQUIRED THEN "dismissed" ELSE c.state
<1>4. Decided(q, choice) = [c EXCEPT !.state = s]
  BY DEF Decided
<1>5. c \in ProposalRecords /\ s \in {"open", "escalated", "dismissed", "expired"}
  BY <1>1, <1>3
<1>6. /\ Decided(q, choice) \in ProposalRecords
      /\ Decided(q, choice).yes = c.yes /\ Decided(q, choice).no = c.no
      /\ Decided(q, choice).state = s
  <2>1. PICK k \in ProposalRecords, t \in {"open", "escalated", "dismissed", "expired"} :
          k = c /\ t = s
    BY <1>5
  <2>2. Decided(q, choice) = [k EXCEPT !.state = t]
    BY <2>1, <1>4
  <2>3. /\ Decided(q, choice) \in ProposalRecords /\ Decided(q, choice).yes = k.yes
        /\ Decided(q, choice).no = k.no /\ Decided(q, choice).state = t
    BY <1>2, <2>2
  <2> QED BY <2>1, <2>3
<1> QED BY <1>1, <1>6

(* The proposals after a vote: one counted, the others as they were. *)
LEMMA VoteParts ==
  ASSUME TypeOK, NEW a \in Accounts, NEW i \in Indices, NEW choice \in Choices,
         Vote(a, i, choice)
  PROVE  /\ i \in 1..Len(proposals) /\ proposals[i].state = "open" /\ IsMember(a)
         /\ votedChoice[i][a] = NOT_VOTED
         /\ proposals \in Seq(ProposalRecords) /\ proposals' \in Seq(ProposalRecords)
         /\ Len(proposals') = Len(proposals)
         /\ proposals[i] \in ProposalRecords /\ proposals'[i] = Decided(proposals[i], choice)
         /\ \A j \in 1..Len(proposals) : j # i => proposals'[j] = proposals[j]
<1>1. /\ i <= Len(proposals) /\ proposals[i].state = "open" /\ IsMember(a)
      /\ votedChoice[i][a] = NOT_VOTED
      /\ proposals' = [proposals EXCEPT ![i] = Decided(proposals[i], choice)]
  BY DEF Vote, MayVote, IsOpen
<1>2. proposals \in Seq(ProposalRecords) /\ i \in 1..Len(proposals)
  BY <1>1 DEF TypeOK, Indices
<1>3. proposals[i] \in ProposalRecords
  BY <1>2
<1>4. Decided(proposals[i], choice) \in ProposalRecords
  BY <1>3, CountedType
<1> QED BY <1>1, <1>2, <1>3, <1>4

LEMMA OpenParts ==
  ASSUME TypeOK, NEW a \in Accounts, NEW d \in Dossiers, OpenProposal(a, d)
  PROVE  /\ proposals \in Seq(ProposalRecords) /\ proposals' \in Seq(ProposalRecords)
         /\ Len(proposals') = Len(proposals) + 1 /\ Len(proposals') <= MaxProposals
         /\ proposals'[Len(proposals) + 1] = NewProposal(a, d)
         /\ \A j \in 1..Len(proposals) : proposals'[j] = proposals[j]
<1>1. NewProposal(a, d) \in ProposalRecords
  BY DEF NewProposal, ProposalRecords, TypeOK
<1>2. proposals \in Seq(ProposalRecords) /\ Len(proposals) < MaxProposals
      /\ proposals' = Append(proposals, NewProposal(a, d))
  BY DEF OpenProposal, TypeOK
<1> QED BY <1>1, <1>2

LEMMA SettleParts ==
  ASSUME TypeOK, NEW i \in Indices, Settle(i)
  PROVE  /\ i \in 1..Len(proposals) /\ proposals[i].state = "open"
         /\ proposals \in Seq(ProposalRecords) /\ proposals' \in Seq(ProposalRecords)
         /\ Len(proposals') = Len(proposals)
         /\ proposals'[i].state = "expired" /\ proposals'[i].yes = proposals[i].yes
         /\ proposals'[i].no = proposals[i].no
         /\ \A j \in 1..Len(proposals) : j # i => proposals'[j] = proposals[j]
<1>1. /\ i <= Len(proposals) /\ proposals[i].state = "open"
      /\ proposals' = [proposals EXCEPT ![i] = [proposals[i] EXCEPT !.state = "expired"]]
  BY DEF Settle, IsOpen
<1>2. proposals \in Seq(ProposalRecords) /\ i \in 1..Len(proposals)
  BY <1>1 DEF TypeOK, Indices
<1>3. proposals[i] \in ProposalRecords
  BY <1>2
<1>4. /\ [proposals[i] EXCEPT !.state = "expired"] \in ProposalRecords
      /\ [proposals[i] EXCEPT !.state = "expired"].state = "expired"
      /\ [proposals[i] EXCEPT !.state = "expired"].yes = proposals[i].yes
      /\ [proposals[i] EXCEPT !.state = "expired"].no = proposals[i].no
  BY <1>3 DEF ProposalRecords
<1> QED BY <1>1, <1>2, <1>4

(* The variables of the contract hold values of their types. *)
THEOREM TypeCorrect == Spec => []TypeOK
<1>1. Init => TypeOK
  BY DEF Init, TypeOK, NOT_VOTED
<1>2. TypeOK /\ [Next]_vars => TypeOK'
  <2> SUFFICES ASSUME TypeOK, [Next]_vars PROVE TypeOK'
    OBVIOUS
  <2> USE DEF seats
  <2>1. CASE NextBlock
    <3>1. \A a \in Accounts, d \in Dossiers : commitments'[a][d] \in 0..now'
      BY <2>1 DEF NextBlock, TypeOK
    <3>2. commitments' \in [Accounts -> [Dossiers -> 0..now']]
      BY <2>1, <3>1 DEF NextBlock, TypeOK
    <3> QED BY <2>1, <3>2 DEF NextBlock, TypeOK
  <2>2. ASSUME NEW a \in Accounts, NEW p \in Pillars, AddMember(a, p) PROVE TypeOK'
    <3>1. memberByPillar' \in [Pillars -> [account : Accounts \union {NoAccount}, active : {"yes", "no"}]]
      BY <2>2 DEF AddMember, TypeOK
    <3>2. memberByAccount' \in [Accounts -> [pillar : Pillars \union {NoPillar}, active : {"yes", "no"}]]
      BY <2>2 DEF AddMember, TypeOK
    <3> QED BY <2>2, <3>1, <3>2 DEF AddMember, TypeOK
  <2>3. ASSUME NEW p \in Pillars, RemoveMember(p) PROVE TypeOK'
    <3>1. memberByPillar' \in [Pillars -> [account : Accounts \union {NoAccount}, active : {"yes", "no"}]]
      BY <2>3 DEF RemoveMember, TypeOK
    <3>2. memberByAccount' \in [Accounts -> [pillar : Pillars \union {NoPillar}, active : {"yes", "no"}]]
      <4>1. PICK x : memberByAccount' = [memberByAccount EXCEPT ![x].active = "no"]
        BY <2>3 DEF RemoveMember
      <4>2. memberByAccount \in [Accounts -> [pillar : Pillars \union {NoPillar}, active : {"yes", "no"}]]
        BY DEF TypeOK
      <4> QED BY <4>1, <4>2
    <3>3. turnover' \in [Indices -> SUBSET Pillars] /\ rotations' \in Nat
      BY <2>3 DEF RemoveMember, TypeOK
    <3> QED BY <2>3, <3>1, <3>2, <3>3 DEF RemoveMember, TypeOK
  <2>4. ASSUME NEW a \in Accounts, NEW d \in Dossiers, CommitProposal(a, d) PROVE TypeOK'
    BY <2>4 DEF CommitProposal, TypeOK
  <2>5. ASSUME NEW a \in Accounts, NEW d \in Dossiers, OpenProposal(a, d) PROVE TypeOK'
    <3>1. commitments' \in [Accounts -> [Dossiers -> 0..now]]
      BY <2>5 DEF OpenProposal, TypeOK
    <3>2. proposals' \in Seq(ProposalRecords) /\ Len(proposals') <= MaxProposals
      BY <2>5, OpenParts
    <3> QED BY <2>5, <3>1, <3>2 DEF OpenProposal, TypeOK
  <2>6. ASSUME NEW a \in Accounts, NEW i \in Indices, NEW c \in Choices, Vote(a, i, c)
        PROVE  TypeOK'
    <3>1. votedChoice' \in [Indices -> [Accounts -> Nat]]
      BY <2>6 DEF Vote, TypeOK, Stored, Choices, Yes, No, Abstain, Recuse
    <3>2. [on |-> i, by |-> a, choice |-> c, pillar |-> memberByAccount[a].pillar]
            \in [on : Indices, by : Accounts, choice : Choices, pillar : Pillars \union {NoPillar}]
      BY DEF TypeOK
    <3>3. /\ UNCHANGED <<seats, commitments, now, turnover, commits, rotations>>
          /\ cast' = cast \union {[on |-> i, by |-> a, choice |-> c,
                                   pillar |-> memberByAccount[a].pillar]}
      BY <2>6 DEF Vote
    <3>4. proposals' \in Seq(ProposalRecords) /\ Len(proposals') = Len(proposals)
      BY <2>6, VoteParts
    <3> QED BY <3>1, <3>2, <3>3, <3>4 DEF TypeOK
  <2>7. ASSUME NEW i \in Indices, Settle(i) PROVE TypeOK'
    <3>1. proposals' \in Seq(ProposalRecords) /\ Len(proposals') = Len(proposals)
      BY <2>7, SettleParts
    <3> QED BY <2>7, <3>1 DEF Settle, TypeOK
  <2>8. CASE UNCHANGED vars
    BY <2>8 DEF vars, TypeOK
  <2> QED BY <2>1, <2>2, <2>3, <2>4, <2>5, <2>6, <2>7, <2>8 DEF Next
<1> QED BY <1>1, <1>2, PTL DEF Spec

(***************************************************************************)
(* The two tables of seats.                                                *)
(***************************************************************************)

LEMMA MirrorFields ==
  ASSUME MirrorsAgree
  PROVE  /\ \A q \in Pillars : Seated(q) =>
              /\ memberByPillar[q].account \in Accounts /\ IsMember(memberByPillar[q].account)
              /\ memberByAccount[memberByPillar[q].account].pillar = q
         /\ \A b \in Accounts : IsMember(b) =>
              /\ memberByAccount[b].pillar \in Pillars /\ Seated(memberByAccount[b].pillar)
              /\ memberByPillar[memberByAccount[b].pillar].account = b
<1>1. ASSUME NEW q \in Pillars, Seated(q)
      PROVE  /\ memberByPillar[q].account \in Accounts /\ IsMember(memberByPillar[q].account)
             /\ memberByAccount[memberByPillar[q].account].pillar = q
  <2>1. PICK r : r = memberByAccount[memberByPillar[q].account] /\ r = [pillar |-> q, active |-> "yes"]
    BY <1>1 DEF MirrorsAgree
  <2>2. r.pillar = q /\ r.active = "yes"
    BY <2>1
  <2> QED BY <1>1, <2>1, <2>2 DEF MirrorsAgree, IsMember
<1>2. ASSUME NEW b \in Accounts, IsMember(b)
      PROVE  /\ memberByAccount[b].pillar \in Pillars /\ Seated(memberByAccount[b].pillar)
             /\ memberByPillar[memberByAccount[b].pillar].account = b
  <2>1. PICK r : r = memberByPillar[memberByAccount[b].pillar] /\ r = [account |-> b, active |-> "yes"]
    BY <1>2 DEF MirrorsAgree
  <2>2. r.account = b /\ r.active = "yes"
    BY <2>1
  <2> QED BY <1>2, <2>1, <2>2 DEF MirrorsAgree, Seated
<1> QED BY <1>1, <1>2

(* A seat and the account that holds it always name each other             *)
(* (addMember, removeMember).                                              *)
THEOREM Mirrors == Spec => []MirrorsAgree
<1>1. Init => MirrorsAgree
  BY DEF Init, MirrorsAgree, Seated, IsMember
<1>2. TypeOK /\ MirrorsAgree /\ [Next]_vars => MirrorsAgree'
  <2> SUFFICES ASSUME TypeOK, MirrorsAgree, [Next]_vars PROVE MirrorsAgree'
    OBVIOUS
  <2>1. ASSUME NEW a \in Accounts, NEW p \in Pillars, AddMember(a, p) PROVE MirrorsAgree'
    <3>1. /\ memberByPillar'[p] = [account |-> a, active |-> "yes"]
          /\ memberByAccount'[a] = [pillar |-> p, active |-> "yes"]
          /\ \A q \in Pillars : q # p => memberByPillar'[q] = memberByPillar[q]
          /\ \A b \in Accounts : b # a => memberByAccount'[b] = memberByAccount[b]
          /\ memberByPillar[p].active # "yes" /\ memberByAccount[a].active # "yes"
      BY <2>1 DEF AddMember, MaySeat, Seated, IsMember, TypeOK
    <3>2. ASSUME NEW q \in Pillars, Seated(q)'
          PROVE  /\ memberByPillar'[q].account \in Accounts
                 /\ memberByAccount'[memberByPillar'[q].account] = [pillar |-> q, active |-> "yes"]
      <4>1. CASE q = p
        BY <3>1, <4>1
      <4>2. CASE q # p
        <5>1. Seated(q) /\ memberByPillar'[q] = memberByPillar[q]
          BY <3>1, <3>2, <4>2 DEF Seated
        <5>2. memberByPillar[q].account \in Accounts /\ memberByPillar[q].account # a
          BY <5>1, <3>1, MirrorFields DEF IsMember
        <5> QED BY <5>1, <5>2, <3>1 DEF MirrorsAgree
      <4> QED BY <4>1, <4>2
    <3>3. ASSUME NEW b \in Accounts, IsMember(b)'
          PROVE  /\ memberByAccount'[b].pillar \in Pillars
                 /\ memberByPillar'[memberByAccount'[b].pillar] = [account |-> b, active |-> "yes"]
      <4>1. CASE b = a
        BY <3>1, <4>1
      <4>2. CASE b # a
        <5>1. IsMember(b) /\ memberByAccount'[b] = memberByAccount[b]
          BY <3>1, <3>3, <4>2 DEF IsMember
        <5>2. memberByAccount[b].pillar \in Pillars /\ memberByAccount[b].pillar # p
          BY <5>1, <3>1, MirrorFields DEF Seated
        <5> QED BY <5>1, <5>2, <3>1 DEF MirrorsAgree
      <4> QED BY <4>1, <4>2
    <3> QED BY <3>2, <3>3 DEF MirrorsAgree
  <2>2. ASSUME NEW p \in Pillars, RemoveMember(p) PROVE MirrorsAgree'
    <3>0. PICK a \in Accounts : /\ a = memberByPillar[p].account
                                /\ memberByAccount[a] = [pillar |-> p, active |-> "yes"]
      BY <2>2 DEF RemoveMember, MirrorsAgree
    <3>5. memberByPillar[p].account = a /\ memberByAccount[a].pillar = p
      BY <3>0, <2>2, MirrorFields DEF RemoveMember
    <3>1. /\ memberByPillar'[p].active = "no" /\ memberByAccount'[a].active = "no"
          /\ \A q \in Pillars : q # p => memberByPillar'[q] = memberByPillar[q]
          /\ \A b \in Accounts : b # a => memberByAccount'[b] = memberByAccount[b]
      BY <2>2, <3>0 DEF RemoveMember, TypeOK
    <3>2. ASSUME NEW q \in Pillars, Seated(q)'
          PROVE  /\ memberByPillar'[q].account \in Accounts
                 /\ memberByAccount'[memberByPillar'[q].account] = [pillar |-> q, active |-> "yes"]
      <4>1. q # p /\ Seated(q) /\ memberByPillar'[q] = memberByPillar[q]
        BY <3>1, <3>2 DEF Seated
      <4>2. memberByPillar[q].account \in Accounts /\ memberByPillar[q].account # a
        BY <4>1, <3>5, MirrorFields
      <4> QED BY <4>1, <4>2, <3>1 DEF MirrorsAgree
    <3>3. ASSUME NEW b \in Accounts, IsMember(b)'
          PROVE  /\ memberByAccount'[b].pillar \in Pillars
                 /\ memberByPillar'[memberByAccount'[b].pillar] = [account |-> b, active |-> "yes"]
      <4>1. b # a /\ IsMember(b) /\ memberByAccount'[b] = memberByAccount[b]
        BY <3>1, <3>3 DEF IsMember
      <4>2. memberByAccount[b].pillar \in Pillars /\ memberByAccount[b].pillar # p
        BY <4>1, <3>5, MirrorFields
      <4> QED BY <4>1, <4>2, <3>1 DEF MirrorsAgree
    <3> QED BY <3>2, <3>3 DEF MirrorsAgree
  <2>3. CASE UNCHANGED seats
    BY <2>3 DEF seats, MirrorsAgree, Seated, IsMember
  <2> QED BY <2>1, <2>2, <2>3
        DEF Next, NextBlock, CommitProposal, OpenProposal, Vote, Settle, vars
<1> QED BY <1>1, <1>2, TypeCorrect, PTL DEF Spec

(***************************************************************************)
(* A proposal that is closed.                                              *)
(***************************************************************************)

(* Once decided or expired, a proposal is never changed again              *)
(* (vote, settleExpiredProposal).                                          *)
THEOREM ClosedForGood == Spec => DecidedForGood
<1>1. TypeOK /\ [Next]_vars =>
        \A i \in 1..Len(proposals) : ~IsOpen(i) => proposals'[i] = proposals[i]
  <2> SUFFICES ASSUME TypeOK, [Next]_vars, NEW i \in 1..Len(proposals), ~IsOpen(i)
               PROVE  proposals'[i] = proposals[i]
    OBVIOUS
  <2>0. proposals[i].state # "open"
    BY DEF IsOpen
  <2>1. ASSUME NEW a \in Accounts, NEW d \in Dossiers, OpenProposal(a, d)
        PROVE  proposals'[i] = proposals[i]
    BY <2>1, OpenParts
  <2>2. ASSUME NEW a \in Accounts, NEW j \in Indices, NEW c \in Choices, Vote(a, j, c)
        PROVE  proposals'[i] = proposals[i]
    <3>1. j # i
      BY <2>0, <2>2, VoteParts
    <3> QED BY <2>2, <3>1, VoteParts
  <2>3. ASSUME NEW j \in Indices, Settle(j) PROVE proposals'[i] = proposals[i]
    <3>1. j # i
      BY <2>0, <2>3, SettleParts
    <3> QED BY <2>3, <3>1, SettleParts
  <2>4. CASE UNCHANGED proposals
    BY <2>4
  <2> QED BY <2>1, <2>2, <2>3, <2>4
        DEF Next, NextBlock, AddMember, RemoveMember, CommitProposal, vars
<1> QED BY <1>1, TypeCorrect, PTL DEF Spec, DecidedForGood

(***************************************************************************)
(* A quorum of pillars.                                                    *)
(***************************************************************************)

(* Every vote cast was on a proposal there is and is remembered; a seat    *)
(* that did not change hands is still its voter's and has voted once.      *)
CastInv ==
  /\ \A v \in cast : /\ v.on \in 1..Len(proposals) /\ v.pillar \in Pillars
                     /\ votedChoice[v.on][v.by] # NOT_VOTED
  /\ VoterStillSeated /\ OneVotePerSeat

(* A step that touches no vote and no seat, and opens no closed proposal.  *)
LEMMA QuietCast ==
  ASSUME TypeOK, CastInv, UNCHANGED <<cast, votedChoice, memberByPillar, turnover>>,
         Len(proposals') \in Nat, Len(proposals) <= Len(proposals'),
         \A i \in 1..Len(proposals) : IsOpen(i)' => IsOpen(i)
  PROVE  CastInv'
<1>1. Len(proposals) \in Nat
  BY DEF TypeOK
<1>2. ASSUME NEW v \in cast
      PROVE  /\ v.on \in 1..Len(proposals') /\ v.on \in 1..Len(proposals) /\ v.pillar \in Pillars
             /\ votedChoice[v.on][v.by] # NOT_VOTED
  BY <1>1 DEF CastInv
<1>3. VoterStillSeated'
  BY <1>2 DEF CastInv, VoterStillSeated
<1>4. OneVotePerSeat'
  BY DEF CastInv, OneVotePerSeat
<1> QED BY <1>2, <1>3, <1>4 DEF CastInv

LEMMA VoteCast ==
  ASSUME TypeOK, MirrorsAgree, CastInv, NEW a \in Accounts, NEW i \in Indices,
         NEW c \in Choices, Vote(a, i, c)
  PROVE  CastInv'
<1>0. PICK p, n : /\ p = memberByAccount[a].pillar
                  /\ n = [on |-> i, by |-> a, choice |-> c, pillar |-> p]
  OBVIOUS
<1>1. n.on = i /\ n.by = a /\ n.choice = c /\ n.pillar = p
  BY <1>0
<1>2. /\ cast' = cast \union {n} /\ memberByPillar' = memberByPillar /\ turnover' = turnover
      /\ votedChoice' = [votedChoice EXCEPT ![i][a] = c + 1]
  BY <1>0 DEF Vote, Stored, seats
<1>3. p \in Pillars /\ memberByPillar[p] = [account |-> a, active |-> "yes"]
  BY <1>0, VoteParts DEF MirrorsAgree
<1>4. c + 1 # NOT_VOTED
  BY DEF Choices, Yes, No, Abstain, Recuse, NOT_VOTED
<1>5. ASSUME NEW v \in cast'
      PROVE  /\ v.on \in 1..Len(proposals') /\ v.pillar \in Pillars
             /\ votedChoice'[v.on][v.by] # NOT_VOTED
  <2>1. CASE v = n
    <3>1. votedChoice'[i][a] = c + 1
      BY <1>2 DEF TypeOK
    <3> QED BY <2>1, <3>1, <1>1, <1>3, <1>4, VoteParts
  <2>2. CASE v \in cast
    <3>1. /\ v.on \in 1..Len(proposals) /\ v.pillar \in Pillars
          /\ votedChoice[v.on][v.by] # NOT_VOTED /\ v.on \in Indices /\ v.by \in Accounts
      BY <2>2 DEF CastInv, TypeOK
    <3>2. votedChoice'[v.on][v.by] = votedChoice[v.on][v.by] \/ votedChoice'[v.on][v.by] = c + 1
      BY <3>1, <1>2 DEF TypeOK
    <3> QED BY <3>1, <3>2, <1>4, VoteParts
  <2> QED BY <2>1, <2>2, <1>2
<1>6. ASSUME NEW j \in 1..Len(proposals), IsOpen(j)' PROVE IsOpen(j)
  <2>1. CASE j = i
    BY <2>1, VoteParts DEF IsOpen, TypeOK
  <2>2. CASE j # i
    BY <2>2, <1>6, VoteParts DEF IsOpen
  <2> QED BY <2>1, <2>2
<1>7. ASSUME NEW v \in cast', v.pillar \notin turnover[v.on], IsOpen(v.on)'
      PROVE  memberByPillar[v.pillar] = [account |-> v.by, active |-> "yes"]
  <2>1. CASE v = n
    BY <2>1, <1>1, <1>3
  <2>2. CASE v \in cast
    <3>1. IsOpen(v.on)
      BY <2>2, <1>6, <1>7 DEF CastInv
    <3> QED BY <2>2, <3>1, <1>7 DEF CastInv, VoterStillSeated
  <2> QED BY <2>1, <2>2, <1>2
<1>8. ASSUME NEW u \in cast, u.on = i, u.pillar = p, p \notin turnover[i] PROVE FALSE
  <2>1. IsOpen(i)
    BY VoteParts DEF IsOpen, TypeOK
  <2>2. memberByPillar[p] = [account |-> u.by, active |-> "yes"]
    BY <1>8, <2>1 DEF CastInv, VoterStillSeated
  <2>3. [account |-> u.by, active |-> "yes"].account = u.by
        /\ [account |-> a, active |-> "yes"].account = a
    OBVIOUS
  <2>4. u.by = a
    BY <2>2, <2>3, <1>3
  <2> QED BY <2>4, <1>8, VoteParts DEF CastInv
<1>9. OneVotePerSeat'
  <2> SUFFICES ASSUME NEW v \in cast', NEW u \in cast', v.on = u.on, v.pillar = u.pillar,
                      v.pillar \notin turnover[v.on]
               PROVE  v = u
    BY <1>2 DEF OneVotePerSeat
  <2>1. CASE v \in cast /\ u \in cast
    BY <2>1 DEF CastInv, OneVotePerSeat
  <2>2. CASE v = n /\ u \in cast
    BY <2>2, <1>1, <1>8
  <2>3. CASE u = n /\ v \in cast
    BY <2>3, <1>1, <1>8
  <2> QED BY <2>1, <2>2, <2>3, <1>2
<1>10. VoterStillSeated'
  BY <1>2, <1>7 DEF VoterStillSeated
<1> QED BY <1>5, <1>9, <1>10 DEF CastInv

LEMMA CastKept == Spec => []CastInv
<1>1. Init => CastInv
  BY DEF Init, CastInv, VoterStillSeated, OneVotePerSeat
<1>2. TypeOK /\ MirrorsAgree /\ CastInv /\ [Next]_vars => CastInv'
  <2> SUFFICES ASSUME TypeOK, MirrorsAgree, CastInv, [Next]_vars PROVE CastInv'
    OBVIOUS
  <2>0. /\ Len(proposals) \in Nat /\ Len(proposals) <= MaxProposals
        /\ \A v \in cast : v.on \in Indices
    BY DEF TypeOK
  <2>1. ASSUME NEW a \in Accounts, NEW p \in Pillars, AddMember(a, p) PROVE CastInv'
    <3>1. /\ UNCHANGED <<cast, votedChoice, proposals, turnover>> /\ ~Seated(p)
          /\ \A q \in Pillars : q # p => memberByPillar'[q] = memberByPillar[q]
      BY <2>1 DEF AddMember, MaySeat, TypeOK
    <3>2. ASSUME NEW v \in cast, v.pillar \notin turnover[v.on], IsOpen(v.on)
          PROVE  memberByPillar'[v.pillar] = [account |-> v.by, active |-> "yes"]
      <4>1. memberByPillar[v.pillar] = [account |-> v.by, active |-> "yes"] /\ v.pillar \in Pillars
        BY <3>2 DEF CastInv, VoterStillSeated
      <4>2. Seated(v.pillar)
        BY <4>1 DEF Seated
      <4> QED BY <4>1, <4>2, <3>1
    <3> QED BY <3>1, <3>2 DEF CastInv, VoterStillSeated, OneVotePerSeat, IsOpen
  <2>2. ASSUME NEW p \in Pillars, RemoveMember(p) PROVE CastInv'
    <3>1. /\ UNCHANGED <<cast, votedChoice, proposals>>
          /\ \A q \in Pillars : q # p => memberByPillar'[q] = memberByPillar[q]
          /\ \A i \in Indices : /\ turnover[i] \subseteq turnover'[i]
                                /\ IsOpen(i) => p \in turnover'[i]
      BY <2>2 DEF RemoveMember, TypeOK
    <3>2. ASSUME NEW v \in cast, v.pillar \notin turnover'[v.on], IsOpen(v.on)
          PROVE  memberByPillar'[v.pillar] = [account |-> v.by, active |-> "yes"]
      <4>1. v.pillar # p /\ v.pillar \notin turnover[v.on]
        BY <2>0, <3>1, <3>2
      <4> QED BY <4>1, <3>1, <3>2 DEF CastInv, VoterStillSeated
    <3>3. OneVotePerSeat'
      BY <2>0, <3>1 DEF CastInv, OneVotePerSeat
    <3> QED BY <3>1, <3>2, <3>3 DEF CastInv, VoterStillSeated, IsOpen
  <2>3. ASSUME NEW a \in Accounts, NEW d \in Dossiers, OpenProposal(a, d) PROVE CastInv'
    <3>1. \A i \in 1..Len(proposals) : IsOpen(i)' => IsOpen(i)
      BY <2>0, <2>3, OpenParts DEF IsOpen
    <3>2. UNCHANGED <<cast, votedChoice, memberByPillar, turnover>>
      BY <2>3 DEF OpenProposal, seats
    <3> QED BY <2>0, <2>3, <3>1, <3>2, QuietCast, OpenParts
  <2>4. ASSUME NEW a \in Accounts, NEW i \in Indices, NEW c \in Choices, Vote(a, i, c)
        PROVE  CastInv'
    BY <2>4, VoteCast
  <2>5. ASSUME NEW i \in Indices, Settle(i) PROVE CastInv'
    <3>1. ASSUME NEW j \in 1..Len(proposals), IsOpen(j)' PROVE IsOpen(j)
      <4>1. j # i
        BY <2>5, <3>1, SettleParts DEF IsOpen
      <4> QED BY <2>5, <3>1, <4>1, SettleParts DEF IsOpen
    <3>2. UNCHANGED <<cast, votedChoice, memberByPillar, turnover>>
      BY <2>5 DEF Settle, seats
    <3> QED BY <2>0, <2>5, <3>1, <3>2, QuietCast, SettleParts
  <2>6. CASE UNCHANGED <<cast, votedChoice, memberByPillar, turnover, proposals>>
    BY <2>0, <2>6, QuietCast DEF IsOpen
  <2> QED BY <2>1, <2>2, <2>3, <2>4, <2>5, <2>6
        DEF Next, NextBlock, CommitProposal, vars, seats
<1> QED BY <1>1, <1>2, TypeCorrect, Mirrors, PTL DEF Spec

(* The tally of a proposal counts the votes cast on it, and a proposal is  *)
(* decided only by a quorum of them.                                       *)
TallyInv ==
  \A i \in 1..Len(proposals) :
    /\ \A c \in {Yes, No} : IsFiniteSet(VotesFor(i, c))
    /\ proposals[i].yes = Cardinality(VotesFor(i, Yes))
    /\ proposals[i].no = Cardinality(VotesFor(i, No))
    /\ proposals[i].state = "escalated" => proposals[i].yes >= QUORUM_REQUIRED
    /\ proposals[i].state = "dismissed" => proposals[i].no >= QUORUM_REQUIRED

(* A vote adds one to the votes for its choice and leaves the others.      *)
LEMMA VotesAfter ==
  ASSUME TypeOK, CastInv, NEW a \in Accounts, NEW i \in Indices, NEW c \in Choices,
         Vote(a, i, c), NEW j, NEW d \in {Yes, No}, IsFiniteSet(VotesFor(j, d))
  PROVE  /\ IsFiniteSet(VotesFor(j, d)')
         /\ Cardinality(VotesFor(j, d)') =
              Cardinality(VotesFor(j, d)) + (IF j = i /\ c = d THEN 1 ELSE 0)
<1>0. PICK n : n = [on |-> i, by |-> a, choice |-> c, pillar |-> memberByAccount[a].pillar]
  OBVIOUS
<1>1. n.on = i /\ n.by = a /\ n.choice = c /\ cast' = cast \union {n}
  BY <1>0 DEF Vote
<1>2. n \notin cast
  BY <1>1, VoteParts DEF CastInv
<1>3. Cardinality(VotesFor(j, d)) \in Nat
  BY FS_CardinalityType
<1>4. CASE j = i /\ c = d
  <2>1. VotesFor(j, d)' = VotesFor(j, d) \union {n} /\ n \notin VotesFor(j, d)
    BY <1>1, <1>2, <1>4 DEF VotesFor, VotesOn
  <2> QED BY <2>1, <1>4, FS_AddElement
<1>5. CASE ~(j = i /\ c = d)
  <2>1. VotesFor(j, d)' = VotesFor(j, d)
    BY <1>1, <1>5 DEF VotesFor, VotesOn
  <2> QED BY <2>1, <1>3, <1>5
<1> QED BY <1>4, <1>5

LEMMA Tallied == Spec => []TallyInv
<1>1. Init => TallyInv
  BY DEF Init, TallyInv
<1>2. TypeOK /\ CastInv /\ TallyInv /\ [Next]_vars => TallyInv'
  <2> SUFFICES ASSUME TypeOK, CastInv, TallyInv, [Next]_vars PROVE TallyInv'
    OBVIOUS
  <2>0. Len(proposals) \in Nat
    BY DEF TypeOK
  <2>1. ASSUME NEW a \in Accounts, NEW d \in Dossiers, OpenProposal(a, d) PROVE TallyInv'
    <3>1. cast' = cast
      BY <2>1 DEF OpenProposal
    <3>2. ASSUME NEW i \in 1..Len(proposals')
          PROVE  /\ \A c \in {Yes, No} : IsFiniteSet(VotesFor(i, c)')
                 /\ proposals'[i].yes = Cardinality(VotesFor(i, Yes)')
                 /\ proposals'[i].no = Cardinality(VotesFor(i, No)')
                 /\ proposals'[i].state = "escalated" => proposals'[i].yes >= QUORUM_REQUIRED
                 /\ proposals'[i].state = "dismissed" => proposals'[i].no >= QUORUM_REQUIRED
      <4>1. CASE i \in 1..Len(proposals)
        <5>1. proposals'[i] = proposals[i] /\ \A c : VotesFor(i, c)' = VotesFor(i, c)
          BY <2>1, <3>1, <4>1, OpenParts DEF VotesFor, VotesOn
        <5> QED BY <4>1, <5>1 DEF TallyInv
      <4>2. CASE i = Len(proposals) + 1
        <5>1. /\ proposals'[i].state = "open" /\ proposals'[i].yes = 0 /\ proposals'[i].no = 0
          <6>1. /\ NewProposal(a, d).state = "open"
                /\ NewProposal(a, d).yes = 0 /\ NewProposal(a, d).no = 0
            BY DEF NewProposal
          <6> QED BY <2>1, <4>2, <6>1, OpenParts
        <5>2. \A v \in cast : v.on # i
          BY <2>0, <4>2 DEF CastInv
        <5>3. \A c : VotesFor(i, c)' = {}
          BY <3>1, <5>2 DEF VotesFor, VotesOn
        <5> QED BY <5>1, <5>3, FS_EmptySet
      <4> QED BY <2>0, <2>1, <4>1, <4>2, OpenParts
    <3> QED BY <3>2 DEF TallyInv
  <2>2. ASSUME NEW a \in Accounts, NEW i \in Indices, NEW c \in Choices, Vote(a, i, c)
        PROVE  TallyInv'
    <3>1. ASSUME NEW j \in 1..Len(proposals')
          PROVE  /\ \A d \in {Yes, No} : IsFiniteSet(VotesFor(j, d)')
                 /\ proposals'[j].yes = Cardinality(VotesFor(j, Yes)')
                 /\ proposals'[j].no = Cardinality(VotesFor(j, No)')
                 /\ proposals'[j].state = "escalated" => proposals'[j].yes >= QUORUM_REQUIRED
                 /\ proposals'[j].state = "dismissed" => proposals'[j].no >= QUORUM_REQUIRED
      <4>1. j \in 1..Len(proposals)
        BY <2>2, VoteParts
      <4>2. /\ IsFiniteSet(VotesFor(j, Yes)) /\ IsFiniteSet(VotesFor(j, No))
            /\ proposals[j].yes = Cardinality(VotesFor(j, Yes))
            /\ proposals[j].no = Cardinality(VotesFor(j, No))
            /\ proposals[j].state = "escalated" => proposals[j].yes >= QUORUM_REQUIRED
            /\ proposals[j].state = "dismissed" => proposals[j].no >= QUORUM_REQUIRED
        BY <4>1 DEF TallyInv
      <4>3. /\ IsFiniteSet(VotesFor(j, Yes)') /\ IsFiniteSet(VotesFor(j, No)')
            /\ Cardinality(VotesFor(j, Yes)') =
                 Cardinality(VotesFor(j, Yes)) + (IF j = i /\ c = Yes THEN 1 ELSE 0)
            /\ Cardinality(VotesFor(j, No)') =
                 Cardinality(VotesFor(j, No)) + (IF j = i /\ c = No THEN 1 ELSE 0)
        BY <2>2, <4>2, VotesAfter
      <4>4. CASE j = i
        <5>1. PICK q \in ProposalRecords : q = proposals[i] /\ proposals'[i] = Decided(q, c)
          BY <2>2, VoteParts
        <5>2. /\ Decided(q, c).yes = q.yes + (IF c = Yes THEN 1 ELSE 0)
              /\ Decided(q, c).no = q.no + (IF c = No THEN 1 ELSE 0)
              /\ Decided(q, c).state =
                   (IF Decided(q, c).yes >= QUORUM_REQUIRED THEN "escalated"
                    ELSE IF Decided(q, c).no >= QUORUM_REQUIRED THEN "dismissed" ELSE q.state)
          BY CountedType
        <5>3. q.state = "open"
          BY <2>2, <5>1, VoteParts
        <5> QED BY <4>2, <4>3, <4>4, <5>1, <5>2, <5>3
      <4>5. CASE j # i
        <5>1. proposals'[j] = proposals[j]
          BY <2>2, <4>1, <4>5, VoteParts
        <5>2. /\ Cardinality(VotesFor(j, Yes)) \in Nat /\ Cardinality(VotesFor(j, No)) \in Nat
          BY <4>2, FS_CardinalityType
        <5> QED BY <4>2, <4>3, <4>5, <5>1, <5>2
      <4> QED BY <4>4, <4>5
    <3> QED BY <3>1 DEF TallyInv
  <2>3. ASSUME NEW i \in Indices, Settle(i) PROVE TallyInv'
    <3>1. \A j, c : VotesFor(j, c)' = VotesFor(j, c)
      BY <2>3 DEF Settle, VotesFor, VotesOn
    <3>2. ASSUME NEW j \in 1..Len(proposals')
          PROVE  /\ j \in 1..Len(proposals)
                 /\ proposals'[j].yes = proposals[j].yes /\ proposals'[j].no = proposals[j].no
                 /\ proposals'[j].state = proposals[j].state \/ proposals'[j].state = "expired"
      BY <2>3, SettleParts
    <3> QED BY <3>1, <3>2 DEF TallyInv
  <2>4. CASE UNCHANGED <<cast, proposals>>
    BY <2>4 DEF TallyInv, VotesFor, VotesOn
  <2> QED BY <2>1, <2>2, <2>3, <2>4
        DEF Next, NextBlock, AddMember, RemoveMember, CommitProposal, vars
<1> QED BY <1>1, <1>2, TypeCorrect, CastKept, PTL DEF Spec

(* Where no seat changed hands, every vote is another pillar's.            *)
LEMMA VoicesArePillars ==
  ASSUME OneVotePerSeat, NEW i, turnover[i] = {}, NEW c, IsFiniteSet(VotesFor(i, c))
  PROVE  Cardinality(PillarsFor(i, c)) = Cardinality(VotesFor(i, c))
<1> DEFINE S == VotesFor(i, c)
           T == PillarsFor(i, c)
           f == [v \in S |-> v.pillar]
<1>1. f \in Surjection(S, T)
  BY DEF PillarsFor, Surjection
<1>2. \A v, u \in S : f[v] = f[u] => v = u
  BY DEF OneVotePerSeat, VotesFor, VotesOn
<1>3. f \in Injection(S, T)
  BY <1>1, <1>2 DEF Injection, Surjection, IsInjective
<1> HIDE DEF S, T, f
<1>4. Cardinality(T) = Cardinality(S)
  BY <1>1, <1>3, FS_Surjection DEF S
<1> QED BY <1>4 DEF S, T

(* "3-of-5 escalation quorum": whatever the order of votes, rotations and  *)
(* proposals, a proposal during which no seat changed hands is escalated,  *)
(* or dismissed, by a quorum of distinct pillars (vote, removeMember).     *)
THEOREM QuorumOfPillars == Spec => []PillarQuorum
<1>1. TypeOK /\ CastInv /\ TallyInv => PillarQuorum
  <2> SUFFICES ASSUME CastInv, TallyInv, NEW i \in 1..Len(proposals), turnover[i] = {}
               PROVE  /\ proposals[i].state = "escalated"
                           => Cardinality(PillarsFor(i, Yes)) >= QUORUM_REQUIRED
                      /\ proposals[i].state = "dismissed"
                           => Cardinality(PillarsFor(i, No)) >= QUORUM_REQUIRED
    BY DEF PillarQuorum
  <2>1. /\ IsFiniteSet(VotesFor(i, Yes)) /\ IsFiniteSet(VotesFor(i, No))
        /\ proposals[i].state = "escalated" => Cardinality(VotesFor(i, Yes)) >= QUORUM_REQUIRED
        /\ proposals[i].state = "dismissed" => Cardinality(VotesFor(i, No)) >= QUORUM_REQUIRED
    BY DEF TallyInv
  <2>2. /\ Cardinality(PillarsFor(i, Yes)) = Cardinality(VotesFor(i, Yes))
        /\ Cardinality(PillarsFor(i, No)) = Cardinality(VotesFor(i, No))
    BY <2>1, VoicesArePillars DEF CastInv
  <2> QED BY <2>1, <2>2
<1> QED BY <1>1, TypeCorrect, CastKept, Tallied, PTL

(***************************************************************************)
(* The tally.  A vote is kept three times: in votedChoice, as an event and *)
(* in the counters of its proposal.                                        *)
(***************************************************************************)
Tally(q, c) ==
  IF c = Yes THEN q.yes ELSE IF c = No THEN q.no ELSE IF c = Abstain THEN q.abstain ELSE q.recuse

Total(q) == q.yes + q.no + q.abstain + q.recuse

(* A vote adds one to the counter of its choice and leaves the others.     *)
LEMMA TallyAfter ==
  ASSUME NEW q \in ProposalRecords, NEW choice \in Choices
  PROVE  /\ Total(Decided(q, choice)) = Total(q) + 1
         /\ \A c \in Choices :
              Tally(Decided(q, choice), c) = Tally(q, c) + (IF c = choice THEN 1 ELSE 0)
<1> DEFINE One(c) == IF choice = c THEN 1 ELSE 0
<1>1. PICK y \in Nat, n \in Nat, m \in Nat, r \in Nat :
        y = One(Yes) /\ n = One(No) /\ m = One(Abstain) /\ r = One(Recuse)
  OBVIOUS
<1>2. PICK k : k = Counted(q, choice)
  OBVIOUS
<1>3. k = [q EXCEPT !.yes = @ + y, !.no = @ + n, !.abstain = @ + m, !.recuse = @ + r]
  BY <1>1, <1>2 DEF Counted
<1>4. /\ k.yes = q.yes + y /\ k.no = q.no + n /\ k.abstain = q.abstain + m
      /\ k.recuse = q.recuse + r
      /\ q.yes \in Nat /\ q.no \in Nat /\ q.abstain \in Nat /\ q.recuse \in Nat
  BY <1>3 DEF ProposalRecords
<1>5. PICK e : e = Decided(q, choice)
  OBVIOUS
<1>6. e.yes = k.yes /\ e.no = k.no /\ e.abstain = k.abstain /\ e.recuse = k.recuse
  <2>1. PICK s : e = [k EXCEPT !.state = s]
    BY <1>2, <1>5 DEF Decided
  <2>2. DOMAIN k = DOMAIN q /\ {"yes", "no", "abstain", "recuse", "state"} \subseteq DOMAIN q
    BY <1>3 DEF ProposalRecords
  <2> QED BY <2>1, <2>2
<1>7. Total(e) = Total(q) + 1
  BY <1>1, <1>4, <1>6 DEF Total, Choices, Yes, No, Abstain, Recuse
<1>8. ASSUME NEW c \in Choices
      PROVE  Tally(e, c) = Tally(q, c) + (IF c = choice THEN 1 ELSE 0)
  BY <1>1, <1>4, <1>6 DEF Tally, Choices, Yes, No, Abstain, Recuse
<1> QED BY <1>5, <1>7, <1>8

(* What makes TallyIsVotes inductive, for one proposal of the contract:    *)
(* the sets that are counted are finite, and an open proposal is short of  *)
(* a quorum.                                                               *)
Balloted(i) ==
  LET q == proposals[i]
  IN  /\ \A c \in Choices : IsFiniteSet(Voters(i, c)) /\ Tally(q, c) = Cardinality(Voters(i, c))
      /\ IsFiniteSet(VotesOn(i)) /\ Total(q) = Cardinality(VotesOn(i))
      /\ \A v \in VotesOn(i) : votedChoice[i][v.by] = v.choice + 1
      /\ q.state = "escalated" => q.yes = QUORUM_REQUIRED
      /\ q.state = "dismissed" => q.no = QUORUM_REQUIRED
      /\ q.state # "escalated" => q.yes < QUORUM_REQUIRED
      /\ q.state # "dismissed" => q.no < QUORUM_REQUIRED

BallotInv ==
  /\ \A i \in 1..Len(proposals) : Balloted(i)
  /\ \A i \in Indices : i > Len(proposals) =>
       \A a \in Accounts : votedChoice[i][a] = NOT_VOTED

LEMMA BallotIsTally ==
  ASSUME BallotInv
  PROVE  TallyIsVotes
<1> SUFFICES ASSUME NEW i \in 1..Len(proposals), NEW q, q = proposals[i]
             PROVE  /\ q.yes = Cardinality(Voters(i, Yes)) /\ q.no = Cardinality(Voters(i, No))
                    /\ q.abstain = Cardinality(Voters(i, Abstain))
                    /\ q.recuse = Cardinality(Voters(i, Recuse))
                    /\ Cardinality(VotesOn(i)) = q.yes + q.no + q.abstain + q.recuse
                    /\ \A v \in VotesOn(i) : votedChoice[i][v.by] = v.choice + 1
                    /\ (q.state = "escalated") <=> (q.yes = QUORUM_REQUIRED)
                    /\ (q.state = "dismissed") <=> (q.no = QUORUM_REQUIRED)
  BY DEF TallyIsVotes
<1>1. Balloted(i)
  BY DEF BallotInv
<1>2. \A c \in Choices : Tally(q, c) = Cardinality(Voters(i, c))
  BY <1>1 DEF Balloted
<1>3. /\ q.yes = Cardinality(Voters(i, Yes)) /\ q.no = Cardinality(Voters(i, No))
      /\ q.abstain = Cardinality(Voters(i, Abstain))
      /\ q.recuse = Cardinality(Voters(i, Recuse))
  BY <1>2 DEF Tally, Choices, Yes, No, Abstain, Recuse
<1> QED BY <1>1, <1>3 DEF Balloted, Total

(* A step that leaves the votes on a proposal, its counters and whether it *)
(* is decided as they are.                                                 *)
LEMMA BallotKept ==
  ASSUME NEW i \in 1..Len(proposals), Balloted(i), UNCHANGED <<cast, votedChoice>>,
         \/ proposals'[i] = proposals[i]
         \/ /\ proposals[i].state = "open" /\ proposals'[i].state = "expired"
            /\ \A c \in Choices : Tally(proposals'[i], c) = Tally(proposals[i], c)
  PROVE  Balloted(i)'
<1>1. /\ \A c : Voters(i, c)' = Voters(i, c)
      /\ VotesOn(i)' = VotesOn(i)
  BY DEF Voters, VotesOn
<1>2. CASE proposals'[i] = proposals[i]
  BY <1>1, <1>2 DEF Balloted
<1>3. CASE /\ proposals[i].state = "open" /\ proposals'[i].state = "expired"
           /\ \A c \in Choices : Tally(proposals'[i], c) = Tally(proposals[i], c)
  <2>1. /\ proposals'[i].yes = proposals[i].yes /\ proposals'[i].no = proposals[i].no
        /\ proposals'[i].abstain = proposals[i].abstain
        /\ proposals'[i].recuse = proposals[i].recuse
    BY <1>3 DEF Tally, Choices, Yes, No, Abstain, Recuse
  <2> QED BY <1>1, <1>3, <2>1 DEF Balloted, Total
<1> QED BY <1>2, <1>3

LEMMA OpenBallot ==
  ASSUME TypeOK, CastInv, BallotInv, NEW a \in Accounts, NEW d \in Dossiers, OpenProposal(a, d)
  PROVE  BallotInv'
<1>a. Len(proposals) \in Nat /\ Len(proposals') = Len(proposals) + 1
      /\ Len(proposals') <= MaxProposals
  BY OpenParts DEF TypeOK
<1>b. PICK n \in Indices : n = Len(proposals) + 1
  BY <1>a DEF Indices
<1>0. Len(proposals) \in Nat /\ Len(proposals') = n /\ n = Len(proposals) + 1 /\ n \in Nat
  BY <1>a, <1>b
<1>1. UNCHANGED <<cast, votedChoice>>
  BY DEF OpenProposal
<1>2. ASSUME NEW i \in 1..Len(proposals) PROVE Balloted(i)'
  BY <1>1, BallotKept, OpenParts DEF BallotInv
<1>3. Balloted(n)'
  <2>1. PICK q : q = proposals'[n]
    OBVIOUS
  <2>0. q = NewProposal(a, d)
    BY <1>0, <2>1, OpenParts
  <2>2. /\ q.state = "open" /\ q.yes = 0 /\ q.no = 0 /\ q.abstain = 0 /\ q.recuse = 0
    BY <2>0 DEF NewProposal
  <2>3. \A v \in cast : v.on # n
    BY <1>0 DEF CastInv
  <2>4. VotesOn(n)' = {}
    BY <1>1, <2>3 DEF VotesOn
  <2>5. \A c \in Choices : Voters(n, c)' = {}
    <3>1. \A b \in Accounts : votedChoice'[n][b] = NOT_VOTED
      BY <1>0, <1>1 DEF BallotInv
    <3>2. \A c \in Choices : c + 1 # NOT_VOTED
      BY DEF Choices, Yes, No, Abstain, Recuse, NOT_VOTED
    <3> QED BY <3>1, <3>2 DEF Voters
  <2>6. Total(q) = 0 /\ \A c \in Choices : Tally(q, c) = 0
    BY <2>2 DEF Total, Tally
  <2> QED BY <2>1, <2>2, <2>4, <2>5, <2>6, FS_EmptySet DEF Balloted
<1>4. \A i \in Indices : i > Len(proposals') => i > Len(proposals)
  BY <1>0 DEF Indices
<1>5. \A i \in 1..Len(proposals') : i \in 1..Len(proposals) \/ i = n
  BY <1>0
<1> QED BY <1>1, <1>2, <1>3, <1>4, <1>5 DEF BallotInv

LEMMA VoteBallot ==
  ASSUME TypeOK, CastInv, BallotInv, NEW a \in Accounts, NEW i \in Indices, NEW c \in Choices,
         Vote(a, i, c)
  PROVE  BallotInv'
<1>0. PICK n : n = [on |-> i, by |-> a, choice |-> c, pillar |-> memberByAccount[a].pillar]
  OBVIOUS
<1>1. /\ n.on = i /\ n.by = a /\ n.choice = c /\ cast' = cast \union {n}
      /\ votedChoice' = [votedChoice EXCEPT ![i][a] = c + 1]
  BY <1>0 DEF Vote, Stored
<1>2. n \notin cast
  BY <1>1, VoteParts DEF CastInv
<1>3. c + 1 \in Nat /\ c + 1 # NOT_VOTED /\ Choices \subseteq Nat
  BY DEF Choices, Yes, No, Abstain, Recuse, NOT_VOTED
<1>4. \A j \in Indices, b \in Accounts :
        votedChoice'[j][b] = IF j = i /\ b = a THEN c + 1 ELSE votedChoice[j][b]
  BY <1>1 DEF TypeOK
<1>5. 1..Len(proposals) \subseteq Indices /\ Len(proposals) \in Nat
      /\ Len(proposals') = Len(proposals)
  <2>1. Len(proposals) \in Nat /\ Len(proposals) <= MaxProposals
    BY DEF TypeOK
  <2> QED BY <2>1, VoteParts DEF Indices
<1>6. ASSUME NEW j \in 1..Len(proposals), j # i PROVE Balloted(j)'
  <2>1. \A d : Voters(j, d)' = Voters(j, d)
    BY <1>4, <1>5, <1>6 DEF Voters
  <2>2. VotesOn(j)' = VotesOn(j)
    BY <1>1, <1>6 DEF VotesOn
  <2>3. \A v \in VotesOn(j) : v.by \in Accounts
    BY DEF VotesOn, TypeOK
  <2>4. proposals'[j] = proposals[j] /\ Balloted(j)
    BY <1>6, VoteParts DEF BallotInv
  <2> QED BY <1>4, <1>5, <1>6, <2>1, <2>2, <2>3, <2>4 DEF Balloted
<1>7. Balloted(i)'
  <2>0. PICK q \in ProposalRecords :
          /\ q = proposals[i] /\ q.state = "open" /\ proposals'[i] = Decided(q, c)
    BY VoteParts
  <2>1. PICK e : e = Decided(q, c) /\ proposals'[i] = e
    BY <2>0
  <2>2. Balloted(i)
    BY VoteParts DEF BallotInv
  <2>3. ASSUME NEW d \in Choices
        PROVE  /\ IsFiniteSet(Voters(i, d)') /\ Tally(e, d) = Cardinality(Voters(i, d)')
    <3>1. IsFiniteSet(Voters(i, d)) /\ Tally(q, d) = Cardinality(Voters(i, d))
      BY <2>0, <2>2 DEF Balloted
    <3>2. Tally(e, d) = Tally(q, d) + (IF d = c THEN 1 ELSE 0)
      BY <2>1, TallyAfter
    <3>3. Cardinality(Voters(i, d)) \in Nat
      BY <3>1, FS_CardinalityType
    <3>4. CASE d = c
      <4>1. Voters(i, d)' = Voters(i, d) \union {a} /\ a \notin Voters(i, d)
        BY <1>3, <1>4, <3>4, VoteParts DEF Voters
      <4> QED BY <3>1, <3>2, <3>4, <4>1, FS_AddElement
    <3>5. CASE d # c
      <4>1. Voters(i, d)' = Voters(i, d)
        <5>1. c + 1 # d + 1 /\ NOT_VOTED # d + 1
          BY <1>3, <3>5 DEF NOT_VOTED
        <5>2. ASSUME NEW b \in Accounts PROVE votedChoice'[i][b] = d + 1 <=> votedChoice[i][b] = d + 1
          BY <1>4, <5>1, VoteParts
        <5> QED BY <5>2 DEF Voters
      <4> QED BY <3>1, <3>2, <3>3, <3>5, <4>1
    <3> QED BY <3>4, <3>5
  <2>4. IsFiniteSet(VotesOn(i)') /\ Total(e) = Cardinality(VotesOn(i)')
    <3>1. IsFiniteSet(VotesOn(i)) /\ Total(q) = Cardinality(VotesOn(i))
      BY <2>0, <2>2 DEF Balloted
    <3>2. VotesOn(i)' = VotesOn(i) \union {n} /\ n \notin VotesOn(i)
      BY <1>1, <1>2 DEF VotesOn
    <3>3. Total(e) = Total(q) + 1
      BY <2>1, TallyAfter
    <3> QED BY <3>1, <3>2, <3>3, FS_AddElement
  <2>5. ASSUME NEW v \in VotesOn(i)' PROVE votedChoice'[i][v.by] = v.choice + 1
    <3>1. CASE v = n
      BY <1>1, <1>4, <3>1
    <3>2. CASE v \in VotesOn(i)
      <4>1. v \in cast /\ v.on = i /\ v.by \in Accounts
        BY <3>2 DEF VotesOn, TypeOK
      <4>2. v.by # a
        BY <4>1, VoteParts DEF CastInv
      <4> QED BY <1>4, <2>2, <3>2, <4>1, <4>2 DEF Balloted
    <3> QED BY <1>1, <3>1, <3>2 DEF VotesOn
  <2>6. /\ e.yes = q.yes + (IF c = Yes THEN 1 ELSE 0) /\ e.no = q.no + (IF c = No THEN 1 ELSE 0)
        /\ e.state = (IF e.yes >= QUORUM_REQUIRED THEN "escalated"
                      ELSE IF e.no >= QUORUM_REQUIRED THEN "dismissed" ELSE q.state)
        /\ q.yes \in Nat /\ q.no \in Nat
        /\ q.yes < QUORUM_REQUIRED /\ q.no < QUORUM_REQUIRED
    BY <2>0, <2>1, <2>2, CountedType DEF Balloted, ProposalRecords
  <2>7. /\ e.state = "escalated" => e.yes = QUORUM_REQUIRED
        /\ e.state = "dismissed" => e.no = QUORUM_REQUIRED
        /\ e.state # "escalated" => e.yes < QUORUM_REQUIRED
        /\ e.state # "dismissed" => e.no < QUORUM_REQUIRED
    BY <2>0, <2>6 DEF Yes, No
  <2> QED BY <2>1, <2>3, <2>4, <2>5, <2>7 DEF Balloted
<1>8. \A j \in Indices : j > Len(proposals) => \A b \in Accounts : votedChoice'[j][b] = NOT_VOTED
  BY <1>4, <1>5, VoteParts DEF BallotInv
<1> QED BY <1>5, <1>6, <1>7, <1>8, VoteParts DEF BallotInv

(* The counters of a proposal, votedChoice and the VoteCast events agree   *)
(* after any sequence of calls, and the state of a proposal is what its    *)
(* counters decide (vote, settleExpiredProposal).                          *)
THEOREM TallyCorrect == Spec => []TallyIsVotes
<1>1. Init => BallotInv
  BY DEF Init, BallotInv, NOT_VOTED
<1>2. TypeOK /\ CastInv /\ BallotInv /\ [Next]_vars => BallotInv'
  <2> SUFFICES ASSUME TypeOK, CastInv, BallotInv, [Next]_vars PROVE BallotInv'
    OBVIOUS
  <2>1. ASSUME NEW i \in Indices, Settle(i) PROVE BallotInv'
    <3>1. /\ UNCHANGED <<cast, votedChoice>> /\ Len(proposals') = Len(proposals)
          /\ i \in 1..Len(proposals) /\ proposals[i].state = "open"
          /\ proposals'[i].state = "expired"
      BY <2>1, SettleParts DEF Settle
    <3>2. \A c \in Choices : Tally(proposals'[i], c) = Tally(proposals[i], c)
      <4>1. proposals[i] \in ProposalRecords
        BY <3>1 DEF TypeOK
      <4>2. proposals'[i] = [proposals[i] EXCEPT !.state = "expired"]
        BY <2>1, <3>1 DEF Settle, TypeOK
      <4> QED BY <4>1, <4>2 DEF Tally, ProposalRecords
    <3>3. ASSUME NEW j \in 1..Len(proposals) PROVE Balloted(j)'
      <4>1. CASE j = i
        BY <3>1, <3>2, <4>1, BallotKept DEF BallotInv
      <4>2. CASE j # i
        BY <2>1, <3>1, <4>2, BallotKept, SettleParts DEF BallotInv
      <4> QED BY <4>1, <4>2
    <3> QED BY <3>1, <3>3 DEF BallotInv
  <2>2. CASE UNCHANGED <<cast, votedChoice, proposals>>
    <3>1. ASSUME NEW j \in 1..Len(proposals) PROVE Balloted(j)'
      BY <2>2, BallotKept DEF BallotInv
    <3> QED BY <2>2, <3>1 DEF BallotInv
  <2> QED BY <2>1, <2>2, OpenBallot, VoteBallot
        DEF Next, NextBlock, AddMember, RemoveMember, CommitProposal, vars
<1> QED BY <1>1, <1>2, TypeCorrect, CastKept, BallotIsTally, PTL DEF Spec
==============================================================================
