---------------------------- MODULE WorldProofs -----------------------------
(***************************************************************************)
(* What is proved of parties and of decaying items.  The two do not touch  *)
(* each other's state, and every theorem is about the specification of one *)
(* of them.                                                                *)
(***************************************************************************)
EXTENDS Party, Decay, FiniteSetTheorems, SequenceTheorems, TLAPS

-----------------------------------------------------------------------------
(* The inductive invariant.  The membership lists are needed for the       *)
(* invitations (nobody is invited to the own party, and a party that       *)
(* somebody belongs to has a leader), and both for shared experience.      *)
PartyInv == PartyTypeOK /\ MembershipAgrees /\ InvitationsAgree /\ SharedExpEarned

(* Lists as a handler has left them before it disbands the parties in      *)
(* gone: all is well apart from those.                                     *)
ListsFit(gone, on, lead, members, invites, inParty, invitations) ==
    /\ gone \subseteq Parties /\ on \subseteq Players
    /\ lead \in [Parties -> Players \union {NoPlayer}]
    /\ members \in [Parties -> SUBSET Players] /\ invites \in [Parties -> SUBSET Players]
    /\ inParty \in [Players -> Parties \union {NoParty}]
    /\ invitations \in [Players -> SUBSET Parties]
    /\ \A p \in Players, t \in Parties :
         /\ inParty[p] = t => lead[t] = p \/ p \in members[t]
         /\ lead[t] = p \/ p \in members[t] => inParty[p] \in {t, NoParty}
         /\ t \in invitations[p] <=> p \in invites[t]
    /\ \A p \in Players \ on : inParty[p] = NoParty
    /\ \A t \in Parties \ gone :
         /\ \A p \in Players : lead[t] = p \/ p \in members[t] => inParty[p] # NoParty
         /\ lead[t] \notin members[t]
         /\ invites[t] \subseteq on
         /\ \A p \in invites[t] : lead[t] # p /\ p \notin members[t]
         /\ lead[t] = NoPlayer <=> members[t] = {} /\ invites[t] = {}

(* Party::disband leaves no pointer to the parties that are deleted.       *)
LEMMA DisbandFits ==
  ASSUME PartyConstants,
         NEW gone, NEW lead, NEW members, NEW invites, NEW inParty, NEW invitations,
         ListsFit(gone, online', lead, members, invites, inParty, invitations),
         Disband(gone, lead, members, invites, inParty, invitations)
  PROVE  /\ party' \in [Players -> Parties \union {NoParty}]
         /\ invitePartyList' \in [Players -> SUBSET Parties]
         /\ leader' \in [Parties -> Players \union {NoPlayer}]
         /\ memberList' \in [Parties -> SUBSET Players]
         /\ inviteList' \in [Parties -> SUBSET Players]
         /\ MembershipAgrees' /\ InvitationsAgree'
<1> USE DEF PartyConstants
<1>1. /\ party' \in [Players -> Parties \union {NoParty}]
      /\ invitePartyList' \in [Players -> SUBSET Parties]
      /\ leader' \in [Parties -> Players \union {NoPlayer}]
      /\ memberList' \in [Parties -> SUBSET Players]
      /\ inviteList' \in [Parties -> SUBSET Players]
  BY DEF Disband, ListsFit
<1>2. \A t \in Parties : /\ t \in gone => /\ leader'[t] = NoPlayer /\ memberList'[t] = {}
                                          /\ inviteList'[t] = {}
                         /\ t \notin gone => /\ leader'[t] = lead[t]
                                             /\ memberList'[t] = members[t]
                                             /\ inviteList'[t] = invites[t]
  BY DEF Disband
<1>3. \A p \in Players :
         /\ (\E t \in gone : p = lead[t] \/ p \in members[t]) => party'[p] = NoParty
         /\ ~(\E t \in gone : p = lead[t] \/ p \in members[t]) => party'[p] = inParty[p]
         /\ invitePartyList'[p] = invitations[p] \ {t \in gone : p \in invites[t]}
  BY DEF Disband
<1>4. \A p \in Players, t \in Parties : party'[p] = t <=> Belongs(p, t)'
  <2> SUFFICES ASSUME NEW p \in Players, NEW t \in Parties
               PROVE  party'[p] = t <=> leader'[t] = p \/ p \in memberList'[t]
    BY DEF Belongs
  <2>1. CASE t \in gone
    BY <1>2, <1>3, <2>1 DEF ListsFit
  <2>2. CASE t \notin gone
    <3>1. ASSUME party'[p] = t PROVE leader'[t] = p \/ p \in memberList'[t]
      BY <1>2, <1>3, <2>2, <3>1 DEF ListsFit
    <3>2. ASSUME leader'[t] = p \/ p \in memberList'[t] PROVE party'[p] = t
      <4>1. inParty[p] = t
        BY <1>2, <2>2, <3>2 DEF ListsFit
      <4>2. ~\E u \in gone : p = lead[u] \/ p \in members[u]
        BY <2>2, <4>1 DEF ListsFit
      <4> QED BY <1>3, <4>1, <4>2
    <3> QED BY <3>1, <3>2
  <2> QED BY <2>1, <2>2
<1>5. MembershipAgrees'
  <2>1. \A p \in Players \ online' : party'[p] = NoParty
    BY <1>3 DEF ListsFit
  <2>2. \A t \in Parties : /\ leader'[t] \notin memberList'[t]
                           /\ leader'[t] = NoPlayer => memberList'[t] = {}
    BY <1>2 DEF ListsFit
  <2> QED BY <1>4, <2>1, <2>2 DEF MembershipAgrees
<1>6. InvitationsAgree'
  <2>1. \A p \in Players, t \in Parties : t \in invitePartyList'[p] <=> p \in inviteList'[t]
    BY <1>2, <1>3 DEF ListsFit
  <2>2. \A t \in Parties :
          /\ inviteList'[t] \subseteq online'
          /\ \A p \in inviteList'[t] : leader'[t] # p /\ p \notin memberList'[t]
          /\ leader'[t] = NoPlayer <=> memberList'[t] = {} /\ inviteList'[t] = {}
    BY <1>2 DEF ListsFit
  <2> QED BY <2>1, <2>2 DEF InvitationsAgree, Belongs
<1> QED BY <1>1, <1>5, <1>6

(* updateSharedExperience concerns one party, and if it finds the option   *)
(* on it lets that party share only what its members have earned.          *)
LEMMA EnabledFits ==
  ASSUME PartyConstants,
         PartyTypeOK, NEW t \in Parties, NEW lead, NEW members, NEW ticks,
         NEW enabled \in EnabledAfter(t, lead, members, ticks)
  PROVE  /\ enabled \subseteq Parties
         /\ \A u \in Parties \ {t} : u \in enabled <=> u \in sharedExpEnabled
         /\ t \in sharedExpActive /\ t \in enabled =>
              CanEnableSharedExperience(lead, members, ticks)
         /\ t \notin sharedExpActive => enabled = sharedExpEnabled
  BY DEF EnabledAfter, PartyTypeOK

(* What the lists say when nothing is disbanded.                           *)
LEMMA AgreeFits ==
  ASSUME PartyConstants,
         PartyInv
  PROVE  ListsFit({}, online, leader, memberList, inviteList, party, invitePartyList)
<1> USE DEF PartyConstants
<1>1. \A p \in Players, t \in Parties : party[p] = t <=> leader[t] = p \/ p \in memberList[t]
  BY DEF PartyInv, MembershipAgrees, Belongs
<1>2. \A t \in Parties :
         /\ leader[t] \notin memberList[t]
         /\ inviteList[t] \subseteq online
         /\ \A p \in inviteList[t] : leader[t] # p /\ p \notin memberList[t]
         /\ leader[t] = NoPlayer <=> memberList[t] = {} /\ inviteList[t] = {}
  BY DEF PartyInv, MembershipAgrees, InvitationsAgree, Belongs
<1>3. /\ \A p \in Players \ online : party[p] = NoParty
      /\ \A p \in Players, t \in Parties : t \in invitePartyList[p] <=> p \in inviteList[t]
  BY DEF PartyInv, MembershipAgrees, InvitationsAgree
<1> QED BY <1>1, <1>2, <1>3 DEF ListsFit, PartyInv, PartyTypeOK

(* Actions that leave the lists alone keep the invariant if they keep      *)
(* shared experience earned.                                               *)
LEMMA ListsUnchanged ==
  ASSUME PartyConstants,
         PartyInv, UNCHANGED lists, online \subseteq online', PartyTypeOK', SharedExpEarned'
  PROVE  PartyInv'
<1>1. MembershipAgrees'
  BY DEF PartyInv, MembershipAgrees, Belongs, lists
<1>2. InvitationsAgree'
  BY DEF PartyInv, InvitationsAgree, Belongs, lists
<1> QED BY <1>1, <1>2 DEF PartyInv

(* Handlers that concern shared experience only.                           *)
LEMMA SharingInv ==
  ASSUME PartyConstants,
         PartyInv, NEW p \in Players,
         \/ Login(p) \/ EnableSharedPartyExperience(p) \/ DisableSharedPartyExperience(p)
         \/ MemberChanges(p) \/ UpdatePlayerTicks(p) \/ OnIdleStatus(p)
         \/ \E q \in Players : HealPartner(p, q)
  PROVE  PartyInv'
<1> USE DEF PartyConstants
<1> DEFINE t == party[p]
<1>1. t \in Parties \union {NoParty} /\ PartyTypeOK /\ SharedExpEarned
  BY DEF PartyInv, PartyTypeOK
<1>2. ASSUME t \in Parties, UNCHANGED lists, online' = online,
             ticksMap' \in [Parties -> SUBSET Players], healed' \subseteq Players,
             sharedExpActive' = sharedExpActive,
             \A u \in Parties \ {t} : ticksMap'[u] = ticksMap[u],
             \A q \in ticksMap'[t] : Belongs(q, t),
             sharedExpEnabled' \in EnabledAfter(t, leader[t], memberList[t], ticksMap'[t])
      PROVE  PartyInv'
  <2>1. /\ sharedExpEnabled' \subseteq Parties
        /\ \A u \in Parties \ {t} : u \in sharedExpEnabled' <=> u \in sharedExpEnabled
        /\ t \in sharedExpActive /\ t \in sharedExpEnabled' =>
             CanEnableSharedExperience(leader[t], memberList[t], ticksMap'[t])
    BY <1>1, <1>2, EnabledFits
  <2>2. PartyTypeOK'
    BY <1>1, <1>2, <2>1 DEF PartyTypeOK, lists
  <2>3. SharedExpEarned'
    BY <1>1, <1>2, <2>1 DEF SharedExpEarned, Belongs, lists, CanEnableSharedExperience
  <2> QED BY <1>2, <2>2, <2>3, ListsUnchanged
<1>3. CASE Login(p)
  <2>1. PartyTypeOK' /\ SharedExpEarned'
    BY <1>1, <1>3 DEF Login, PartyTypeOK, SharedExpEarned, Belongs, lists, sharing,
                      CanEnableSharedExperience
  <2> QED BY <1>3, <2>1, ListsUnchanged DEF Login
<1>4. CASE EnableSharedPartyExperience(p)
  <2>1. /\ t \in Parties /\ leader[t] = p /\ t \notin sharedExpActive
        /\ sharedExpActive' = sharedExpActive \union {t}
        /\ \/ /\ CanEnableSharedExperience(p, memberList[t], ticksMap[t])
              /\ sharedExpEnabled' = sharedExpEnabled \union {t}
           \/ sharedExpEnabled' = sharedExpEnabled \ {t}
        /\ UNCHANGED <<online, lists, ticksMap, healed>>
    BY <1>1, <1>4 DEF EnableSharedPartyExperience, Leads
  <2>2. PartyTypeOK'
    BY <1>1, <2>1 DEF PartyTypeOK, lists
  <2>3. SharedExpEarned'
    BY <1>1, <2>1 DEF SharedExpEarned, Belongs, lists, CanEnableSharedExperience
  <2> QED BY <2>1, <2>2, <2>3, ListsUnchanged
<1>5. CASE DisableSharedPartyExperience(p)
  <2>1. PartyTypeOK' /\ SharedExpEarned'
    BY <1>1, <1>5 DEF DisableSharedPartyExperience, PartyTypeOK, SharedExpEarned, Belongs, lists,
                      CanEnableSharedExperience
  <2> QED BY <1>5, <2>1, ListsUnchanged DEF DisableSharedPartyExperience
<1>6. CASE MemberChanges(p)
  BY <1>1, <1>2, <1>6 DEF MemberChanges, PartyTypeOK, SharedExpEarned
<1>7. CASE UpdatePlayerTicks(p)
  <2>1. t \in Parties /\ Belongs(p, t)
    BY <1>1, <1>7 DEF UpdatePlayerTicks, PartyInv, MembershipAgrees
  <2>2. /\ ticksMap' = [ticksMap EXCEPT ![t] = ticksMap[t] \union {p}]
        /\ sharedExpEnabled' \in
             EnabledAfter(t, leader[t], memberList[t], ticksMap[t] \union {p})
        /\ UNCHANGED <<online, lists, sharedExpActive, healed>>
    BY <1>7 DEF UpdatePlayerTicks
  <2>3. /\ ticksMap' \in [Parties -> SUBSET Players]
        /\ ticksMap'[t] = ticksMap[t] \union {p}
        /\ \A u \in Parties \ {t} : ticksMap'[u] = ticksMap[u]
    BY <1>1, <2>1, <2>2 DEF PartyTypeOK
  <2>4. \A q \in ticksMap'[t] : Belongs(q, t)
    BY <1>1, <2>1, <2>3 DEF SharedExpEarned
  <2> QED BY <1>1, <1>2, <2>1, <2>2, <2>3, <2>4 DEF PartyTypeOK
<1>8. CASE OnIdleStatus(p)
  <2>1. /\ t \in Parties /\ ticksMap' = [ticksMap EXCEPT ![t] = ticksMap[t] \ {p}]
        /\ healed' = healed \ {p} /\ UNCHANGED <<online, lists, sharedExpActive>>
        /\ \/ /\ p \in ticksMap[t]
              /\ sharedExpEnabled' \in
                   EnabledAfter(t, leader[t], memberList[t], ticksMap[t] \ {p})
           \/ p \notin ticksMap[t] /\ UNCHANGED sharedExpEnabled
    BY <1>1, <1>8 DEF OnIdleStatus
  <2>2. /\ ticksMap' \in [Parties -> SUBSET Players]
        /\ ticksMap'[t] = ticksMap[t] \ {p}
        /\ \A u \in Parties \ {t} : ticksMap'[u] = ticksMap[u]
    BY <1>1, <2>1 DEF PartyTypeOK
  <2>3. CASE p \in ticksMap[t]
    <3>1. \A q \in ticksMap'[t] : Belongs(q, t)
      BY <1>1, <2>1, <2>2 DEF SharedExpEarned
    <3> QED BY <1>1, <1>2, <2>1, <2>2, <2>3, <3>1 DEF PartyTypeOK
  <2>4. CASE p \notin ticksMap[t]
    <3>1. ticksMap' = ticksMap /\ sharedExpEnabled' = sharedExpEnabled
      BY <1>1, <2>1, <2>4 DEF PartyTypeOK
    <3>2. PartyTypeOK' /\ SharedExpEarned'
      BY <1>1, <2>1, <3>1 DEF PartyTypeOK, SharedExpEarned, Belongs, lists,
                              CanEnableSharedExperience
    <3> QED BY <2>1, <3>2, ListsUnchanged
  <2> QED BY <2>3, <2>4
<1>9. ASSUME NEW q \in Players, HealPartner(p, q) PROVE PartyInv'
  <2>1. PartyTypeOK' /\ SharedExpEarned'
    BY <1>1, <1>9 DEF HealPartner, PartyTypeOK, SharedExpEarned, Belongs, lists,
                      CanEnableSharedExperience
  <2> QED BY <1>9, <2>1, ListsUnchanged DEF HealPartner
<1> QED BY <1>3, <1>4, <1>5, <1>6, <1>7, <1>8, <1>9

(* Lists that fit with nothing to disband agree.                           *)
LEMMA FitsAgree ==
  ASSUME PartyConstants,
         ListsFit({}, online', leader', memberList', inviteList', party', invitePartyList')
  PROVE  MembershipAgrees' /\ InvitationsAgree'
<1>1. Disband({}, leader', memberList', inviteList', party', invitePartyList')
  BY DEF Disband, ListsFit
<1> QED BY <1>1, DisbandFits

(* Game::playerInviteToParty.                                              *)
LEMMA InviteInv ==
  ASSUME PartyConstants,
         PartyInv, NEW p \in Players, NEW q \in Players, InviteToParty(p, q)
  PROVE  PartyInv'
<1> USE DEF PartyConstants
<1>1. PartyTypeOK /\ SharedExpEarned
      /\ ListsFit({}, online, leader, memberList, inviteList, party, invitePartyList)
  BY AgreeFits DEF PartyInv
<1>2. PICK t \in Parties :
          /\ \/ party[p] = NoParty /\ leader[t] = NoPlayer
             \/ Leads(p) /\ t = party[p]
          /\ party' = [party EXCEPT ![p] = t]
          /\ leader' = [leader EXCEPT ![t] = p]
          /\ inviteList' = [inviteList EXCEPT ![t] = @ \union {q}]
          /\ invitePartyList' = [invitePartyList EXCEPT ![q] = @ \union {t}]
  BY DEF InviteToParty
<1>3. /\ p # q /\ p \in online /\ q \in online /\ party[q] = NoParty
      /\ UNCHANGED <<online, memberList, sharing>>
  BY DEF InviteToParty
<1>4. /\ party[p] \in {t, NoParty} /\ leader[t] \in {p, NoPlayer}
      /\ leader[t] = NoPlayer => memberList[t] = {} /\ inviteList[t] = {}
      /\ p \notin memberList[t] /\ p \notin inviteList[t] /\ q \notin memberList[t]
  BY <1>1, <1>2, <1>3 DEF ListsFit, Leads
<1>5. ListsFit({}, online', leader', memberList', inviteList', party', invitePartyList')
  <2>1. /\ leader' \in [Parties -> Players \union {NoPlayer}]
        /\ inviteList' \in [Parties -> SUBSET Players]
        /\ party' \in [Players -> Parties \union {NoParty}]
        /\ invitePartyList' \in [Players -> SUBSET Parties]
    BY <1>1, <1>2 DEF PartyTypeOK
  <2>2. /\ leader'[t] = p /\ inviteList'[t] = inviteList[t] \union {q}
        /\ \A u \in Parties \ {t} : leader'[u] = leader[u] /\ inviteList'[u] = inviteList[u]
        /\ party'[p] = t /\ invitePartyList'[q] = invitePartyList[q] \union {t}
        /\ \A r \in Players \ {p} : party'[r] = party[r]
        /\ \A r \in Players \ {q} : invitePartyList'[r] = invitePartyList[r]
    BY <1>1, <1>2 DEF PartyTypeOK
  <2>3. \A r \in Players, u \in Parties :
           /\ party'[r] = u => leader'[u] = r \/ r \in memberList[u]
           /\ leader'[u] = r \/ r \in memberList[u] => party'[r] \in {u, NoParty}
           /\ u \in invitePartyList'[r] <=> r \in inviteList'[u]
    BY <1>1, <1>3, <1>4, <2>2 DEF ListsFit
  <2>4. \A r \in Players \ online : party'[r] = NoParty
    BY <1>1, <1>3, <2>2 DEF ListsFit
  <2>5. \A u \in Parties :
         /\ \A r \in Players : leader'[u] = r \/ r \in memberList[u] => party'[r] # NoParty
         /\ leader'[u] \notin memberList[u]
         /\ inviteList'[u] \subseteq online
         /\ \A r \in inviteList'[u] : leader'[u] # r /\ r \notin memberList[u]
         /\ leader'[u] = NoPlayer <=> memberList[u] = {} /\ inviteList'[u] = {}
    BY <1>1, <1>3, <1>4, <2>2 DEF ListsFit
  <2> QED BY <1>1, <1>3, <2>1, <2>3, <2>4, <2>5 DEF ListsFit
<1>6. PartyTypeOK'
  BY <1>1, <1>3, <1>5 DEF PartyTypeOK, ListsFit, sharing
<1>7. SharedExpEarned'
  <2>1. \A u \in Parties : leader'[u] = leader[u] \/ (u = t /\ leader[t] = NoPlayer)
    BY <1>1, <1>2, <1>4 DEF PartyTypeOK
  <2>2. \A u \in Parties : leader'[u] # leader[u] => memberList[u] = {}
    BY <1>4, <2>1
  <2>3. \A u \in Parties : memberList[u] = {} /\ leader[u] = NoPlayer => ticksMap[u] = {}
    BY <1>1 DEF SharedExpEarned, PartyTypeOK, Belongs
  <2> QED BY <1>1, <1>3, <1>4, <2>1, <2>2, <2>3
          DEF SharedExpEarned, CanEnableSharedExperience, Belongs, sharing
<1> QED BY <1>5, <1>6, <1>7, FitsAgree DEF PartyInv

(* Game::playerJoinParty.                                                  *)
LEMMA JoinInv ==
  ASSUME PartyConstants,
         PartyInv, NEW p \in Players, NEW q \in Players, JoinParty(p, q)
  PROVE  PartyInv'
<1> USE DEF PartyConstants
<1> DEFINE t == party[q]
           members == memberList[t] \union {p}
<1>1. PartyTypeOK /\ SharedExpEarned
      /\ ListsFit({}, online, leader, memberList, inviteList, party, invitePartyList)
  BY AgreeFits DEF PartyInv
<1>2. /\ t \in Parties /\ leader[t] = q /\ p \in inviteList[t] /\ party[p] = NoParty
      /\ p \in online
      /\ inviteList' = [inviteList EXCEPT ![t] = @ \ {p}]
      /\ party' = [party EXCEPT ![p] = t]
      /\ memberList' = [memberList EXCEPT ![t] = members]
      /\ invitePartyList' = [invitePartyList EXCEPT ![p] = @ \ {t}]
      /\ sharedExpEnabled' \in EnabledAfter(t, q, members, ticksMap[t])
      /\ UNCHANGED <<online, leader, sharedExpActive, ticksMap, healed>>
  BY <1>1 DEF JoinParty, IsInviting, Leads, PartyTypeOK
<1>3. /\ inviteList'[t] = inviteList[t] \ {p} /\ memberList'[t] = members
      /\ \A u \in Parties \ {t} : inviteList'[u] = inviteList[u] /\ memberList'[u] = memberList[u]
      /\ party'[p] = t /\ invitePartyList'[p] = invitePartyList[p] \ {t}
      /\ \A r \in Players \ {p} : party'[r] = party[r] /\ invitePartyList'[r] = invitePartyList[r]
  BY <1>1, <1>2 DEF PartyTypeOK
<1> HIDE DEF t
<1>4. ListsFit({}, online', leader', memberList', inviteList', party', invitePartyList')
  <2>1. /\ memberList' \in [Parties -> SUBSET Players]
        /\ inviteList' \in [Parties -> SUBSET Players]
        /\ party' \in [Players -> Parties \union {NoParty}]
        /\ invitePartyList' \in [Players -> SUBSET Parties]
    BY <1>1, <1>2 DEF PartyTypeOK
  <2>2. \A r \in Players, u \in Parties :
           /\ party'[r] = u => leader[u] = r \/ r \in memberList'[u]
           /\ leader[u] = r \/ r \in memberList'[u] => party'[r] \in {u, NoParty}
           /\ u \in invitePartyList'[r] <=> r \in inviteList'[u]
    BY <1>1, <1>2, <1>3 DEF ListsFit
  <2>3. \A r \in Players \ online : party'[r] = NoParty
    BY <1>1, <1>2, <1>3 DEF ListsFit
  <2>4. \A u \in Parties :
         /\ \A r \in Players : leader[u] = r \/ r \in memberList'[u] => party'[r] # NoParty
         /\ leader[u] \notin memberList'[u]
         /\ inviteList'[u] \subseteq online
         /\ \A r \in inviteList'[u] : leader[u] # r /\ r \notin memberList'[u]
         /\ leader[u] = NoPlayer <=> memberList'[u] = {} /\ inviteList'[u] = {}
    BY <1>1, <1>2, <1>3 DEF ListsFit
  <2> QED BY <1>1, <1>2, <2>1, <2>2, <2>3, <2>4 DEF ListsFit
<1>5. /\ sharedExpEnabled' \subseteq Parties
      /\ \A u \in Parties \ {t} : u \in sharedExpEnabled' <=> u \in sharedExpEnabled
      /\ t \in sharedExpActive /\ t \in sharedExpEnabled' =>
             CanEnableSharedExperience(q, members, ticksMap[t])
  BY <1>1, <1>2, EnabledFits
<1>6. PartyTypeOK'
  BY <1>1, <1>2, <1>4, <1>5 DEF PartyTypeOK, ListsFit
<1>7. SharedExpEarned'
  BY <1>1, <1>2, <1>3, <1>5 DEF SharedExpEarned, CanEnableSharedExperience, Belongs
<1> QED BY <1>4, <1>6, <1>7, FitsAgree DEF PartyInv

(* Game::playerPassPartyLeadership.                                        *)
LEMMA PassInv ==
  ASSUME PartyConstants,
         PartyInv, NEW p \in Players, NEW q \in Players, PassPartyLeadership(p, q)
  PROVE  PartyInv'
<1> USE DEF PartyConstants
<1> DEFINE t == party[p]
           members == (memberList[t] \ {q}) \union {p}
<1>1. PartyTypeOK /\ SharedExpEarned
      /\ ListsFit({}, online, leader, memberList, inviteList, party, invitePartyList)
  BY AgreeFits DEF PartyInv
<1>2. /\ t \in Parties /\ leader[t] = p /\ party[q] = t /\ p # q
      /\ leader' = [leader EXCEPT ![t] = q]
      /\ memberList' = [memberList EXCEPT ![t] = members]
      /\ sharedExpEnabled' \in EnabledAfter(t, q, members, ticksMap[t])
      /\ UNCHANGED <<online, party, invitePartyList, inviteList, sharedExpActive,
                     ticksMap, healed>>
  BY <1>1 DEF PassPartyLeadership, IsPartner, Leads, PartyTypeOK
<1>3. /\ leader'[t] = q /\ memberList'[t] = members
      /\ \A u \in Parties \ {t} : leader'[u] = leader[u] /\ memberList'[u] = memberList[u]
  BY <1>1, <1>2 DEF PartyTypeOK
<1>4. q \in memberList[t]
  BY <1>1, <1>2 DEF ListsFit
<1> HIDE DEF t
<1>5. ListsFit({}, online', leader', memberList', inviteList', party', invitePartyList')
  <2>1. /\ memberList' \in [Parties -> SUBSET Players]
        /\ leader' \in [Parties -> Players \union {NoPlayer}]
    BY <1>1, <1>2 DEF PartyTypeOK
  <2>2. \A r \in Players, u \in Parties :
           /\ party[r] = u => leader'[u] = r \/ r \in memberList'[u]
           /\ leader'[u] = r \/ r \in memberList'[u] => party[r] \in {u, NoParty}
    BY <1>1, <1>2, <1>3, <1>4 DEF ListsFit
  <2>3. \A u \in Parties :
         /\ \A r \in Players : leader'[u] = r \/ r \in memberList'[u] => party[r] # NoParty
         /\ leader'[u] \notin memberList'[u]
         /\ \A r \in inviteList[u] : leader'[u] # r /\ r \notin memberList'[u]
         /\ leader'[u] = NoPlayer <=> memberList'[u] = {} /\ inviteList[u] = {}
    BY <1>1, <1>2, <1>3, <1>4 DEF ListsFit
  <2> QED BY <1>1, <1>2, <2>1, <2>2, <2>3 DEF ListsFit
<1>6. /\ sharedExpEnabled' \subseteq Parties
      /\ \A u \in Parties \ {t} : u \in sharedExpEnabled' <=> u \in sharedExpEnabled
      /\ t \in sharedExpActive /\ t \in sharedExpEnabled' =>
             CanEnableSharedExperience(q, members, ticksMap[t])
  BY <1>1, <1>2, EnabledFits
<1>7. PartyTypeOK'
  BY <1>1, <1>2, <1>5, <1>6 DEF PartyTypeOK, ListsFit
<1>8. SharedExpEarned'
  BY <1>1, <1>2, <1>3, <1>4, <1>6 DEF SharedExpEarned, CanEnableSharedExperience, Belongs
<1> QED BY <1>5, <1>7, <1>8, FitsAgree DEF PartyInv

(* What becomes of shared experience when parties are deleted and the      *)
(* members of the others are as before.                                    *)
LEMMA ForgetFits ==
  ASSUME PartyConstants,
         PartyInv, NEW gone, NEW invites, NEW inParty, NEW invitations,
         Disband(gone, leader, memberList, invites, inParty, invitations), Forget(gone)
  PROVE  /\ SharedExpEarned'
         /\ sharedExpActive' \subseteq Parties /\ sharedExpEnabled' \subseteq Parties
         /\ ticksMap' \in [Parties -> SUBSET Players] /\ healed' \subseteq Players
<1>1. \A u \in Parties :
         /\ u \in gone => ticksMap'[u] = {} /\ u \notin sharedExpActive'
         /\ u \notin gone => /\ leader'[u] = leader[u] /\ memberList'[u] = memberList[u]
                             /\ ticksMap'[u] = ticksMap[u]
                             /\ u \in sharedExpActive' <=> u \in sharedExpActive
                             /\ u \in sharedExpEnabled' <=> u \in sharedExpEnabled
  BY DEF Disband, Forget
<1>2. SharedExpEarned'
  BY <1>1 DEF PartyInv, SharedExpEarned, CanEnableSharedExperience, Belongs
<1>3. /\ sharedExpActive' \subseteq Parties /\ sharedExpEnabled' \subseteq Parties
      /\ ticksMap' \in [Parties -> SUBSET Players] /\ healed' \subseteq Players
  BY DEF PartyInv, PartyTypeOK, Forget
<1> QED BY <1>2, <1>3

(* Game::playerRevokePartyInvitation.                                      *)
LEMMA RevokeInv ==
  ASSUME PartyConstants,
         PartyInv, NEW p \in Players, NEW q \in Players, RevokePartyInvitation(p, q)
  PROVE  PartyInv'
<1> USE DEF PartyConstants
<1> DEFINE t == party[p]
           invites == [inviteList EXCEPT ![t] = @ \ {q}]
           invitations == [invitePartyList EXCEPT ![q] = @ \ {t}]
           gone == IF memberList[t] = {} /\ invites[t] = {} THEN {t} ELSE {}
<1>1. PartyTypeOK
      /\ ListsFit({}, online, leader, memberList, inviteList, party, invitePartyList)
  BY AgreeFits DEF PartyInv
<1>2. /\ t \in Parties /\ leader[t] = p /\ q \in inviteList[t] /\ online' = online
      /\ Disband(gone, leader, memberList, invites, party, invitations) /\ Forget(gone)
  BY <1>1 DEF RevokePartyInvitation, IsInviting, Leads, PartyTypeOK
<1>3. /\ invites \in [Parties -> SUBSET Players] /\ invitations \in [Players -> SUBSET Parties]
      /\ invites[t] = inviteList[t] \ {q}
      /\ \A u \in Parties \ {t} : invites[u] = inviteList[u]
      /\ invitations[q] = invitePartyList[q] \ {t}
      /\ \A r \in Players \ {q} : invitations[r] = invitePartyList[r]
  BY <1>1, <1>2 DEF PartyTypeOK
<1>4. gone \subseteq {t} /\ (t \notin gone => memberList[t] # {} \/ invites[t] # {})
  OBVIOUS
<1> HIDE DEF t, invites, invitations, gone
<1>5. ListsFit(gone, online', leader, memberList, invites, party, invitations)
  BY <1>1, <1>2, <1>3, <1>4 DEF ListsFit
<1>6. PartyTypeOK' /\ MembershipAgrees' /\ InvitationsAgree' /\ SharedExpEarned'
  BY <1>1, <1>2, <1>5, DisbandFits, ForgetFits DEF PartyTypeOK
<1> QED BY <1>6 DEF PartyInv

(* What a handler that makes p leave a party has done to the invitations   *)
(* by then: they agree, all are older ones, and emptied are the parties    *)
(* other than p's own that it left empty.                                  *)
LeaveFits(p, emptied, invites, invitations) ==
    /\ emptied \subseteq Parties /\ party[p] \notin emptied
    /\ invites \in [Parties -> SUBSET Players] /\ invitations \in [Players -> SUBSET Parties]
    /\ \A q \in Players, u \in Parties : u \in invitations[q] <=> q \in invites[u]
    /\ \A u \in Parties : invites[u] \subseteq inviteList[u] /\ invites[u] \subseteq online'
    /\ \A u \in Parties \ emptied :
         /\ leader[u] = NoPlayer => invites[u] = {}
         /\ u # party[p] /\ memberList[u] = {} /\ invites[u] = {} => leader[u] = NoPlayer
    /\ online' \subseteq Players
    /\ \A q \in Players \ online' : q = p \/ party[q] = NoParty

(* Party::leaveParty, for a player's wish and for the end of a session.    *)
LEMMA LeaveInv ==
  ASSUME PartyConstants,
         PartyInv, NEW p \in Players, party[p] # NoParty,
         NEW emptied, NEW invites, NEW invitations,
         LeaveFits(p, emptied, invites, invitations),
         LeaveParty(p, emptied, invites, invitations)
  PROVE  PartyInv'
<1> USE DEF PartyConstants
<1> DEFINE t == party[p]
<1>1. PartyTypeOK /\ SharedExpEarned
      /\ ListsFit({}, online, leader, memberList, inviteList, party, invitePartyList)
  BY AgreeFits DEF PartyInv
<1>2. PICK next \in LeaderAfter(p, t, invites) :
          LET members == memberList[t] \ {p, next}
              ends == MissingLeader(p, t, invites) \/ (members = {} /\ invites[t] = {})
              gone == IF ends THEN emptied \union {t} ELSE emptied
          IN  /\ Disband(gone,
                         [leader EXCEPT ![t] = next],
                         [memberList EXCEPT ![t] = members],
                         invites,
                         [party EXCEPT ![p] = NoParty],
                         invitations)
              /\ \E enabled \in EnabledAfter(t, next, members, ticksMap[t]) :
                    sharedExpEnabled' = enabled \ gone
              /\ sharedExpActive' = sharedExpActive \ gone
              /\ ticksMap' = [u \in Parties |-> CASE u \in gone -> {}
                                              [] u = t /\ u \notin gone -> ticksMap[u] \ {p}
                                              [] OTHER -> ticksMap[u]]
              /\ healed' = {q \in healed : party'[q] # NoParty}
  BY DEF LeaveParty
<1> DEFINE members == memberList[t] \ {p, next}
           ends == MissingLeader(p, t, invites) \/ (members = {} /\ invites[t] = {})
           gone == IF ends THEN emptied \union {t} ELSE emptied
           lead == [leader EXCEPT ![t] = next]
           memberLists == [memberList EXCEPT ![t] = members]
           inParty == [party EXCEPT ![p] = NoParty]
<1>3. PICK enabled \in EnabledAfter(t, next, members, ticksMap[t]) :
         sharedExpEnabled' = enabled \ gone
  BY <1>2
<1>4. /\ Disband(gone, lead, memberLists, invites, inParty, invitations)
      /\ sharedExpActive' = sharedExpActive \ gone
      /\ ticksMap' = [u \in Parties |-> CASE u \in gone -> {}
                                      [] u = t /\ u \notin gone -> ticksMap[u] \ {p}
                                      [] OTHER -> ticksMap[u]]
      /\ healed' = {q \in healed : party'[q] # NoParty}
  BY <1>2
<1>5. t \in Parties /\ (leader[t] = p \/ p \in memberList[t])
  BY <1>1 DEF ListsFit
<1>6. leader[t] # NoPlayer /\ leader[t] \in Players
  BY <1>1, <1>5 DEF ListsFit
<1>7. /\ next \in Players
      /\ leader[t] = p \/ next = leader[t]
      /\ next \in memberList[t] \/ next = leader[t]
      /\ ~ends => next # p
  BY <1>1, <1>2, <1>5, <1>6 DEF LeaderAfter, ListsFit
<1>8. /\ emptied \subseteq gone /\ gone \subseteq emptied \union {t}
      /\ t \notin gone => ~ends /\ (members # {} \/ invites[t] # {})
  BY DEF LeaveFits
<1>9. /\ lead \in [Parties -> Players \union {NoPlayer}]
      /\ memberLists \in [Parties -> SUBSET Players]
      /\ inParty \in [Players -> Parties \union {NoParty}]
      /\ lead[t] = next /\ memberLists[t] = members /\ inParty[p] = NoParty
      /\ \A u \in Parties \ {t} : lead[u] = leader[u] /\ memberLists[u] = memberList[u]
      /\ \A r \in Players \ {p} : inParty[r] = party[r]
  BY <1>1, <1>5, <1>7 DEF PartyTypeOK
<1>10. t \notin emptied /\ emptied \subseteq Parties
  BY DEF LeaveFits
<1> HIDE DEF t, ends, gone, lead, memberLists, inParty
<1>11. ListsFit(gone, online', lead, memberLists, invites, inParty, invitations)
  <2>1. /\ gone \subseteq Parties /\ online' \subseteq Players
        /\ invites \in [Parties -> SUBSET Players] /\ invitations \in [Players -> SUBSET Parties]
        /\ \A r \in Players, u \in Parties : u \in invitations[r] <=> r \in invites[u]
    BY <1>5, <1>8, <1>10 DEF LeaveFits
  <2>2. \A r \in Players, u \in Parties :
           /\ inParty[r] = u => lead[u] = r \/ r \in memberLists[u]
           /\ lead[u] = r \/ r \in memberLists[u] => inParty[r] \in {u, NoParty}
    BY <1>1, <1>5, <1>7, <1>9 DEF ListsFit
  <2>3. \A r \in Players \ online' : inParty[r] = NoParty
    BY <1>9 DEF LeaveFits
  <2>4. ASSUME NEW u \in Parties \ gone
        PROVE  /\ \A r \in Players : lead[u] = r \/ r \in memberLists[u] => inParty[r] # NoParty
               /\ lead[u] \notin memberLists[u]
               /\ invites[u] \subseteq online'
               /\ \A r \in invites[u] : lead[u] # r /\ r \notin memberLists[u]
               /\ lead[u] = NoPlayer <=> memberLists[u] = {} /\ invites[u] = {}
    <3>1. invites[u] \subseteq online' /\ invites[u] \subseteq inviteList[u]
      BY DEF LeaveFits
    <3>2. CASE u = t
      BY <1>1, <1>5, <1>6, <1>7, <1>8, <1>9, <3>1, <3>2 DEF ListsFit
    <3>3. CASE u # t
      <4>1. /\ leader[u] = NoPlayer => invites[u] = {}
            /\ memberList[u] = {} /\ invites[u] = {} => leader[u] = NoPlayer
        BY <1>8, <3>3 DEF LeaveFits, t
      <4>2. leader[u] # p /\ p \notin memberList[u]
        BY <1>1, <1>5, <3>3 DEF ListsFit, t
      <4> QED BY <1>1, <1>9, <3>1, <3>3, <4>1, <4>2 DEF ListsFit
    <3> QED BY <3>2, <3>3
  <2> QED BY <1>9, <2>1, <2>2, <2>3, <2>4 DEF ListsFit
<1>12. /\ enabled \subseteq Parties
       /\ \A u \in Parties \ {t} : u \in enabled <=> u \in sharedExpEnabled
       /\ t \in sharedExpActive /\ t \in enabled =>
              CanEnableSharedExperience(next, members, ticksMap[t])
  BY <1>1, <1>3, <1>5, EnabledFits
<1>13. \A u \in Parties :
         /\ u \in gone => ticksMap'[u] = {} /\ u \notin sharedExpActive'
         /\ u \notin gone => /\ leader'[u] = lead[u] /\ memberList'[u] = memberLists[u]
                             /\ ticksMap'[u] = IF u = t THEN ticksMap[t] \ {p} ELSE ticksMap[u]
                             /\ u \in sharedExpActive' <=> u \in sharedExpActive
                             /\ u \in sharedExpEnabled' <=> u \in enabled
  BY <1>3, <1>4 DEF Disband
<1>14. SharedExpEarned'
  <2> SUFFICES ASSUME NEW u \in Parties \ gone
               PROVE  /\ u \in sharedExpActive /\ u \in enabled =>
                            CanEnableSharedExperience(lead[u], memberLists[u], ticksMap'[u])
                      /\ \A r \in ticksMap'[u] : lead[u] = r \/ r \in memberLists[u]
    BY <1>13 DEF SharedExpEarned, Belongs, CanEnableSharedExperience
  <2>1. CASE u = t
    BY <1>1, <1>7, <1>8, <1>9, <1>12, <1>13, <2>1
       DEF SharedExpEarned, Belongs, CanEnableSharedExperience
  <2>2. CASE u # t
    BY <1>1, <1>9, <1>12, <1>13, <2>2
       DEF SharedExpEarned, Belongs, CanEnableSharedExperience
  <2> QED BY <2>1, <2>2
<1>15. /\ sharedExpActive' \subseteq Parties /\ sharedExpEnabled' \subseteq Parties
       /\ ticksMap' \in [Parties -> SUBSET Players] /\ healed' \subseteq Players
  <2>1. ticksMap' \in [Parties -> SUBSET Players]
    <3>1. ASSUME NEW u \in Parties PROVE ticksMap'[u] \subseteq Players
      BY <1>1, <1>5, <1>13 DEF PartyTypeOK
    <3>2. DOMAIN ticksMap' = Parties /\ ticksMap' = [u \in Parties |-> ticksMap'[u]]
      BY <1>4
    <3> QED BY <3>1, <3>2
  <2> QED BY <1>1, <1>3, <1>4, <1>12, <2>1 DEF PartyTypeOK
<1>16. PartyTypeOK' /\ MembershipAgrees' /\ InvitationsAgree'
  BY <1>4, <1>11, <1>15, DisbandFits DEF PartyTypeOK, LeaveFits
<1> QED BY <1>14, <1>16 DEF PartyInv

(* Game::playerLeaveParty.                                                 *)
LEMMA PlayerLeavesInv ==
  ASSUME PartyConstants,
         PartyInv, NEW p \in Players, PlayerLeavesParty(p)
  PROVE  PartyInv'
<1>1. PartyTypeOK
      /\ ListsFit({}, online, leader, memberList, inviteList, party, invitePartyList)
  BY AgreeFits DEF PartyInv
<1>2. LeaveFits(p, {}, inviteList, invitePartyList)
  BY <1>1 DEF LeaveFits, ListsFit, PartyTypeOK, PlayerLeavesParty
<1> QED BY <1>2, LeaveInv DEF PlayerLeavesParty

(* Player::onRemoveCreature.                                               *)
LEMMA LogoutInv ==
  ASSUME PartyConstants,
         PartyInv, NEW p \in Players, Logout(p)
  PROVE  PartyInv'
<1> USE DEF PartyConstants
<1> DEFINE invites == [t \in Parties |-> IF t \in invitePartyList[p] THEN inviteList[t] \ {p}
                                         ELSE inviteList[t]]
           emptied == {t \in invitePartyList[p] :
                         p \in inviteList[t] /\ memberList[t] = {} /\ invites[t] = {}}
           invitations == [invitePartyList EXCEPT ![p] = {}]
<1>1. PartyTypeOK
      /\ ListsFit({}, online, leader, memberList, inviteList, party, invitePartyList)
  BY AgreeFits DEF PartyInv
<1>2. /\ online' = online \ {p}
      /\ \/ /\ party[p] # NoParty
            /\ LeaveParty(p, emptied, invites, invitations)
         \/ /\ party[p] = NoParty
            /\ Disband(emptied, leader, memberList, invites, party, invitations)
            /\ Forget(emptied)
  BY DEF Logout
<1>3. /\ invites \in [Parties -> SUBSET Players] /\ invitations \in [Players -> SUBSET Parties]
      /\ invitations[p] = {} /\ \A q \in Players \ {p} : invitations[q] = invitePartyList[q]
  BY <1>1 DEF PartyTypeOK
<1>4. \A t \in Parties : invites[t] = inviteList[t] \ {p}
  BY <1>1 DEF ListsFit, PartyTypeOK
<1>5. /\ emptied \subseteq Parties
      /\ \A t \in emptied : p \in inviteList[t]
      /\ \A t \in Parties \ emptied :
            memberList[t] = {} /\ invites[t] = {} => leader[t] = NoPlayer
  <2>1. ASSUME NEW t \in Parties \ emptied, memberList[t] = {}, invites[t] = {}
        PROVE  inviteList[t] = {}
    BY <1>1, <1>4, <2>1 DEF ListsFit
  <2>2. emptied \subseteq Parties
    BY <1>1 DEF PartyTypeOK
  <2> QED BY <1>1, <2>1, <2>2 DEF ListsFit
<1> HIDE DEF invites, invitations, emptied
<1>6. CASE party[p] # NoParty
  <2>1. party[p] \notin emptied
    BY <1>1, <1>5, <1>6 DEF ListsFit
  <2>2. LeaveFits(p, emptied, invites, invitations)
    BY <1>1, <1>2, <1>3, <1>4, <1>5, <2>1 DEF LeaveFits, ListsFit
  <2> QED BY <1>2, <1>6, <2>2, LeaveInv
<1>7. CASE party[p] = NoParty
  <2>1. ListsFit(emptied, online', leader, memberList, invites, party, invitations)
    BY <1>1, <1>2, <1>3, <1>4, <1>5, <1>7 DEF ListsFit
  <2>2. PartyTypeOK' /\ MembershipAgrees' /\ InvitationsAgree' /\ SharedExpEarned'
    BY <1>1, <1>2, <1>7, <2>1, DisbandFits, ForgetFits DEF PartyTypeOK
  <2> QED BY <2>2 DEF PartyInv
<1> QED BY <1>6, <1>7

-----------------------------------------------------------------------------
(* Nobody is in a party at the beginning.                                  *)
LEMMA PartyInvInit ==
  ASSUME PartyConstants
  PROVE  PartyInit => PartyInv
<1> SUFFICES ASSUME PartyInit PROVE PartyInv
  OBVIOUS
<1> USE DEF PartyConstants, PartyInit
<1>1. PartyTypeOK
  BY DEF PartyTypeOK
<1>2. \A t \in Parties : leader[t] = NoPlayer /\ memberList[t] = {} /\ inviteList[t] = {}
                         /\ ticksMap[t] = {}
  OBVIOUS
<1>3. \A p \in Players : party[p] = NoParty /\ invitePartyList[p] = {}
  OBVIOUS
<1>4. MembershipAgrees /\ InvitationsAgree /\ SharedExpEarned
  BY <1>2, <1>3 DEF MembershipAgrees, InvitationsAgree, SharedExpEarned, Belongs
<1> QED BY <1>1, <1>4 DEF PartyInv

(* The invariant is inductive.                                             *)
LEMMA PartyInvNext ==
  ASSUME PartyConstants
  PROVE  PartyInv /\ [PartyNext]_partyVars => PartyInv'
<1> SUFFICES ASSUME PartyInv, [PartyNext]_partyVars PROVE PartyInv'
  OBVIOUS
<1>1. CASE PartyNext
  <2>1. PICK p \in Players :
            \/ Login(p) \/ Logout(p) \/ PlayerLeavesParty(p)
            \/ EnableSharedPartyExperience(p) \/ DisableSharedPartyExperience(p)
            \/ MemberChanges(p) \/ UpdatePlayerTicks(p) \/ OnIdleStatus(p)
            \/ \E q \in Players : \/ InviteToParty(p, q) \/ JoinParty(p, q)
                                  \/ RevokePartyInvitation(p, q)
                                  \/ PassPartyLeadership(p, q)
                                  \/ HealPartner(p, q)
    BY <1>1 DEF PartyNext
  <2> QED BY <2>1, SharingInv, LogoutInv, PlayerLeavesInv, InviteInv, JoinInv, RevokeInv,
             PassInv
<1>2. CASE UNCHANGED partyVars
  BY <1>2 DEF partyVars, PartyInv, PartyTypeOK, MembershipAgrees, InvitationsAgree,
     SharedExpEarned,
              Belongs, CanEnableSharedExperience
<1> QED BY <1>1, <1>2

(* Every handler leaves the parties' and the players' lists well formed.   *)
THEOREM PartyTypeCorrect == PartySpec => []PartyTypeOK
<1> USE PartyAssumption
<1>1. PartyInv => PartyTypeOK
  BY DEF PartyInv
<1> QED BY <1>1, PartyInvInit, PartyInvNext, PTL DEF PartySpec

(* However many players invite, join, leave, pass the leadership and log   *)
(* out, a player's party pointer and the party's own lists agree, and no   *)
(* pointer to a deleted party stays.                                       *)
THEOREM MembershipAlwaysAgrees == PartySpec => []MembershipAgrees
<1> USE PartyAssumption
<1>1. PartyInv => MembershipAgrees
  BY DEF PartyInv
<1> QED BY <1>1, PartyInvInit, PartyInvNext, PTL DEF PartySpec

(* A player's invitations are those of the parties that list the player,   *)
(* and a party with nobody in it and nobody invited never stays.           *)
THEOREM InvitationsAlwaysAgree == PartySpec => []InvitationsAgree
<1> USE PartyAssumption
<1>1. PartyInv => InvitationsAgree
  BY DEF PartyInv
<1> QED BY <1>1, PartyInvInit, PartyInvNext, PTL DEF PartySpec

(* Nobody has a share of the experience without having fought since        *)
(* joining and since the last time idle.                                   *)
THEOREM SharedExpAlwaysEarned == PartySpec => []SharedExpEarned
<1> USE PartyAssumption
<1>1. PartyInv => SharedExpEarned
  BY DEF PartyInv
<1> QED BY <1>1, PartyInvInit, PartyInvNext, PTL DEF PartySpec

-----------------------------------------------------------------------------
(* Decaying items.                                                         *)

(* The item is in the map, in checkDecay's copy.                           *)
In(m, i) == \E e \in m : e[2] = i

(* A call is still to be made.                                             *)
Has(s, op, i) == \E n \in 1 .. Len(s) : s[n] = Call(op, i)
Pending(op, i) == Has(todo, op, i)

(* The next call starts or stops the item.                                 *)
AtHead(i) == todo # <<>> /\ Head(todo) \in {Call("start", i), Call("stop", i)}

(* What is known of an item in the map, in checkDecay's hands, and of one  *)
(* that waits for a call.                                                  *)
EntryFits(i) ==
    In(decayMap, i) =>
        /\ decayState[i] \in {"TRUE", "PENDING", "STOPPING"}
        /\ decayState[i] = "TRUE" \/ ~CanDecay(i) \/ AtHead(i)
        /\ ~In(tempItems, i)

CopyFits(i) ==
    In(tempItems, i) =>
        /\ decayState[i] = "TRUE" \/ ~CanDecay(i)
        /\ Pending("stop", i) => ~CanDecay(i)
        /\ ~Pending("decay", i)
        /\ item # i

(* Counts a reference.                                                     *)
One(b) == IF b THEN 1 ELSE 0

(* An item's references are one for its entry, one for its place in        *)
(* checkDecay's copy, one while the loop has it in hand.                   *)
ItemFits(i) ==
    /\ EntryFits(i) /\ CopyFits(i)
    /\ decayState[i] = "PENDING" => duration[i] # None /\ duration[i] > 0
    /\ decayState[i] = "TRUE" => In(decayMap, i) \/ In(tempItems, i)
    /\ held[i] = One(In(decayMap, i)) + One(In(tempItems, i)) + One(item = i)

(* checkDecay's variables.                                                 *)
LoopFits ==
    /\ \A e, f \in tempItems : e[2] = f[2] => e = f
    /\ ~checking => tempItems = {} /\ item = None /\ it = None /\ ~erased
    /\ it # None => it > now

(* The event that comes in time for an entry, or checkDecay will see to it.*)
Covered(t) ==
    \/ \E at \in others \union {event} : at # None /\ at <= t
    \/ it # None /\ (erased \/ it <= t)

(* internalDecayItem is called at once, for an item that can decay.        *)
FirstFits ==
    \A n \in 1 .. Len(todo) :
        todo[n].op = "decay" => n = 1 /\ DecayTo[type[todo[n].arg]] # Never

(* The inductive invariant.                                                *)
DecayInv ==
    /\ DecayTypeOK
    /\ \A e \in decayMap : timestamp[e[2]] = e[1]
    /\ \A i \in Items : ItemFits(i)
    /\ LoopFits
    /\ FirstFits
    /\ ~undefined => \A e \in decayMap : Covered(e[1])

(* The calls.                                                              *)
Ops == {"start", "stop", "decay"}

(* What is left of todo when the call op(i) has been taken from it, if any.*)
Rest(rest, op, i) ==
    /\ rest \in Seq(Calls)
    /\ \A j : ~Has(rest, "decay", j)
    /\ \A o, j : Has(rest, o, j) => Pending(o, j)
    /\ \A j : AtHead(j) => op # "decay" /\ j = i

-----------------------------------------------------------------------------
(* The calls of a sequence.                                                *)
LEMMA CallIsCall ==
  /\ \A o \in Ops, x \in Items : Call(o, x) \in Calls
  /\ \A o, x, p, y : Call(o, x) = Call(p, y) <=> o = p /\ x = y
  BY DEF Call, Calls, Ops

(* No call, one call, the calls of two sequences, and the first of one.    *)
LEMMA HasNone == \A o, j : ~Has(<<>>, o, j)
  BY DEF Has

(* One call.                                                               *)
LEMMA HasOne ==
  ASSUME NEW op \in Ops, NEW x \in Items
  PROVE  /\ <<Call(op, x)>> \in Seq(Calls)
         /\ <<Call(op, x)>> # <<>> /\ Head(<<Call(op, x)>>) = Call(op, x)
         /\ \A o, j : Has(<<Call(op, x)>>, o, j) <=> o = op /\ j = x
  <1>1. PICK c \in Calls : c = Call(op, x)
    BY CallIsCall
  <1>2. <<c>> \in Seq(Calls) /\ Len(<<c>>) = 1 /\ <<c>>[1] = c /\ <<c>> # <<>> /\ Head(<<c>>) = c
    OBVIOUS
  <1>3. \A o, j : Has(<<c>>, o, j) <=> c = Call(o, j)
    BY <1>2 DEF Has
  <1>4. QED BY <1>1, <1>2, <1>3, CallIsCall

(* The calls of two sequences.                                             *)
LEMMA HasConcat ==
  ASSUME NEW s \in Seq(Calls), NEW t \in Seq(Calls)
  PROVE  /\ s \o t \in Seq(Calls)
         /\ \A o, j : Has(s \o t, o, j) <=> Has(s, o, j) \/ Has(t, o, j)
  <1>1. /\ s \o t \in Seq(Calls) /\ Len(s \o t) = Len(s) + Len(t)
        /\ \A n \in 1 .. Len(s) + Len(t) :
             (s \o t)[n] = IF n <= Len(s) THEN s[n] ELSE t[n - Len(s)]
    BY ConcatProperties
  <1>2. Len(s) \in Nat /\ Len(t) \in Nat
    OBVIOUS
  <1>3. ASSUME NEW o, NEW j, Has(s \o t, o, j)
        PROVE  Has(s, o, j) \/ Has(t, o, j)
    <2>1. PICK n \in 1 .. Len(s \o t) : (s \o t)[n] = Call(o, j)
      BY <1>3 DEF Has
    <2>2. n \in 1 .. Len(s) + Len(t)
      BY <1>1, <2>1
    <2>3. CASE n <= Len(s)
      <3>1. n \in 1 .. Len(s) /\ s[n] = Call(o, j)
        BY <1>1, <1>2, <2>1, <2>2, <2>3
      <3>2. QED BY <3>1 DEF Has
    <2>4. CASE ~(n <= Len(s))
      <3>1. n - Len(s) \in 1 .. Len(t) /\ t[n - Len(s)] = Call(o, j)
        BY <1>1, <1>2, <2>1, <2>2, <2>4
      <3>2. QED BY <3>1 DEF Has
    <2>5. QED BY <2>3, <2>4
  <1>4. ASSUME NEW o, NEW j, Has(s, o, j)
        PROVE  Has(s \o t, o, j)
    <2>1. PICK n \in 1 .. Len(s) : s[n] = Call(o, j)
      BY <1>4 DEF Has
    <2>2. n \in 1 .. Len(s \o t) /\ (s \o t)[n] = Call(o, j)
      BY <1>1, <1>2, <2>1
    <2>3. QED BY <2>2 DEF Has
  <1>5. ASSUME NEW o, NEW j, Has(t, o, j)
        PROVE  Has(s \o t, o, j)
    <2>1. PICK n \in 1 .. Len(t) : t[n] = Call(o, j)
      BY <1>5 DEF Has
    <2>2. PICK k : k = n + Len(s)
      OBVIOUS
    <2>3. k \in 1 .. Len(s) + Len(t) /\ ~(k <= Len(s)) /\ k - Len(s) = n
      BY <1>2, <2>1, <2>2
    <2>4. k \in 1 .. Len(s \o t) /\ (s \o t)[k] = Call(o, j)
      BY <1>1, <2>1, <2>3
    <2>5. QED BY <2>4 DEF Has
  <1>6. QED BY <1>1, <1>3, <1>4, <1>5

(* The first call of two sequences.                                        *)
LEMMA HeadConcat ==
  ASSUME NEW s \in Seq(Calls), s # <<>>, NEW t \in Seq(Calls)
  PROVE  s \o t # <<>> /\ Head(s \o t) = Head(s)
  <1>1. Len(s) \in Nat /\ Len(s) >= 1 /\ Len(t) \in Nat /\ Head(s) = s[1]
    BY HeadTailProperties
  <1>2. s \o t \in Seq(Calls) /\ Len(s \o t) = Len(s) + Len(t) /\ (s \o t)[1] = s[1]
    BY <1>1, ConcatProperties
  <1>3. s \o t # <<>>
    BY <1>1, <1>2
  <1>4. Head(s \o t) = (s \o t)[1]
    BY <1>2, <1>3, HeadTailProperties
  <1>5. QED BY <1>1, <1>2, <1>3, <1>4

(* The first call and the others.                                          *)
LEMMA HasTail ==
  ASSUME NEW s \in Seq(Calls), s # <<>>
  PROVE  /\ Head(s) \in Calls /\ Tail(s) \in Seq(Calls)
         /\ \A o, j : Has(s, o, j) <=> Head(s) = Call(o, j) \/ Has(Tail(s), o, j)
  <1>1. /\ Head(s) \in Calls /\ Head(s) = s[1] /\ Tail(s) \in Seq(Calls)
        /\ Len(s) \in Nat /\ Len(s) >= 1 /\ Len(Tail(s)) = Len(s) - 1
        /\ \A n \in 1 .. Len(Tail(s)) : Tail(s)[n] = s[n + 1]
    BY HeadTailProperties
  <1>2. ASSUME NEW o, NEW j, Has(s, o, j)
        PROVE  Head(s) = Call(o, j) \/ Has(Tail(s), o, j)
    <2>1. PICK n \in 1 .. Len(s) : s[n] = Call(o, j)
      BY <1>2 DEF Has
    <2>2. CASE n = 1
      BY <1>1, <2>1, <2>2
    <2>3. CASE n # 1
      <3>1. PICK k : k = n - 1
        OBVIOUS
      <3>2. k \in 1 .. Len(Tail(s)) /\ k + 1 = n
        BY <1>1, <2>1, <2>3, <3>1
      <3>3. Tail(s)[k] = Call(o, j)
        BY <1>1, <2>1, <3>2
      <3>4. QED BY <3>2, <3>3 DEF Has
    <2>4. QED BY <2>2, <2>3
  <1>3. ASSUME NEW o, NEW j, Head(s) = Call(o, j) \/ Has(Tail(s), o, j)
        PROVE  Has(s, o, j)
    <2>1. CASE Head(s) = Call(o, j)
      <3>1. 1 \in 1 .. Len(s) /\ s[1] = Call(o, j)
        BY <1>1, <2>1
      <3>2. QED BY <3>1 DEF Has
    <2>2. CASE Has(Tail(s), o, j)
      <3>1. PICK n \in 1 .. Len(Tail(s)) : Tail(s)[n] = Call(o, j)
        BY <2>2 DEF Has
      <3>2. n + 1 \in 1 .. Len(s) /\ s[n + 1] = Call(o, j)
        BY <1>1, <3>1
      <3>3. QED BY <3>2 DEF Has
    <2>3. QED BY <1>3, <2>1, <2>2
  <1>4. QED BY <1>1, <1>2, <1>3

(* CallsFor calls the item first and then only what is in it.              *)
LEMMA CallsForFits ==
  ASSUME DecayConstants,
         NEW op \in Ops, NEW x \in Items
  PROVE  /\ CallsFor(op, x) \in Seq(Calls)
         /\ CallsFor(op, x) # <<>> /\ Head(CallsFor(op, x)) = Call(op, x)
         /\ \A o, j : Has(CallsFor(op, x), o, j) =>
                        o = op /\ j \in Items /\ (j = x \/ parent[j] = x)
  <1> DEFINE S == {c \in Items : parent[c] = x}
  <1>1. IsFiniteSet(S)
    BY FS_Subset DEF DecayConstants
  <1>2. Contents(x) \in [1 .. Cardinality(S) -> S] /\ Cardinality(S) \in Nat
    <2>1. Cardinality(S) \in Nat /\ ExistsBijection(1 .. Cardinality(S), S)
      BY <1>1, FS_CardinalityType
    <2>2. PICK f : f \in Bijection(1 .. Cardinality(S), S)
      BY <2>1 DEF ExistsBijection
    <2>3. f \in [1 .. Cardinality(S) -> S] /\ IsInjective(f)
      BY <2>2 DEF Bijection, Injection, Surjection, IsInjective
    <2>4. Contents(x) = CHOOSE g \in [1 .. Cardinality(S) -> S] : IsInjective(g)
      BY DEF Contents, SetToSeq
    <2>5. QED BY <2>1, <2>3, <2>4
  <1>3. Contents(x) \in Seq(Items) /\ \A n \in 1 .. Len(Contents(x)) : Contents(x)[n] \in S
    <2> HIDE DEF S
    <2>1. Contents(x) \in Seq(S) /\ Len(Contents(x)) = Cardinality(S)
      BY <1>2
    <2>2. \A n \in 1 .. Len(Contents(x)) : Contents(x)[n] \in S
      BY <1>2, <2>1
    <2>3. S \subseteq Items
      BY DEF S
    <2>4. QED BY <1>2, <2>1, <2>2, <2>3
  <1>4. PICK s : s = [n \in 1 .. Len(Contents(x)) |-> Call(op, Contents(x)[n])]
    OBVIOUS
  <1>5. s \in Seq(Calls) /\ Len(s) = Len(Contents(x))
    <2>1. \A n \in 1 .. Len(Contents(x)) : Call(op, Contents(x)[n]) \in Calls
      BY <1>3, CallIsCall
    <2>2. Len(Contents(x)) \in Nat
      BY <1>3
    <2>3. s \in [1 .. Len(Contents(x)) -> Calls]
      BY <1>4, <2>1
    <2>4. QED BY <2>2, <2>3
  <1>6. \A o, j : Has(s, o, j) => o = op /\ j \in S
    <2>1. SUFFICES ASSUME NEW o, NEW j, Has(s, o, j) PROVE o = op /\ j \in S
      OBVIOUS
    <2>2. PICK n \in 1 .. Len(s) : s[n] = Call(o, j)
      BY <2>1 DEF Has
    <2>3. n \in 1 .. Len(Contents(x)) /\ Call(op, Contents(x)[n]) = Call(o, j)
      BY <1>4, <1>5, <2>2
    <2>4. QED BY <1>3, <2>3, CallIsCall
  <1>7. CallsFor(op, x) = <<Call(op, x)>> \o s
    BY <1>4 DEF CallsFor
  <1>8. PICK h : h = <<Call(op, x)>>
    OBVIOUS
  <1>9. /\ h \in Seq(Calls) /\ h # <<>> /\ Head(h) = Call(op, x)
        /\ \A o, j : Has(h, o, j) <=> o = op /\ j = x
    BY <1>8, HasOne
  <1>10. h \o s \in Seq(Calls) /\ \A o, j : Has(h \o s, o, j) <=> Has(h, o, j) \/ Has(s, o, j)
    BY <1>5, <1>9, HasConcat
  <1>11. \A j : j \in S => j \in Items /\ parent[j] = x
    OBVIOUS
  <1>12. h \o s # <<>> /\ Head(h \o s) = Call(op, x)
    BY <1>5, <1>9, HeadConcat
  <1> HIDE DEF S
  <1>13. QED BY <1>6, <1>7, <1>8, <1>9, <1>10, <1>11, <1>12

(* The handler makes its next call: what is left to make.                  *)
LEMMA RestOfStep ==
  ASSUME NEW op \in Ops, NEW i \in Items, DecayTypeOK, FirstFits, todo # <<>>,
         Head(todo).op = op, Head(todo).arg = i
  PROVE  Rest(Tail(todo), op, i) /\ Pending(op, i)
  <1>1. todo \in Seq(Calls)
    BY DEF DecayTypeOK
  <1>2. Head(todo) \in Calls
    BY <1>1, HasTail
  <1>3. Head(todo) = Call(op, i)
    BY <1>2 DEF Calls, Call
  <1>4. ASSUME NEW j PROVE ~Has(Tail(todo), "decay", j)
    <2>1. SUFFICES ASSUME NEW n \in 1 .. Len(Tail(todo)), Tail(todo)[n] = Call("decay", j)
                   PROVE  FALSE
      BY DEF Has
    <2>2. Tail(todo)[n] = todo[n + 1] /\ Len(Tail(todo)) = Len(todo) - 1 /\ Len(todo) \in Nat
      BY <1>1, HeadTailProperties
    <2>3. n + 1 \in 1 .. Len(todo) /\ n + 1 # 1 /\ todo[n + 1].op = "decay"
      BY <2>1, <2>2 DEF Call
    <2>4. QED BY <2>3 DEF FirstFits
  <1>5. \A j : AtHead(j) => op # "decay" /\ j = i
    BY <1>3, CallIsCall DEF AtHead
  <1>6. QED BY <1>1, <1>3, <1>4, <1>5, HasTail, CallIsCall DEF Rest, Pending

(* What may be in todo.                                                    *)
LEMMA FirstNone ==
  ASSUME todo' \in Seq(Calls), \A j : ~Has(todo', "decay", j)
  PROVE  FirstFits'
  <1>1. SUFFICES ASSUME NEW n \in 1 .. Len(todo'), todo'[n].op = "decay" PROVE FALSE
    BY DEF FirstFits
  <1>2. todo'[n] \in Calls
    BY <1>1
  <1>3. todo'[n] = Call("decay", todo'[n].arg)
    BY <1>1, <1>2 DEF Calls, Call
  <1>4. QED BY <1>1, <1>3 DEF Has

(* internalDecayItem, put in front of the calls of a handler.              *)
LEMMA FirstDecay ==
  ASSUME NEW rest \in Seq(Calls), \A j : ~Has(rest, "decay", j), NEW i \in Items,
         todo' = <<Call("decay", i)>> \o rest, DecayTo[type'[i]] # Never
  PROVE  FirstFits'
  <1>1. PICK h : h = <<Call("decay", i)>>
    OBVIOUS
  <1>2. h \in Seq(Calls) /\ Len(h) = 1 /\ h[1] = Call("decay", i)
    BY <1>1, HasOne DEF Ops
  <1>3. /\ Len(todo') = Len(h) + Len(rest) /\ Len(rest) \in Nat
        /\ \A n \in 1 .. Len(h) + Len(rest) :
             todo'[n] = IF n <= Len(h) THEN h[n] ELSE rest[n - Len(h)]
    BY <1>1, <1>2, ConcatProperties
  <1>4. SUFFICES ASSUME NEW n \in 1 .. Len(todo'), todo'[n].op = "decay"
                 PROVE  n = 1 /\ DecayTo[type'[todo'[n].arg]] # Never
    BY DEF FirstFits
  <1>5. CASE n = 1
    <2>1. todo'[n] = Call("decay", i)
      BY <1>2, <1>3, <1>5
    <2>2. todo'[n].arg = i
      BY <2>1 DEF Call
    <2>3. QED BY <1>5, <2>2
  <1>6. CASE n # 1
    <2>1. PICK k : k = n - 1
      OBVIOUS
    <2>2. k \in 1 .. Len(rest) /\ todo'[n] = rest[k]
      BY <1>2, <1>3, <1>6, <2>1
    <2>3. rest[k] \in Calls
      BY <2>2
    <2>4. rest[k] = Call("decay", rest[k].arg)
      BY <1>4, <2>2, <2>3 DEF Calls, Call
    <2>5. QED BY <2>2, <2>4 DEF Has
  <1>7. QED BY <1>5, <1>6

(* A handler begins with nothing left to do.                               *)
LEMMA RestOfIdle ==
  ASSUME Idle, NEW op, NEW i
  PROVE  Rest(<<>>, op, i) /\ \A o, j : ~Pending(o, j)
  BY HasNone DEF Idle, Rest, Pending, AtHead

-----------------------------------------------------------------------------
(* An entry is found under its item's timestamp.                           *)
LEMMA Found ==
  ASSUME DecayConstants,
         DecayTypeOK, \A e \in decayMap : timestamp[e[2]] = e[1], NEW i \in Items
  PROVE  /\ StopBooking(i).found \in BOOLEAN
         /\ StopBooking(i).found <=> In(decayMap, i)
         /\ StopBooking(i).map \subseteq decayMap
         /\ \A e \in decayMap : e \in StopBooking(i).map <=> e[2] # i
  <1>1. \A e \in decayMap : e[1] \in Nat /\ e[2] \in Items /\ e = <<e[1], e[2]>>
    BY DEF DecayTypeOK
  <1>2. \A e \in decayMap : e[2] = i => timestamp[i] # None /\ e = <<timestamp[i], i>>
    BY <1>1 DEF DecayConstants
  <1>3. <<timestamp[i], i>>[2] = i
    OBVIOUS
  <1>4. StopBooking(i).found <=> In(decayMap, i)
    BY <1>2, <1>3 DEF StopBooking, In
  <1>5. StopBooking(i).found => StopBooking(i).map = decayMap \ {<<timestamp[i], i>>}
    BY DEF StopBooking
  <1>6. ~StopBooking(i).found => StopBooking(i).map = decayMap
    BY DEF StopBooking
  <1>7. StopBooking(i).found \in BOOLEAN
    BY DEF StopBooking
  <1>8. QED BY <1>2, <1>3, <1>4, <1>5, <1>6, <1>7 DEF In

(* When the item is taken out of the map, no other entry is.               *)
LEMMA TakenOut ==
  ASSUME NEW m, NEW n, NEW i, n \subseteq m, \A e \in m : e \in n <=> e[2] # i
  PROVE  \A j : In(n, j) <=> In(m, j) /\ j # i
  BY DEF In

(* Item::getDuration never reads a negative time.                          *)
LEMMA GetDurationType ==
  ASSUME DecayConstants,
         DecayTypeOK, NEW i \in Items
  PROVE  GetDuration(i) \in Nat
  <1>1. now \in Nat /\ IntAttr(timestamp[i]) \in Nat /\ IntAttr(duration[i]) \in Nat
    BY DEF DecayTypeOK, IntAttr, DecayConstants
  <1>2. QED BY <1>1 DEF GetDuration

(* Nothing that is covered loses its event or checkDecay's attention.      *)
LEMMA CoveredKept ==
  ASSUME UNCHANGED <<event, others, it>>, erased => erased'
  PROVE  \A t : Covered(t) => Covered(t)'
  BY DEF Covered

(* Nothing decays at the beginning.                                        *)
LEMMA DecayInvInit ==
  ASSUME DecayConstants
  PROVE  DecayInit => DecayInv
  <1> SUFFICES ASSUME DecayInit PROVE DecayInv
    OBVIOUS
  <1>1. DecayTypeOK
    <2>1. \A i \in Items : DecayTime[StartType[i]] \in Nat
      BY DEF DecayConstants
    <2>2. duration \in [Items -> Nat \union {None}]
      BY <2>1 DEF DecayInit
    <2>3. todo \in Seq(Calls)
      BY DEF DecayInit
    <2>4. type \in [Items -> Types] /\ parent \in [Items -> Items \union {World, Nowhere}]
      BY DEF DecayInit, DecayConstants
    <2>5. /\ decayState \in [Items -> States \union {None}]
          /\ timestamp \in [Items -> Nat \union {None}]
          /\ held \in [Items -> Nat]
      BY DEF DecayInit
    <2>6. now \in 0 .. MaxTime
      BY DEF DecayInit, DecayConstants
    <2>7. /\ decayMap \subseteq Nat \X Items /\ tempItems \subseteq Nat \X Items
          /\ others \subseteq Nat /\ event \in Nat \union {None} /\ it \in Nat \union {None}
          /\ item \in Items \union {None}
          /\ checking \in BOOLEAN /\ erased \in BOOLEAN /\ undefined \in BOOLEAN
      BY DEF DecayInit
    <2>8. QED BY <2>2, <2>3, <2>4, <2>5, <2>6, <2>7 DEF DecayTypeOK
  <1>2. \A i \in Items : ~In(decayMap, i) /\ ~In(tempItems, i) /\ item # i
    BY DEF DecayInit, In, DecayConstants
  <1>3. \A i \in Items : decayState[i] = None /\ held[i] = 0
    BY DEF DecayInit
  <1>4. \A i \in Items : ItemFits(i)
    BY <1>2, <1>3 DEF ItemFits, EntryFits, CopyFits, One, DecayConstants
  <1>5. FirstFits
    BY DEF DecayInit, FirstFits
  <1>6. QED BY <1>1, <1>4, <1>5 DEF DecayInit, DecayInv, LoopFits

-----------------------------------------------------------------------------
(* Steps that leave the map, the references, checkDecay's loop and the     *)
(* events alone keep the invariant when the items still fit them.          *)
LEMMA SameBookings ==
  ASSUME DecayConstants,
         DecayInv,
         UNCHANGED <<now, timestamp, booked, events, loop, erased, undefined>>,
         todo' \in Seq(Calls), FirstFits',
         parent' \in [Items -> Items \union {World, Nowhere}],
         type' \in [Items -> Types], duration' \in [Items -> Nat \union {None}],
         decayState' \in [Items -> States \union {None}],
         \A j \in Items : In(decayMap, j) =>
            /\ decayState'[j] \in {"TRUE", "PENDING", "STOPPING"}
            /\ decayState'[j] = "TRUE" \/ ~CanDecay(j)' \/ AtHead(j)',
         \A j \in Items : In(tempItems, j) =>
            /\ decayState'[j] = "TRUE" \/ ~CanDecay(j)'
            /\ Pending("stop", j)' => ~CanDecay(j)'
            /\ ~Pending("decay", j)',
         \A j \in Items : decayState'[j] = "PENDING" => duration'[j] # None /\ duration'[j] > 0,
         \A j \in Items : decayState'[j] = "TRUE" => decayState[j] = "TRUE"
  PROVE  DecayInv'
  <1> USE DEF booked, events, loop
  <1>1. DecayTypeOK'
    BY DEF DecayInv, DecayTypeOK
  <1>2. (\A e \in decayMap : timestamp[e[2]] = e[1])'
    BY DEF DecayInv
  <1>3. ASSUME NEW j \in Items PROVE ItemFits(j)'
    <2>1. ItemFits(j)
      BY DEF DecayInv
    <2>2. /\ In(decayMap, j)' <=> In(decayMap, j)
          /\ In(tempItems, j)' <=> In(tempItems, j)
      BY DEF In
    <2>3. held'[j] = held[j] /\ item' = item
      OBVIOUS
    <2>4. EntryFits(j)'
      BY <2>1, <2>2, <2>3 DEF ItemFits, EntryFits
    <2>5. CopyFits(j)'
      BY <2>1, <2>2, <2>3 DEF ItemFits, CopyFits
    <2>6. QED BY <2>1, <2>2, <2>3, <2>4, <2>5 DEF ItemFits, One
  <1>4. LoopFits'
    BY DEF DecayInv, LoopFits
  <1>5. (~undefined => \A e \in decayMap : Covered(e[1]))'
    BY CoveredKept DEF DecayInv
  <1>6. FirstFits'
    OBVIOUS
  <1>7. QED BY <1>1, <1>2, <1>3, <1>4, <1>5, <1>6 DEF DecayInv

(* The same where the items' attributes stay, too.                         *)
LEMMA OnlyCalls ==
  ASSUME DecayConstants,
         DecayInv,
         UNCHANGED <<now, type, attributes, booked, events, loop, erased, undefined>>,
         todo' \in Seq(Calls), FirstFits',
         parent' \in [Items -> Items \union {World, Nowhere}],
         \A j \in Items : In(decayMap, j) =>
            decayState[j] = "TRUE" \/ ~CanDecay(j)' \/ AtHead(j)',
         \A j \in Items : In(tempItems, j) =>
            /\ decayState[j] = "TRUE" \/ ~CanDecay(j)'
            /\ Pending("stop", j)' => ~CanDecay(j)'
            /\ ~Pending("decay", j)'
  PROVE  DecayInv'
  <1>1. UNCHANGED <<now, timestamp, booked, events, loop, erased, undefined>>
    BY DEF attributes
  <1>2. type' = type /\ duration' = duration /\ decayState' = decayState
    BY DEF attributes
  <1>3. /\ type' \in [Items -> Types] /\ duration' \in [Items -> Nat \union {None}]
        /\ decayState' \in [Items -> States \union {None}]
    BY <1>2 DEF DecayInv, DecayTypeOK
  <1>4. \A j \in Items :
          /\ In(decayMap, j) => decayState[j] \in {"TRUE", "PENDING", "STOPPING"}
          /\ decayState[j] = "PENDING" => duration[j] # None /\ duration[j] > 0
    BY DEF DecayInv, ItemFits, EntryFits
  <1>5. QED BY <1>1, <1>2, <1>3, <1>4, SameBookings

(* An item leaves the world with what is in it, and nothing comes back:    *)
(* new is the object that may take its place.                              *)
ItemLeaving(i, new, place) ==
    /\ parent[i] # Nowhere /\ new # i
    /\ \A c \in Items : parent[c] # new
    /\ new \in Items => parent[new] = Nowhere
    /\ place \in Items \union {World, Nowhere}
    /\ parent' = [parent EXCEPT ![new] = place, ![i] = Nowhere]
    /\ \A j \in Items : j # new => type'[j] = type[j]

LEMMA ItemLeaves ==
  ASSUME DecayConstants,
         DecayTypeOK, NEW i \in Items, NEW new, NEW place, ItemLeaving(i, new, place)
  PROVE  /\ parent' \in [Items -> Items \union {World, Nowhere}]
         /\ \A j \in Items : j # new /\ CanDecay(j)' => CanDecay(j)
         /\ \A j \in Items : j = i \/ parent[j] = i => ~CanDecay(j)'
  <1> USE DEF ItemLeaving
  <1>1. parent \in [Items -> Items \union {World, Nowhere}] /\ Nowhere \notin Items
    BY DEF DecayTypeOK, DecayConstants
  <1>2. parent' \in [Items -> Items \union {World, Nowhere}]
    BY <1>1
  <1>3. /\ parent'[i] = Nowhere
        /\ \A j \in Items : j # i /\ j # new => parent'[j] = parent[j]
    BY <1>1
  <1>4. ASSUME NEW j \in Items, j # new, IsRemoved(j) PROVE IsRemoved(j)'
    <2>1. CASE parent[j] = Nowhere
      <3>1. parent'[j] = Nowhere
        BY <1>3, <1>4, <2>1
      <3>2. QED BY <3>1 DEF IsRemoved
    <2>2. CASE parent[j] \in Items /\ parent[parent[j]] = Nowhere
      <3>1. PICK p \in Items : p = parent[j]
        BY <2>2
      <3>2. parent[p] = Nowhere /\ p # new /\ p # i
        BY <2>2, <3>1
      <3>3. parent'[p] = Nowhere
        BY <1>3, <3>2
      <3>4. j = i \/ parent'[j] = p
        BY <1>3, <1>4, <3>1
      <3>5. QED BY <1>3, <3>3, <3>4 DEF IsRemoved
    <2>3. QED BY <1>4, <2>1, <2>2 DEF IsRemoved
  <1>5. ASSUME NEW j \in Items, j = i \/ parent[j] = i PROVE IsRemoved(j)'
    <2>1. CASE j = i
      BY <1>3, <2>1 DEF IsRemoved
    <2>2. CASE j # i
      <3>1. parent[j] = i /\ j # new
        BY <1>1, <1>5, <2>2
      <3>2. parent'[j] = i
        BY <1>3, <2>2, <3>1
      <3>3. QED BY <1>3, <3>2 DEF IsRemoved
    <2>3. QED BY <2>1, <2>2
  <1>6. QED BY <1>2, <1>4, <1>5 DEF CanDecay

(* When no handler runs: checkDecay has nothing in hand.                   *)
LEMMA WhenIdle ==
  ASSUME DecayInv, Idle
  PROVE  /\ todo = <<>> /\ ~checking /\ tempItems = {} /\ item = None /\ it = None /\ ~erased
         /\ \A i : ~In(tempItems, i)
         /\ \A i \in Items : In(decayMap, i) => decayState[i] = "TRUE" \/ ~CanDecay(i)
  <1>1. todo = <<>> /\ ~checking /\ tempItems = {} /\ item = None /\ it = None /\ ~erased
    BY DEF DecayInv, LoopFits, Idle
  <1>2. \A i : ~In(tempItems, i)
    BY <1>1 DEF In
  <1>3. \A i : ~AtHead(i)
    BY <1>1 DEF AtHead
  <1>4. QED BY <1>1, <1>2, <1>3 DEF DecayInv, ItemFits, EntryFits

-----------------------------------------------------------------------------
(* The handlers' calls and their first steps.                              *)
LEMMA InvMove ==
  ASSUME DecayConstants,
         DecayInv, NEW i \in Items, NEW to \in Holders(i), MoveItem(i, to)
  PROVE  DecayInv'
  <1> USE DEF attributes, booked, events, loop, items
  <1>1. DecayTypeOK /\ to \in Items \union {World, Nowhere}
    BY DEF DecayInv, Holders
  <1>2. parent' \in [Items -> Items \union {World, Nowhere}] /\ todo' = CallsFor("start", i)
    BY <1>1 DEF MoveItem, DecayTypeOK
  <1>3. todo' \in Seq(Calls) /\ AtHead(i)'
    BY <1>2, CallsForFits DEF Ops, AtHead
  <1>4. ASSUME NEW j \in Items, j # i, CanDecay(j)' PROVE CanDecay(j)
    <2>1. parent[i] # Nowhere /\ type' = type
      BY DEF MoveItem, IsRemoved
    <2>2. \A k \in Items : k # i => parent'[k] = parent[k]
      BY <1>1 DEF MoveItem, DecayTypeOK
    <2>3. IsRemoved(j) => IsRemoved(j)'
      BY <1>4, <2>1, <2>2 DEF IsRemoved
    <2>4. QED BY <1>4, <2>1, <2>3 DEF CanDecay
  <1>5. Idle
    BY DEF MoveItem
  <1>6. \A j \in Items : In(decayMap, j) =>
            decayState[j] = "TRUE" \/ ~CanDecay(j)' \/ AtHead(j)'
    BY <1>3, <1>4, <1>5, WhenIdle
  <1>7. \A j \in Items : ~In(tempItems, j)
    BY <1>5, WhenIdle
  <1>8. UNCHANGED <<now, type, attributes, booked, events, loop, erased, undefined>>
    BY DEF MoveItem
  <1>9. FirstFits'
    <2>1. \A j : ~Has(todo', "decay", j)
      BY <1>2, CallsForFits DEF Ops
    <2>2. QED BY <1>3, <2>1, FirstNone
  <1>10. QED BY <1>2, <1>3, <1>6, <1>7, <1>8, <1>9, OnlyCalls

(* A script sets the decay state.                                          *)
LEMMA InvScriptSetsState ==
  ASSUME DecayConstants,
         DecayInv, NEW i \in Items, ScriptSetsState(i)
  PROVE  DecayInv'
  <1> USE DEF attributes, booked, events, loop, items
  <1>1. PICK op \in {"start", "stop"} : todo' = <<Call(op, i)>>
    BY DEF ScriptSetsState
  <1>2. op \in Ops /\ op # "decay" /\ Idle
    BY <1>1 DEF Ops, ScriptSetsState
  <1>3. todo' \in Seq(Calls) /\ \A j : ~Has(todo', "decay", j)
    BY <1>1, <1>2, HasOne
  <1>4. parent' = parent /\ parent' \in [Items -> Items \union {World, Nowhere}]
    BY DEF DecayInv, DecayTypeOK, ScriptSetsState
  <1>5. UNCHANGED <<now, type, attributes, booked, events, loop, erased, undefined>>
    BY DEF ScriptSetsState
  <1>6. \A j \in Items : CanDecay(j)' <=> CanDecay(j)
    BY <1>4, <1>5 DEF CanDecay, IsRemoved
  <1>7. /\ \A j : ~In(tempItems, j)
        /\ \A j \in Items : In(decayMap, j) => decayState[j] = "TRUE" \/ ~CanDecay(j)
    BY <1>2, WhenIdle
  <1>8. FirstFits'
    BY <1>3, FirstNone
  <1>9. QED BY <1>3, <1>4, <1>5, <1>6, <1>7, <1>8, OnlyCalls

(* A script sets the duration: the item starts again at once.              *)
LEMMA InvScriptSetsDuration ==
  ASSUME DecayConstants,
         DecayInv, NEW i \in Items, NEW n \in ScriptTimes, ScriptSetsDuration(i, n)
  PROVE  DecayInv'
  <1> USE DEF booked, events, loop, items
  <1>1. DecayTypeOK /\ Idle /\ \A j \in Items : ItemFits(j)
    BY DEF DecayInv, ScriptSetsDuration
  <1>2. n \in Nat /\ n > 0 /\ n # None
    <2>1. ScriptTimes \subseteq Nat \ {0} /\ None \notin Nat
      BY DEF DecayConstants
    <2>2. n \in Nat /\ n # 0 /\ n # None
      BY <2>1
    <2>3. QED BY <2>2
  <1>3. UNCHANGED <<now, timestamp, booked, events, loop, erased, undefined>>
    BY DEF ScriptSetsDuration
  <1>4. /\ type' = type /\ parent' = parent /\ todo' = <<Call("start", i)>>
        /\ decayState' = [decayState EXCEPT ![i] = "PENDING"]
        /\ duration' = [duration EXCEPT ![i] = n]
    BY DEF ScriptSetsDuration
  <1>5. /\ type' \in [Items -> Types] /\ parent' \in [Items -> Items \union {World, Nowhere}]
        /\ duration' \in [Items -> Nat \union {None}]
        /\ decayState' \in [Items -> States \union {None}]
    BY <1>1, <1>2, <1>4 DEF DecayTypeOK, States
  <1>6. /\ decayState'[i] = "PENDING" /\ duration'[i] = n
        /\ \A j \in Items : j # i => decayState'[j] = decayState[j] /\ duration'[j] = duration[j]
    BY <1>1, <1>4 DEF DecayTypeOK
  <1>7. todo' \in Seq(Calls) /\ AtHead(i)' /\ \A j : ~Has(todo', "decay", j)
    BY <1>4, HasOne DEF Ops, AtHead
  <1>8. FirstFits'
    BY <1>7, FirstNone
  <1>9. \A j \in Items : CanDecay(j)' <=> CanDecay(j)
    BY <1>4 DEF CanDecay, IsRemoved
  <1>10. /\ \A j : ~In(tempItems, j)
         /\ \A j \in Items : In(decayMap, j) => decayState[j] = "TRUE" \/ ~CanDecay(j)
    BY <1>1, WhenIdle
  <1>11. ASSUME NEW j \in Items, In(decayMap, j)
         PROVE  /\ decayState'[j] \in {"TRUE", "PENDING", "STOPPING"}
                /\ decayState'[j] = "TRUE" \/ ~CanDecay(j)' \/ AtHead(j)'
    BY <1>1, <1>6, <1>7, <1>9, <1>10, <1>11 DEF ItemFits, EntryFits
  <1>12. \A j \in Items : decayState'[j] = "PENDING" => duration'[j] # None /\ duration'[j] > 0
    BY <1>1, <1>2, <1>6 DEF ItemFits
  <1>13. \A j \in Items : decayState'[j] = "TRUE" => decayState[j] = "TRUE"
    BY <1>6
  <1>14. QED BY <1>3, <1>5, <1>7, <1>8, <1>10, <1>11, <1>12, <1>13, SameBookings

(* Game::internalRemoveItem: the item and what is in it are stopped, and   *)
(* can decay no more.                                                      *)
LEMMA InvRemove ==
  ASSUME DecayConstants,
         DecayInv, NEW i \in Items, NEW rest, Rest(rest, "decay", i),
         InternalRemoveItem(i, rest)
  PROVE  DecayInv'
  <1> USE DEF attributes, booked, events, loop, items
  <1>1. DecayTypeOK /\ todo' = CallsFor("stop", i) \o rest /\ rest \in Seq(Calls)
    BY DEF DecayInv, InternalRemoveItem, Rest
  <1>2. UNCHANGED <<now, type, attributes, booked, events, loop, erased, undefined>>
    BY DEF InternalRemoveItem
  <1>3. PICK new : new \notin Items \union {World, Nowhere}
    BY NoSetContainsEverything
  <1>4. parent' = [parent EXCEPT ![i] = Nowhere] /\ parent[i] # Nowhere
    BY DEF InternalRemoveItem
  <1>5. parent' = [parent EXCEPT ![new] = World, ![i] = Nowhere]
    BY <1>1, <1>3, <1>4 DEF DecayTypeOK
  <1>6. \A c \in Items : parent[c] # new
    BY <1>1, <1>3 DEF DecayTypeOK
  <1>7. /\ parent' \in [Items -> Items \union {World, Nowhere}]
        /\ \A j \in Items : j # new /\ CanDecay(j)' => CanDecay(j)
        /\ \A j \in Items : j = i \/ parent[j] = i => ~CanDecay(j)'
    <2>1. ItemLeaving(i, new, World)
      BY <1>2, <1>3, <1>4, <1>5, <1>6 DEF ItemLeaving
    <2>2. QED BY <1>1, <2>1, ItemLeaves
  <1>8. PICK s : s = CallsFor("stop", i)
    OBVIOUS
  <1>9. /\ s \in Seq(Calls)
        /\ \A o, j : Has(s, o, j) => o = "stop" /\ j \in Items /\ (j = i \/ parent[j] = i)
    BY <1>8, CallsForFits DEF Ops
  <1>10. todo' \in Seq(Calls) /\ \A o, j : Has(todo', o, j) <=> Has(s, o, j) \/ Has(rest, o, j)
    BY <1>1, <1>8, <1>9, HasConcat
  <1>11. ASSUME NEW j \in Items
         PROVE  /\ ~AtHead(j)
                /\ Pending("stop", j)' => Pending("stop", j) \/ ~CanDecay(j)'
                /\ Pending("decay", j)' => Pending("decay", j)
    <2>1. /\ ~AtHead(j)
          /\ Has(rest, "stop", j) => Pending("stop", j)
          /\ Has(rest, "decay", j) => Pending("decay", j)
      BY DEF Rest
    <2>2. /\ Has(s, "stop", j) => ~CanDecay(j)'
          /\ ~Has(s, "decay", j)
      BY <1>7, <1>9
    <2>3. QED BY <1>10, <2>1, <2>2 DEF Pending
  <1>12. \A j \in Items : CanDecay(j)' => CanDecay(j)
    BY <1>3, <1>7
  <1>13. \A j \in Items : EntryFits(j) /\ CopyFits(j)
    BY DEF DecayInv, ItemFits
  <1>14. \A j \in Items : In(decayMap, j) =>
            decayState[j] = "TRUE" \/ ~CanDecay(j)' \/ AtHead(j)'
    BY <1>11, <1>12, <1>13 DEF EntryFits
  <1>15. \A j \in Items : In(tempItems, j) =>
            /\ decayState[j] = "TRUE" \/ ~CanDecay(j)'
            /\ Pending("stop", j)' => ~CanDecay(j)'
            /\ ~Pending("decay", j)'
    BY <1>11, <1>12, <1>13 DEF CopyFits
  <1>16. FirstFits'
    BY <1>9, <1>10, FirstNone DEF Rest
  <1>17. QED BY <1>2, <1>7, <1>10, <1>14, <1>15, <1>16, OnlyCalls

(* Game::transformItem with a new object: nothing refers to that one yet.  *)
LEMMA InvReplaces ==
  ASSUME DecayConstants,
         DecayInv, NEW i \in Items, NEW t \in Types, NEW rest,
         Rest(rest, "decay", i), TransformReplaces(i, t, rest)
  PROVE  DecayInv'
  <1> USE DEF attributes, booked, events, loop
  <1>1. DecayTypeOK /\ rest \in Seq(Calls) /\ parent[i] # Nowhere /\ decayState' = decayState
    BY DEF DecayInv, TransformReplaces, Rest
  <1>2. UNCHANGED <<now, timestamp, booked, events, loop, erased, undefined>>
    BY DEF TransformReplaces
  <1>3. PICK new \in Spare :
          /\ parent[new] = Nowhere /\ held[new] = 0 /\ decayState[new] = None
          /\ \A c \in Items : parent[c] # new
          /\ parent' = [parent EXCEPT ![new] = parent[i], ![i] = Nowhere]
          /\ type' = [type EXCEPT ![new] = t]
          /\ duration' = [duration EXCEPT ![new] = IF DecayTime[t] > 0 THEN DecayTime[t]
                                                   ELSE None]
          /\ todo' = CallsFor("stop", i) \o <<Call("start", new)>> \o rest
    BY DEF TransformReplaces
  <1>4. new \in Items /\ new # i /\ parent[i] \in Items \union {World, Nowhere}
    BY <1>1, <1>3 DEF DecayConstants, DecayTypeOK
  <1>5. PICK place : place = parent[i]
    OBVIOUS
  <1>6. /\ \A j \in Items : j # new => type'[j] = type[j] /\ duration'[j] = duration[j]
        /\ type' \in [Items -> Types]
    BY <1>1, <1>3, <1>4 DEF DecayTypeOK
  <1>7. /\ parent' \in [Items -> Items \union {World, Nowhere}]
        /\ \A j \in Items : j # new /\ CanDecay(j)' => CanDecay(j)
        /\ \A j \in Items : j = i \/ parent[j] = i => ~CanDecay(j)'
    <2>1. parent' = [parent EXCEPT ![new] = place, ![i] = Nowhere]
      BY <1>3, <1>5
    <2>2. /\ place \in Items \union {World, Nowhere}
          /\ \A c \in Items : parent[c] # new
          /\ new \in Items => parent[new] = Nowhere
          /\ new # i /\ parent[i] # Nowhere
      BY <1>1, <1>3, <1>4, <1>5
    <2>3. \A j \in Items : j # new => type'[j] = type[j]
      BY <1>6
    <2>4. ItemLeaving(i, new, place)
      BY <2>1, <2>2, <2>3 DEF ItemLeaving
    <2>5. QED BY <1>1, <2>4, ItemLeaves
  <1>8. duration' \in [Items -> Nat \union {None}]
    <2>1. PICK d \in Nat \union {None} : d = IF DecayTime[t] > 0 THEN DecayTime[t] ELSE None
      BY DEF DecayConstants
    <2>2. QED BY <1>1, <1>3, <2>1 DEF DecayTypeOK
  <1>9. PICK s : s = CallsFor("stop", i)
    OBVIOUS
  <1>10. /\ s \in Seq(Calls)
         /\ \A o, j : Has(s, o, j) => o = "stop" /\ j \in Items /\ (j = i \/ parent[j] = i)
    BY <1>9, CallsForFits DEF Ops
  <1>11. PICK h : h = <<Call("start", new)>>
    OBVIOUS
  <1>12. h \in Seq(Calls) /\ \A o, j : Has(h, o, j) <=> o = "start" /\ j = new
    BY <1>4, <1>11, HasOne DEF Ops
  <1>13. s \o h \in Seq(Calls) /\ \A o, j : Has(s \o h, o, j) <=> Has(s, o, j) \/ Has(h, o, j)
    BY <1>10, <1>12, HasConcat
  <1>14. /\ todo' \in Seq(Calls)
         /\ \A o, j : Has(todo', o, j) <=> Has(s \o h, o, j) \/ Has(rest, o, j)
    <2>1. todo' = (s \o h) \o rest
      BY <1>3, <1>9, <1>11
    <2>2. QED BY <1>1, <1>13, <2>1, HasConcat
  <1>15. ASSUME NEW j \in Items
         PROVE  /\ ~AtHead(j)
                /\ Pending("stop", j)' => Pending("stop", j) \/ ~CanDecay(j)'
                /\ Pending("decay", j)' => Pending("decay", j)
    <2>1. /\ ~AtHead(j)
          /\ Has(rest, "stop", j) => Pending("stop", j)
          /\ Has(rest, "decay", j) => Pending("decay", j)
      BY DEF Rest
    <2>2. \A o : Has(todo', o, j) <=> Has(s, o, j) \/ Has(h, o, j) \/ Has(rest, o, j)
      BY <1>13, <1>14
    <2>3. /\ Has(s, "stop", j) => ~CanDecay(j)'
          /\ ~Has(s, "decay", j) /\ ~Has(h, "decay", j) /\ ~Has(h, "stop", j)
      BY <1>7, <1>10, <1>12
    <2>4. QED BY <2>1, <2>2, <2>3 DEF Pending
  <1>16. \A j \in Items : ItemFits(j)
    BY DEF DecayInv
  <1>17. ~In(decayMap, new) /\ ~In(tempItems, new) /\ decayState[new] = None
    <2>1. held[new] = 0 /\ ItemFits(new)
      BY <1>3, <1>4, <1>16
    <2>2. QED BY <1>3, <2>1 DEF ItemFits, One
  <1>18. \A j \in Items : In(decayMap, j) =>
            /\ decayState'[j] \in {"TRUE", "PENDING", "STOPPING"}
            /\ decayState'[j] = "TRUE" \/ ~CanDecay(j)' \/ AtHead(j)'
    BY <1>1, <1>7, <1>15, <1>16, <1>17 DEF ItemFits, EntryFits
  <1>19. \A j \in Items : In(tempItems, j) =>
            /\ decayState'[j] = "TRUE" \/ ~CanDecay(j)'
            /\ Pending("stop", j)' => ~CanDecay(j)'
            /\ ~Pending("decay", j)'
    BY <1>1, <1>7, <1>15, <1>16, <1>17 DEF ItemFits, CopyFits
  <1>20. \A j \in Items : decayState'[j] = "PENDING" => duration'[j] # None /\ duration'[j] > 0
    BY <1>1, <1>6, <1>16, <1>17 DEF ItemFits, DecayConstants
  <1>21. /\ decayState' \in [Items -> States \union {None}]
         /\ \A j \in Items : decayState'[j] = "TRUE" => decayState[j] = "TRUE"
    BY <1>1 DEF DecayTypeOK
  <1>22. FirstFits'
    BY <1>10, <1>12, <1>13, <1>14, FirstNone DEF Rest
  <1>23. QED BY <1>2, <1>6, <1>7, <1>8, <1>14, <1>18, <1>19, <1>20, <1>21, <1>22, SameBookings

(* Game::transformItem in place: checkDecay does not have the item in      *)
(* hand, and it starts again.                                              *)
LEMMA InvInPlace ==
  ASSUME DecayConstants,
         DecayInv, NEW i \in Items, NEW t \in Types, NEW rest,
         Rest(rest, "decay", i), ~In(tempItems, i), TransformInPlace(i, t, rest)
  PROVE  DecayInv'
  <1> USE DEF attributes, booked, events, loop
  <1> DEFINE ends == DecayTime[t] = 0 /\ t \notin StopTime /\ DecayTo[t] = Never
             kept == IF ends THEN None ELSE duration[i]
             renews == DecayTime[t] > 0 /\ (type[i] \notin StopTime \/ kept = None)
             state == IF renews THEN "PENDING"
                      ELSE IF ends /\ decayState[i] # None THEN "STOPPING" ELSE decayState[i]
             left == IF renews THEN DecayTime[t] ELSE kept
  <1>1. DecayTypeOK /\ rest \in Seq(Calls) /\ todo' = CallsFor("start", i) \o rest /\ parent' = parent
    BY DEF DecayInv, TransformInPlace, Rest
  <1>2. UNCHANGED <<now, timestamp, booked, events, loop, erased, undefined>>
    BY DEF TransformInPlace
  <1>3. /\ type' = [type EXCEPT ![i] = t]
        /\ decayState' = [decayState EXCEPT ![i] = state]
        /\ duration' = [duration EXCEPT ![i] = left]
    BY <1>1 DEF TransformInPlace, SetID, DecayTypeOK
  <1>4. /\ DecayTime[t] \in Nat /\ duration[i] \in Nat \union {None}
        /\ decayState[i] \in States \union {None}
    BY <1>1 DEF DecayConstants, DecayTypeOK
  <1>5. ItemFits(i)
    BY DEF DecayInv
  <1>6. /\ left \in Nat \union {None} /\ state \in States \union {None}
        /\ state = "PENDING" => left # None /\ left > 0
        /\ state = "TRUE" => decayState[i] = "TRUE"
        /\ decayState[i] \in {"TRUE", "PENDING", "STOPPING"} =>
             state \in {"TRUE", "PENDING", "STOPPING"}
    <2>1. CASE renews
      BY <1>4, <2>1 DEF DecayConstants, States
    <2>2. CASE ~renews /\ ends /\ decayState[i] # None
      BY <1>4, <2>2 DEF DecayConstants, States
    <2>3. CASE ~renews /\ ends /\ decayState[i] = None
      BY <1>4, <2>3 DEF DecayConstants, States
    <2>4. CASE ~renews /\ ~ends
      BY <1>4, <1>5, <2>4 DEF DecayConstants, States, ItemFits
    <2>5. QED BY <2>1, <2>2, <2>3, <2>4
  <1> HIDE DEF ends, kept, renews, state, left
  <1>7. /\ type' \in [Items -> Types] /\ duration' \in [Items -> Nat \union {None}]
        /\ decayState' \in [Items -> States \union {None}]
        /\ parent' \in [Items -> Items \union {World, Nowhere}]
    BY <1>1, <1>3, <1>6 DEF DecayTypeOK
  <1>8. decayState'[i] = state /\ duration'[i] = left
    BY <1>1, <1>3 DEF DecayTypeOK
  <1>9. \A j \in Items : j # i =>
          type'[j] = type[j] /\ decayState'[j] = decayState[j] /\ duration'[j] = duration[j]
    BY <1>1, <1>3 DEF DecayTypeOK
  <1>10. \A j \in Items : j # i => (CanDecay(j)' <=> CanDecay(j))
    BY <1>1, <1>9 DEF CanDecay, IsRemoved
  <1>11. PICK s : s = CallsFor("start", i)
    OBVIOUS
  <1>12. /\ s \in Seq(Calls) /\ s # <<>> /\ Head(s) = Call("start", i)
         /\ \A o, j : Has(s, o, j) => o = "start"
    BY <1>11, CallsForFits DEF Ops
  <1>13. todo' \in Seq(Calls) /\ \A o, j : Has(todo', o, j) <=> Has(s, o, j) \/ Has(rest, o, j)
    BY <1>1, <1>11, <1>12, HasConcat
  <1>14. /\ AtHead(i)'
         /\ \A j \in Items : /\ ~AtHead(j)
                             /\ Pending("stop", j)' => Pending("stop", j)
                             /\ Pending("decay", j)' => Pending("decay", j)
    <2>1. todo' # <<>> /\ Head(todo') = Call("start", i)
      BY <1>1, <1>11, <1>12, HeadConcat
    <2>2. QED BY <1>12, <1>13, <2>1 DEF Rest, Pending, AtHead
  <1>15. \A j \in Items : ItemFits(j)
    BY DEF DecayInv
  <1>16. ASSUME NEW j \in Items, In(decayMap, j)
         PROVE /\ decayState'[j] \in {"TRUE", "PENDING", "STOPPING"}
               /\ decayState'[j] = "TRUE" \/ ~CanDecay(j)' \/ AtHead(j)'
    BY <1>6, <1>8, <1>9, <1>10, <1>14, <1>15, <1>16 DEF ItemFits, EntryFits
  <1>17. ASSUME NEW j \in Items, In(tempItems, j)
         PROVE /\ decayState'[j] = "TRUE" \/ ~CanDecay(j)'
               /\ Pending("stop", j)' => ~CanDecay(j)'
               /\ ~Pending("decay", j)'
    BY <1>9, <1>10, <1>14, <1>15, <1>17 DEF ItemFits, CopyFits
  <1>18. \A j \in Items : decayState'[j] = "PENDING" => duration'[j] # None /\ duration'[j] > 0
    BY <1>6, <1>8, <1>9, <1>15 DEF ItemFits
  <1>19. \A j \in Items : decayState'[j] = "TRUE" => decayState[j] = "TRUE"
    BY <1>6, <1>8, <1>9
  <1>20. FirstFits'
    BY <1>12, <1>13, FirstNone DEF Rest
  <1>21. QED BY <1>2, <1>7, <1>13, <1>16, <1>17, <1>18, <1>19, <1>20, SameBookings

(* Game::startDecay, where it makes no entry.                              *)
LEMMA InvStartCalls ==
  ASSUME DecayConstants,
         DecayInv, NEW i \in Items, NEW rest, Rest(rest, "start", i),
         UNCHANGED <<now, items, attributes, booked, events, loop, erased, undefined>>,
         \/ /\ decayState[i] = "STOPPING" \/ (~CanDecay(i) /\ decayState[i] = "TRUE")
            /\ todo' = <<Call("stop", i)>> \o rest
         \/ /\ decayState[i] # "STOPPING" /\ (~CanDecay(i) \/ decayState[i] = "TRUE")
            /\ todo' = rest
         \/ /\ decayState[i] \notin {"TRUE", "STOPPING"} /\ CanDecay(i)
            /\ IntAttr(duration[i]) = 0
            /\ todo' = <<Call("decay", i)>> \o rest
  PROVE  DecayInv'
  <1>1. UNCHANGED <<now, type, attributes, booked, events, loop, erased, undefined>>
    BY DEF items
  <1>2. parent' = parent /\ parent' \in [Items -> Items \union {World, Nowhere}]
    BY DEF items, DecayInv, DecayTypeOK
  <1>3. \A j \in Items : CanDecay(j)' <=> CanDecay(j)
    BY DEF CanDecay, IsRemoved, items
  <1>4. \A j \in Items : ItemFits(j)
    BY DEF DecayInv
  <1>5. rest \in Seq(Calls)
    BY DEF Rest
  <1>6. CASE /\ decayState[i] = "STOPPING" \/ (~CanDecay(i) /\ decayState[i] = "TRUE")
             /\ todo' = <<Call("stop", i)>> \o rest
    <2>1. PICK h : h = <<Call("stop", i)>>
      OBVIOUS
    <2>2. /\ h \in Seq(Calls) /\ h # <<>> /\ Head(h) = Call("stop", i)
          /\ \A o, j : Has(h, o, j) <=> o = "stop" /\ j = i
      BY <2>1, HasOne DEF Ops
    <2>3. todo' \in Seq(Calls) /\ \A o, j : Has(todo', o, j) <=> Has(h, o, j) \/ Has(rest, o, j)
      BY <1>5, <1>6, <2>1, <2>2, HasConcat
    <2>4. /\ AtHead(i)'
          /\ \A j \in Items : /\ j # i => ~AtHead(j)
                              /\ j # i /\ Pending("stop", j)' => Pending("stop", j)
                              /\ Pending("decay", j)' => Pending("decay", j)
      <3>1. todo' # <<>> /\ Head(todo') = Call("stop", i)
        BY <1>5, <1>6, <2>1, <2>2, HeadConcat
      <3>2. QED BY <2>2, <2>3, <3>1 DEF Rest, Pending, AtHead
    <2>5. ASSUME NEW j \in Items, In(decayMap, j)
          PROVE  decayState[j] = "TRUE" \/ ~CanDecay(j)' \/ AtHead(j)'
      BY <1>3, <1>4, <2>4, <2>5 DEF ItemFits, EntryFits
    <2>6. ASSUME NEW j \in Items, In(tempItems, j)
          PROVE  /\ decayState[j] = "TRUE" \/ ~CanDecay(j)'
                 /\ Pending("stop", j)' => ~CanDecay(j)'
                 /\ ~Pending("decay", j)'
      <3>1. ItemFits(j)
        BY <1>4
      <3>2. CASE j = i
        BY <1>3, <1>6, <2>4, <2>6, <3>1, <3>2 DEF ItemFits, CopyFits
      <3>3. CASE j # i
        BY <1>3, <2>4, <2>6, <3>1, <3>3 DEF ItemFits, CopyFits
      <3>4. QED BY <3>2, <3>3
    <2>7. FirstFits'
      BY <2>2, <2>3, FirstNone DEF Rest
    <2>8. QED BY <1>1, <1>2, <2>3, <2>5, <2>6, <2>7, OnlyCalls
  <1>7. CASE /\ decayState[i] # "STOPPING" /\ (~CanDecay(i) \/ decayState[i] = "TRUE")
             /\ todo' = rest
    <2>1. \A j \in Items : /\ j # i => ~AtHead(j)
                           /\ Pending("stop", j)' => Pending("stop", j)
                           /\ Pending("decay", j)' => Pending("decay", j)
      BY <1>7 DEF Rest, Pending
    <2>2. ASSUME NEW j \in Items, In(decayMap, j)
          PROVE  decayState[j] = "TRUE" \/ ~CanDecay(j)' \/ AtHead(j)'
      <3>1. ItemFits(j)
        BY <1>4
      <3>2. QED BY <1>3, <1>7, <2>1, <2>2, <3>1 DEF ItemFits, EntryFits
    <2>3. ASSUME NEW j \in Items, In(tempItems, j)
          PROVE  /\ decayState[j] = "TRUE" \/ ~CanDecay(j)'
                 /\ Pending("stop", j)' => ~CanDecay(j)'
                 /\ ~Pending("decay", j)'
      BY <1>3, <1>4, <2>1, <2>3 DEF ItemFits, CopyFits
    <2>4. FirstFits'
      BY <1>5, <1>7, FirstNone DEF Rest
    <2>5. QED BY <1>1, <1>2, <1>5, <1>7, <2>2, <2>3, <2>4, OnlyCalls
  <1>8. CASE /\ decayState[i] \notin {"TRUE", "STOPPING"} /\ CanDecay(i)
             /\ IntAttr(duration[i]) = 0
             /\ todo' = <<Call("decay", i)>> \o rest
    <2>1. PICK h : h = <<Call("decay", i)>>
      OBVIOUS
    <2>2. h \in Seq(Calls) /\ \A o, j : Has(h, o, j) <=> o = "decay" /\ j = i
      BY <2>1, HasOne DEF Ops
    <2>3. todo' \in Seq(Calls) /\ \A o, j : Has(todo', o, j) <=> Has(h, o, j) \/ Has(rest, o, j)
      BY <1>5, <1>8, <2>1, <2>2, HasConcat
    <2>4. \A j \in Items : /\ j # i => ~AtHead(j)
                           /\ Pending("stop", j)' => Pending("stop", j)
                           /\ j # i /\ Pending("decay", j)' => Pending("decay", j)
      BY <2>2, <2>3 DEF Rest, Pending
    <2>5. ~In(decayMap, i) /\ ~In(tempItems, i)
      <3>1. ItemFits(i)
        BY <1>4
      <3>2. decayState[i] # "PENDING"
        BY <1>8, <3>1 DEF ItemFits, IntAttr
      <3>3. QED BY <1>8, <3>1, <3>2 DEF ItemFits, EntryFits, CopyFits
    <2>6. ASSUME NEW j \in Items, In(decayMap, j)
          PROVE  decayState[j] = "TRUE" \/ ~CanDecay(j)' \/ AtHead(j)'
      BY <1>3, <1>4, <2>4, <2>5, <2>6 DEF ItemFits, EntryFits
    <2>7. ASSUME NEW j \in Items, In(tempItems, j)
          PROVE  /\ decayState[j] = "TRUE" \/ ~CanDecay(j)'
                 /\ Pending("stop", j)' => ~CanDecay(j)'
                 /\ ~Pending("decay", j)'
      BY <1>3, <1>4, <2>4, <2>5, <2>7 DEF ItemFits, CopyFits
    <2>8. FirstFits'
      BY <1>1, <1>5, <1>8, FirstDecay DEF Rest, CanDecay
    <2>9. QED BY <1>1, <1>2, <2>3, <2>6, <2>7, <2>8, OnlyCalls
  <1>9. QED BY <1>6, <1>7, <1>8

(* Decay::startDecay.                                                      *)
LEMMA InvEnter ==
  ASSUME DecayConstants,
         DecayInv, NEW i \in Items, NEW rest, Rest(rest, "start", i),
         CanDecay(i), decayState[i] \notin {"TRUE", "STOPPING"}, IntAttr(duration[i]) > 0,
         Enter(i, rest)
  PROVE  DecayInv'
  <1>1. DecayTypeOK /\ \A j \in Items : ItemFits(j)
    BY DEF DecayInv
  <1>2. duration[i] \in Nat /\ now \in Nat
    BY <1>1 DEF DecayTypeOK, IntAttr, DecayConstants
  <1>3. PICK at \in Nat : at = now + duration[i]
    BY <1>2
  <1>4. PICK m : m = StopBooking(i).map
    OBVIOUS
  <1>5. PICK found \in BOOLEAN : found = StopBooking(i).found
    BY DEF StopBooking
  <1>6. /\ found <=> In(decayMap, i)
        /\ m \subseteq decayMap
        /\ \A e \in decayMap : e \in m <=> e[2] # i
    <2>1. \A e \in decayMap : timestamp[e[2]] = e[1]
      BY DEF DecayInv
    <2>2. QED BY <1>1, <1>4, <1>5, <2>1, Found
  <1>7. /\ \/ m = {} /\ AddEvent(at)
           \/ /\ m # {} /\ \A e \in m : at < e[1]
              /\ StopAndAddEvent(at)
           \/ /\ \E e \in m : e[1] <= at
              /\ UNCHANGED events
        /\ held' = [held EXCEPT ![i] = IF found THEN @ ELSE @ + 1]
        /\ decayMap' = m \union {<<at, i>>}
        /\ decayState' = [decayState EXCEPT ![i] = "TRUE"]
        /\ timestamp' = [timestamp EXCEPT ![i] = at]
        /\ todo' = rest
        /\ Erases(m)
        /\ UNCHANGED <<now, items, duration, loop, undefined>>
    BY <1>3, <1>4, <1>5 DEF Enter
  <1>8. /\ decayMap \subseteq Nat \X Items
        /\ \A e \in decayMap' : e = <<at, i>> \/ (e \in decayMap /\ e \in m /\ e[2] # i)
        /\ decayMap' \subseteq Nat \X Items
    BY <1>1, <1>3, <1>6, <1>7 DEF DecayTypeOK
  <1>9. \A j : In(decayMap', j) <=> j = i \/ In(decayMap, j)
    <2>1. \A j : In(m, j) <=> In(decayMap, j) /\ j # i
      BY <1>6, TakenOut
    <2>2. PICK x : x = <<at, i>>
      OBVIOUS
    <2>3. x[2] = i /\ decayMap' = m \union {x}
      BY <1>7, <2>2
    <2>4. \A j : In(decayMap', j) <=> j = i \/ In(m, j)
      BY <2>3 DEF In
    <2>5. QED BY <2>1, <2>4
  <1>10. /\ now' = now /\ type' = type /\ parent' = parent /\ duration' = duration
         /\ checking' = checking /\ tempItems' = tempItems /\ item' = item /\ it' = it
         /\ undefined' = undefined /\ todo' = rest
         /\ erased' \in BOOLEAN /\ (erased => erased')
    BY <1>1, <1>7 DEF items, loop, Erases, DecayTypeOK
  <1>11. /\ decayState'[i] = "TRUE" /\ timestamp'[i] = at
         /\ held'[i] = IF found THEN held[i] ELSE held[i] + 1
         /\ \A j \in Items : j # i => /\ decayState'[j] = decayState[j]
                                      /\ timestamp'[j] = timestamp[j] /\ held'[j] = held[j]
    BY <1>1, <1>7 DEF DecayTypeOK
  <1>12. ~In(tempItems, i)
    BY <1>1 DEF ItemFits, CopyFits
  <1>13. DecayTypeOK'
    <2>1. /\ held' \in [Items -> Nat]
          /\ decayState' \in [Items -> States \union {None}]
          /\ timestamp' \in [Items -> Nat \union {None}]
      BY <1>1, <1>7 DEF DecayTypeOK, States
    <2>2. event' \in Nat \union {None} /\ others' \subseteq Nat
      BY <1>1, <1>3, <1>7 DEF DecayTypeOK, AddEvent, StopAndAddEvent, events
    <2>3. rest \in Seq(Calls)
      BY DEF Rest
    <2>4. QED BY <1>1, <1>8, <1>10, <2>1, <2>2, <2>3 DEF DecayTypeOK
  <1>14. (\A e \in decayMap : timestamp[e[2]] = e[1])'
    <2>1. ASSUME NEW e \in decayMap' PROVE timestamp'[e[2]] = e[1]
      <3>1. CASE e = <<at, i>>
        BY <1>11, <3>1
      <3>2. CASE e \in decayMap /\ e[2] # i
        BY <1>8, <1>11, <3>2 DEF DecayInv
      <3>3. QED BY <1>8, <2>1, <3>1, <3>2
    <2>2. QED BY <2>1
  <1>15. ASSUME NEW j \in Items PROVE ItemFits(j)'
    <2>1. ItemFits(j)
      BY <1>1
    <2>2. /\ In(decayMap, j)' <=> j = i \/ In(decayMap, j)
          /\ In(tempItems, j)' <=> In(tempItems, j)
      BY <1>9, <1>10 DEF In
    <2>3. CanDecay(j)' <=> CanDecay(j)
      BY <1>10 DEF CanDecay, IsRemoved
    <2>4. /\ j # i => ~AtHead(j)
          /\ Pending("stop", j)' => Pending("stop", j)
          /\ Pending("decay", j)' => Pending("decay", j)
      BY <1>10 DEF Rest, Pending
    <2>5. CASE j = i
      <3>1. EntryFits(j)' /\ CopyFits(j)'
        BY <1>11, <1>12, <2>2, <2>5 DEF EntryFits, CopyFits
      <3>2. held'[j] = One(In(decayMap, j)') + One(In(tempItems, j)') + One(item' = j)
        BY <1>6, <1>10, <1>11, <1>12, <2>1, <2>2, <2>5 DEF ItemFits, One
      <3>3. QED BY <1>11, <2>2, <2>5, <3>1, <3>2 DEF ItemFits
    <2>6. CASE j # i
      <3>1. EntryFits(j)' /\ CopyFits(j)'
        BY <1>10, <1>11, <2>1, <2>2, <2>3, <2>4, <2>6 DEF ItemFits, EntryFits, CopyFits
      <3>2. QED BY <1>10, <1>11, <2>1, <2>2, <2>6, <3>1 DEF ItemFits, One
    <2>7. QED BY <2>5, <2>6
  <1>16. LoopFits'
    <2>1. it = None => erased' = erased
      BY <1>1, <1>7 DEF Erases, DecayTypeOK
    <2>2. QED BY <1>10, <2>1 DEF DecayInv, LoopFits
  <1>17. (~undefined => \A e \in decayMap : Covered(e[1]))'
    <2>1. SUFFICES ASSUME ~undefined, NEW e \in decayMap' PROVE Covered(e[1])'
      BY <1>10
    <2>2. \A f \in m : Covered(f[1])
      BY <1>6, <2>1 DEF DecayInv
    <2>3. e = <<at, i>> \/ e \in m
      BY <1>8
    <2>4. CASE (m = {} /\ AddEvent(at)) \/ ((\A f \in m : at < f[1]) /\ StopAndAddEvent(at))
      <3>1. event' = at /\ at # None
        BY <2>4 DEF AddEvent, StopAndAddEvent, DecayConstants
      <3>2. at <= e[1]
        <4>1. CASE e = <<at, i>>
          BY <4>1
        <4>2. CASE e \in m
          <5>1. at < e[1] /\ e[1] \in Nat
            BY <1>6, <1>8, <2>4, <4>2
          <5>2. QED BY <5>1
        <4>3. QED BY <2>3, <4>1, <4>2
      <3>3. QED BY <3>1, <3>2 DEF Covered
    <2>5. CASE (\E f \in m : f[1] <= at) /\ UNCHANGED events
      <3>1. \A t : Covered(t) => Covered(t)'
        BY <1>10, <2>5, CoveredKept DEF events
      <3>2. CASE e \in m
        BY <2>2, <3>1, <3>2
      <3>3. CASE e = <<at, i>>
        <4>1. PICK f \in m : f[1] <= at
          BY <2>5
        <4>2. PICK t \in Nat : t = f[1]
          BY <1>6, <1>8
        <4>3. Covered(t) /\ t <= at
          BY <2>2, <4>1, <4>2
        <4>4. (others \union {event}) \ {None} \subseteq Nat /\ it \in Nat \union {None}
          BY <1>1 DEF DecayTypeOK
        <4>5. Covered(at)
          BY <4>3, <4>4 DEF Covered
        <4>6. QED BY <3>1, <3>3, <4>5
      <3>4. QED BY <2>3, <3>2, <3>3
    <2>6. QED BY <1>7, <2>4, <2>5
  <1>18. FirstFits'
    BY <1>10, FirstNone DEF Rest
  <1>19. QED BY <1>13, <1>14, <1>15, <1>16, <1>17, <1>18 DEF DecayInv

(* Decay::stopDecay.                                                       *)
LEMMA InvStop ==
  ASSUME DecayConstants,
         DecayInv, NEW i \in Items, NEW rest, Rest(rest, "stop", i),
         Pending("stop", i), StopDecay(i, rest)
  PROVE  DecayInv'
  <1>1. DecayTypeOK /\ \A j \in Items : ItemFits(j)
    BY DEF DecayInv
  <1>2. PICK m : m = IF decayState[i] # None THEN StopBooking(i).map ELSE decayMap
    OBVIOUS
  <1>3. PICK found \in BOOLEAN : found = IF decayState[i] # None THEN StopBooking(i).found ELSE FALSE
    BY DEF StopBooking
  <1>4. /\ found <=> In(decayMap, i)
        /\ m \subseteq decayMap
        /\ \A e \in decayMap : e \in m <=> e[2] # i
    <2>1. \A e \in decayMap : timestamp[e[2]] = e[1]
      BY DEF DecayInv
    <2>2. CASE decayState[i] # None
      BY <1>1, <1>2, <1>3, <2>1, <2>2, Found
    <2>3. CASE decayState[i] = None
      <3>1. ~In(decayMap, i)
        BY <1>1, <2>3 DEF ItemFits, EntryFits, DecayConstants
      <3>2. \A e \in decayMap : e[2] # i
        BY <3>1 DEF In
      <3>3. QED BY <1>2, <1>3, <2>3, <3>1, <3>2
    <2>4. QED BY <2>2, <2>3
  <1>5. /\ decayMap' = m
        /\ held' = [held EXCEPT ![i] = IF found THEN @ - 1 ELSE @]
        /\ duration' = [duration EXCEPT ![i] = IF found /\ @ # None THEN GetDuration(i) ELSE @]
        /\ decayState' = [decayState EXCEPT ![i] = IF found \/ timestamp[i] = None
                                                   THEN None ELSE @]
        /\ timestamp' = [timestamp EXCEPT ![i] = IF decayState[i] # None THEN None ELSE @]
        /\ todo' = rest
        /\ Erases(m)
        /\ UNCHANGED <<now, items, events, loop, undefined>>
    BY <1>2, <1>3 DEF StopDecay
  <1>6. \A j : In(decayMap', j) <=> In(decayMap, j) /\ j # i
    BY <1>4, <1>5, TakenOut
  <1>7. /\ now' = now /\ type' = type /\ parent' = parent /\ event' = event /\ others' = others
        /\ checking' = checking /\ tempItems' = tempItems /\ item' = item /\ it' = it
        /\ undefined' = undefined /\ todo' = rest
        /\ erased' \in BOOLEAN /\ (erased => erased') /\ (it = None => erased' = erased)
    BY <1>1, <1>5 DEF items, events, loop, Erases, DecayTypeOK
  <1>8. /\ decayState'[i] = IF found \/ timestamp[i] = None THEN None ELSE decayState[i]
        /\ duration'[i] = IF found /\ duration[i] # None THEN GetDuration(i) ELSE duration[i]
        /\ held'[i] = IF found THEN held[i] - 1 ELSE held[i]
        /\ \A j \in Items : j # i => /\ decayState'[j] = decayState[j]
                                     /\ duration'[j] = duration[j]
                                     /\ timestamp'[j] = timestamp[j] /\ held'[j] = held[j]
    BY <1>1, <1>5 DEF DecayTypeOK
  <1>9. DecayTypeOK'
    <2>1. held' \in [Items -> Nat]
      <3>1. held[i] \in Nat /\ (found => held[i] # 0)
        <4>1. held[i] \in Nat /\ ItemFits(i)
          BY <1>1 DEF DecayTypeOK
        <4>2. held[i] = One(In(decayMap, i)) + One(In(tempItems, i)) + One(item = i)
          BY <4>1 DEF ItemFits
        <4>3. QED BY <1>4, <4>1, <4>2 DEF One
      <3>2. PICK h \in Nat : h = IF found THEN held[i] - 1 ELSE held[i]
        BY <3>1
      <3>3. held' = [held EXCEPT ![i] = h]
        BY <1>5, <3>2
      <3>4. QED BY <1>1, <3>3 DEF DecayTypeOK
    <2>2. duration' \in [Items -> Nat \union {None}]
      <3>1. PICK d \in Nat \union {None} :
              d = IF found /\ duration[i] # None THEN GetDuration(i) ELSE duration[i]
        BY <1>1, GetDurationType DEF DecayTypeOK
      <3>2. duration' = [duration EXCEPT ![i] = d]
        BY <1>5, <3>1
      <3>3. QED BY <1>1, <3>2 DEF DecayTypeOK
    <2>3. /\ decayState' \in [Items -> States \union {None}]
          /\ timestamp' \in [Items -> Nat \union {None}]
      BY <1>1, <1>5 DEF DecayTypeOK
    <2>4. rest \in Seq(Calls) /\ decayMap' \subseteq Nat \X Items
      BY <1>1, <1>4, <1>5 DEF Rest, DecayTypeOK
    <2>5. QED BY <1>1, <1>7, <2>1, <2>2, <2>3, <2>4 DEF DecayTypeOK
  <1>10. (\A e \in decayMap : timestamp[e[2]] = e[1])'
    <2>1. ASSUME NEW e \in decayMap' PROVE timestamp'[e[2]] = e[1]
      <3>1. e \in decayMap /\ e[2] # i /\ e[2] \in Items
        BY <1>1, <1>4, <1>5 DEF DecayTypeOK
      <3>2. QED BY <1>8, <3>1 DEF DecayInv
    <2>2. QED BY <2>1
  <1>11. ASSUME NEW j \in Items PROVE ItemFits(j)'
    <2>1. ItemFits(j)
      BY <1>1
    <2>2. /\ In(decayMap, j)' <=> In(decayMap, j) /\ j # i
          /\ In(tempItems, j)' <=> In(tempItems, j)
      BY <1>6, <1>7 DEF In
    <2>3. CanDecay(j)' <=> CanDecay(j)
      BY <1>7 DEF CanDecay, IsRemoved
    <2>4. /\ j # i => ~AtHead(j)
          /\ Pending("stop", j)' => Pending("stop", j)
          /\ Pending("decay", j)' => Pending("decay", j)
      BY <1>7 DEF Rest, Pending
    <2>5. CASE j = i
      <3>1. EntryFits(j)'
        BY <2>2, <2>5 DEF EntryFits
      <3>2. In(tempItems, i) => ~CanDecay(i)
        BY <2>1, <2>5 DEF ItemFits, CopyFits
      <3>3. CopyFits(j)'
        BY <1>7, <2>1, <2>2, <2>3, <2>4, <2>5, <3>2 DEF ItemFits, CopyFits
      <3>4. held'[j] = One(In(decayMap, j)') + One(In(tempItems, j)') + One(item' = j)
        <4>1. held[i] \in Nat
          BY <1>1 DEF DecayTypeOK
        <4>2. CASE found
          BY <1>4, <1>7, <1>8, <2>1, <2>2, <2>5, <4>1, <4>2 DEF ItemFits, One
        <4>3. CASE ~found
          BY <1>4, <1>7, <1>8, <2>1, <2>2, <2>5, <4>1, <4>3 DEF ItemFits, One
        <4>4. QED BY <4>2, <4>3
      <3>5. decayState'[j] \in {"TRUE", "PENDING"} => ~found /\ decayState'[j] = decayState[j]
        BY <1>8, <2>5 DEF DecayConstants
      <3>6. QED BY <1>4, <1>8, <2>1, <2>2, <2>5, <3>1, <3>3, <3>4, <3>5 DEF ItemFits
    <2>6. CASE j # i
      <3>1. EntryFits(j)' /\ CopyFits(j)'
        BY <1>7, <1>8, <2>1, <2>2, <2>3, <2>4, <2>6 DEF ItemFits, EntryFits, CopyFits
      <3>2. QED BY <1>7, <1>8, <2>1, <2>2, <2>6, <3>1 DEF ItemFits, One
    <2>7. QED BY <2>5, <2>6
  <1>12. LoopFits'
    BY <1>7 DEF DecayInv, LoopFits
  <1>13. (~undefined => \A e \in decayMap : Covered(e[1]))'
    <2>1. \A t : Covered(t) => Covered(t)'
      BY <1>7, CoveredKept
    <2>2. QED BY <1>4, <1>5, <1>7, <2>1 DEF DecayInv
  <1>14. FirstFits'
    BY <1>7, FirstNone DEF Rest
  <1>15. QED BY <1>9, <1>10, <1>11, <1>12, <1>13, <1>14 DEF DecayInv

-----------------------------------------------------------------------------
(* Decay::checkDecay.                                                      *)
LEMMA InvCheckDecay ==
  ASSUME DecayConstants,
         DecayInv, CheckDecay
  PROVE  DecayInv'
  <1>1. DecayTypeOK /\ Idle /\ \A j \in Items : ItemFits(j)
    BY DEF DecayInv, CheckDecay
  <1>2. /\ todo = <<>> /\ tempItems = {} /\ item = None /\ it = None /\ ~erased
        /\ \A j : ~In(tempItems, j)
        /\ \A j \in Items : In(decayMap, j) => decayState[j] = "TRUE" \/ ~CanDecay(j)
    BY <1>1, WhenIdle
  <1>3. PICK due : due = {e \in decayMap : e[1] <= now}
    OBVIOUS
  <1>4. PICK left : left = decayMap \ due
    OBVIOUS
  <1>5. /\ decayMap' = left /\ checking' = TRUE /\ tempItems' = due /\ item' = item
        /\ \/ left = {} /\ it' = None
           \/ \E e \in left : it' = e[1] /\ \A f \in left : e[1] <= f[1]
        /\ \/ event # None /\ event <= now /\ event' = None /\ UNCHANGED others
           \/ \E at \in others : at <= now /\ others' = others \ {at} /\ UNCHANGED event
        /\ UNCHANGED <<now, items, attributes, held, todo, erased, undefined>>
    BY <1>3, <1>4 DEF CheckDecay
  <1>6. /\ now' = now /\ type' = type /\ parent' = parent /\ decayState' = decayState
        /\ duration' = duration /\ timestamp' = timestamp /\ held' = held /\ todo' = todo
        /\ erased' = erased /\ undefined' = undefined
    BY <1>5 DEF items, attributes
  <1>7. \A e \in decayMap : e[1] \in Nat /\ e[2] \in Items /\ e = <<e[1], e[2]>>
    BY <1>1 DEF DecayTypeOK
  <1>8. \A e \in left : e \in decayMap /\ e[1] > now
    BY <1>1, <1>3, <1>4, <1>7 DEF DecayTypeOK
  <1>9. \A e, f \in decayMap : e[2] = f[2] => e = f
    BY <1>7 DEF DecayInv
  <1>10. DecayTypeOK'
    <2>1. /\ decayMap' \subseteq Nat \X Items /\ tempItems' \subseteq Nat \X Items
      BY <1>1, <1>3, <1>4, <1>5 DEF DecayTypeOK
    <2>2. it' \in Nat \union {None}
      BY <1>5, <1>7, <1>8
    <2>3. event' \in Nat \union {None} /\ others' \subseteq Nat
      BY <1>1, <1>5 DEF DecayTypeOK
    <2>4. QED BY <1>1, <1>5, <1>6, <2>1, <2>2, <2>3 DEF DecayTypeOK
  <1>11. (\A e \in decayMap : timestamp[e[2]] = e[1])'
    BY <1>5, <1>6, <1>8 DEF DecayInv
  <1>12. ASSUME NEW j \in Items PROVE ItemFits(j)'
    <2>1. ItemFits(j)
      BY <1>1
    <2>2. /\ In(decayMap, j) <=> In(left, j) \/ In(due, j)
          /\ ~(In(left, j) /\ In(due, j))
      BY <1>3, <1>4, <1>9 DEF In
    <2>3. In(decayMap, j)' = In(left, j) /\ In(tempItems, j)' = In(due, j)
      BY <1>5 DEF In
    <2>4. CanDecay(j)' <=> CanDecay(j)
      BY <1>6 DEF CanDecay, IsRemoved
    <2>5. \A o : ~Pending(o, j)'
      BY <1>2, <1>6, HasNone DEF Pending
    <2>6. item' # j
      BY <1>2, <1>5 DEF DecayConstants
    <2>7. EntryFits(j)'
      BY <1>2, <1>6, <2>1, <2>2, <2>3, <2>4 DEF ItemFits, EntryFits
    <2>8. CopyFits(j)'
      BY <1>2, <1>6, <2>2, <2>3, <2>4, <2>5, <2>6 DEF CopyFits
    <2>9. held'[j] = One(In(decayMap, j)') + One(In(tempItems, j)') + One(item' = j)
      <3>1. held[j] = One(In(decayMap, j))
        BY <1>2, <1>5, <2>1, <2>6 DEF ItemFits, One
      <3>2. QED BY <1>6, <2>2, <2>3, <2>6, <3>1 DEF One
    <2>10. QED BY <1>2, <1>6, <2>1, <2>2, <2>3, <2>7, <2>8, <2>9 DEF ItemFits
  <1>13. LoopFits'
    <2>1. \A e, f \in tempItems' : e[2] = f[2] => e = f
      BY <1>3, <1>5, <1>9
    <2>2. it' # None => it' > now'
      BY <1>5, <1>6, <1>8
    <2>3. QED BY <1>5, <2>1, <2>2 DEF LoopFits
  <1>14. (~undefined => \A e \in decayMap : Covered(e[1]))'
    <2>1. SUFFICES ASSUME NEW e \in left PROVE Covered(e[1])'
      BY <1>5
    <2>2. PICK f \in left : it' = f[1] /\ \A g \in left : f[1] <= g[1]
      BY <1>5
    <2>3. it' # None /\ it' <= e[1]
      BY <1>7, <1>8, <2>2 DEF DecayConstants
    <2>4. QED BY <2>3 DEF Covered
  <1>15. FirstFits'
    BY <1>6 DEF DecayInv, FirstFits
  <1>16. QED BY <1>10, <1>11, <1>12, <1>13, <1>14, <1>15 DEF DecayInv

(* Decay::checkDecay gives an item up before it decays.                    *)
LEMMA InvCheckItem ==
  ASSUME DecayConstants,
         DecayInv, NEW e \in tempItems, CheckItem(e)
  PROVE  DecayInv'
  <1>1. DecayTypeOK /\ \A j \in Items : ItemFits(j)
    BY DEF DecayInv
  <1>2. PICK i \in Items : i = e[2]
    BY <1>1 DEF DecayTypeOK
  <1>3. /\ checking /\ todo = <<>> /\ item = None
        /\ \/ todo' = <<Call("decay", i)>> /\ UNCHANGED duration
           \/ duration' = [duration EXCEPT ![i] = GetDuration(i)] /\ UNCHANGED todo
        /\ decayState' = [decayState EXCEPT ![i] = "FALSE"]
        /\ timestamp' = [timestamp EXCEPT ![i] = None]
        /\ tempItems' = tempItems \ {e} /\ item' = i
        /\ UNCHANGED <<now, items, booked, events, checking, it, erased, undefined>>
    BY <1>2 DEF CheckItem
  <1>4. /\ now' = now /\ type' = type /\ parent' = parent /\ held' = held /\ decayMap' = decayMap
        /\ event' = event /\ others' = others /\ checking' = checking /\ it' = it
        /\ erased' = erased /\ undefined' = undefined
    BY <1>3 DEF items, booked, events
  <1>5. In(tempItems, i) /\ ~In(decayMap, i) /\ item # i
    <2>1. In(tempItems, i)
      BY <1>2 DEF In
    <2>2. QED BY <1>1, <2>1 DEF ItemFits, EntryFits, CopyFits
  <1>6. \A j : In(tempItems', j) <=> In(tempItems, j) /\ j # i
    BY <1>2, <1>3 DEF In, DecayInv, LoopFits
  <1>7. /\ todo' \in Seq(Calls)
        /\ \A o, j : Has(todo', o, j) => o = "decay" /\ j = i
    <2>1. CASE todo' = <<Call("decay", i)>>
      BY <2>1, HasOne DEF Ops
    <2>2. CASE todo' = todo
      BY <1>1, <1>3, <2>2, HasNone DEF DecayTypeOK
    <2>3. QED BY <1>3, <2>1, <2>2
  <1>8. duration' \in [Items -> Nat \union {None}] /\ \A j \in Items : j # i => duration'[j] = duration[j]
    <2>1. PICK d \in Nat : d = GetDuration(i)
      BY <1>1, GetDurationType
    <2>2. duration' = duration \/ duration' = [duration EXCEPT ![i] = d]
      BY <1>3, <2>1
    <2>3. QED BY <1>1, <2>2 DEF DecayTypeOK
  <1>9. /\ decayState'[i] = "FALSE"
        /\ \A j \in Items : j # i => decayState'[j] = decayState[j] /\ timestamp'[j] = timestamp[j]
    BY <1>1, <1>3 DEF DecayTypeOK
  <1>10. DecayTypeOK'
    <2>1. /\ decayState' \in [Items -> States \union {None}]
          /\ timestamp' \in [Items -> Nat \union {None}]
      BY <1>1, <1>3 DEF DecayTypeOK, States
    <2>2. tempItems' \subseteq Nat \X Items /\ item' \in Items \union {None}
      BY <1>1, <1>3 DEF DecayTypeOK
    <2>3. QED BY <1>1, <1>4, <1>7, <1>8, <2>1, <2>2 DEF DecayTypeOK
  <1>11. (\A f \in decayMap : timestamp[f[2]] = f[1])'
    <2>1. \A f \in decayMap : f[2] \in Items /\ f[2] # i /\ timestamp[f[2]] = f[1]
      BY <1>1, <1>5 DEF DecayTypeOK, In, DecayInv
    <2>2. QED BY <1>4, <1>9, <2>1
  <1>12. ASSUME NEW j \in Items PROVE ItemFits(j)'
    <2>1. ItemFits(j)
      BY <1>1
    <2>2. /\ In(decayMap, j)' <=> In(decayMap, j)
          /\ In(tempItems, j)' <=> In(tempItems, j) /\ j # i
      BY <1>4, <1>6 DEF In
    <2>3. CanDecay(j)' <=> CanDecay(j)
      BY <1>4 DEF CanDecay, IsRemoved
    <2>4. /\ ~AtHead(j)
          /\ ~Pending("stop", j)' /\ (j # i => ~Pending("decay", j)')
      BY <1>3, <1>7, HasNone DEF Pending, AtHead
    <2>5. CASE j = i
      <3>1. EntryFits(j)' /\ CopyFits(j)'
        BY <1>5, <2>2, <2>5 DEF EntryFits, CopyFits
      <3>2. held'[j] = One(In(decayMap, j)') + One(In(tempItems, j)') + One(item' = j)
        BY <1>3, <1>4, <1>5, <2>1, <2>2, <2>5 DEF ItemFits, One
      <3>3. QED BY <1>9, <2>5, <3>1, <3>2 DEF ItemFits
    <2>6. CASE j # i
      <3>1. item' # j /\ item # j
        BY <1>3, <2>6 DEF DecayConstants
      <3>2. EntryFits(j)'
        BY <1>9, <2>1, <2>2, <2>3, <2>4, <2>6 DEF ItemFits, EntryFits
      <3>3. CopyFits(j)'
        BY <1>9, <2>1, <2>2, <2>3, <2>4, <2>6, <3>1 DEF ItemFits, CopyFits
      <3>4. QED BY <1>4, <1>8, <1>9, <2>1, <2>2, <2>6, <3>1, <3>2, <3>3 DEF ItemFits, One
    <2>7. QED BY <2>5, <2>6
  <1>13. LoopFits'
    BY <1>3, <1>4 DEF DecayInv, LoopFits
  <1>14. (~undefined => \A f \in decayMap : Covered(f[1]))'
    <2>1. \A t : Covered(t) => Covered(t)'
      BY <1>4, CoveredKept
    <2>2. QED BY <1>4, <2>1 DEF DecayInv
  <1>15. FirstFits'
    <2>1. CASE CanDecay(i) /\ todo' = <<Call("decay", i)>>
      <3>1. todo' = <<Call("decay", i)>> \o <<>>
        BY <2>1, HasOne, ConcatEmptySeq DEF Ops
      <3>2. <<>> \in Seq(Calls) /\ \A j : ~Has(<<>>, "decay", j)
        BY HasNone
      <3>3. DecayTo[type'[i]] # Never
        BY <1>4, <2>1 DEF CanDecay
      <3>4. QED BY <3>1, <3>2, <3>3, FirstDecay
    <2>2. CASE todo' = todo
      BY <1>4, <2>2 DEF DecayInv, FirstFits
    <2>3. QED BY <1>2, <2>1, <2>2 DEF CheckItem
  <1>16. QED BY <1>10, <1>11, <1>12, <1>13, <1>14, <1>15 DEF DecayInv

(* Decay::checkDecay releases the item.                                    *)
LEMMA InvRelease ==
  ASSUME DecayConstants,
         DecayInv, Release
  PROVE  DecayInv'
  <1>1. DecayTypeOK /\ \A j \in Items : ItemFits(j)
    BY DEF DecayInv
  <1>2. PICK i \in Items : i = item
    BY <1>1 DEF Release, DecayTypeOK
  <1>3. /\ held' = [held EXCEPT ![i] = @ - 1] /\ item' = None
        /\ now' = now /\ type' = type /\ parent' = parent /\ decayState' = decayState
        /\ duration' = duration /\ timestamp' = timestamp /\ decayMap' = decayMap
        /\ event' = event /\ others' = others /\ todo' = todo /\ checking' = checking
        /\ tempItems' = tempItems /\ it' = it /\ erased' = erased /\ undefined' = undefined
        /\ checking
    BY <1>2 DEF Release, items, attributes, events
  <1>4. held[i] \in Nat /\ held[i] = One(In(decayMap, i)) + One(In(tempItems, i)) + 1
    BY <1>1, <1>2 DEF ItemFits, DecayTypeOK, One
  <1>5. held[i] - 1 \in Nat
    BY <1>4 DEF One
  <1>6. /\ held' \in [Items -> Nat] /\ held'[i] = held[i] - 1
        /\ \A j \in Items : j # i => held'[j] = held[j]
    BY <1>1, <1>3, <1>5 DEF DecayTypeOK
  <1>7. DecayTypeOK'
    BY <1>1, <1>3, <1>6 DEF DecayTypeOK
  <1>8. (\A e \in decayMap : timestamp[e[2]] = e[1])'
    BY <1>3 DEF DecayInv
  <1>9. ASSUME NEW j \in Items PROVE ItemFits(j)'
    <2>1. ItemFits(j)
      BY <1>1
    <2>2. /\ In(decayMap, j)' <=> In(decayMap, j)
          /\ In(tempItems, j)' <=> In(tempItems, j)
          /\ CanDecay(j)' <=> CanDecay(j)
          /\ \A o : Pending(o, j)' <=> Pending(o, j)
          /\ AtHead(j)' <=> AtHead(j)
      BY <1>3 DEF In, CanDecay, IsRemoved, Pending, AtHead
    <2>3. item' # j
      BY <1>3 DEF DecayConstants
    <2>4. EntryFits(j)' /\ CopyFits(j)'
      BY <1>3, <2>1, <2>2, <2>3 DEF ItemFits, EntryFits, CopyFits
    <2>5. held'[j] = One(In(decayMap, j)') + One(In(tempItems, j)') + One(item' = j)
      <3>1. CASE j = i
        BY <1>4, <1>6, <2>2, <2>3, <3>1 DEF One
      <3>2. CASE j # i
        BY <1>2, <1>6, <2>1, <2>2, <2>3, <3>2 DEF One, ItemFits
      <3>3. QED BY <3>1, <3>2
    <2>6. QED BY <1>3, <2>1, <2>2, <2>4, <2>5 DEF ItemFits
  <1>10. LoopFits'
    BY <1>3 DEF DecayInv, LoopFits
  <1>11. (~undefined => \A f \in decayMap : Covered(f[1]))'
    <2>1. \A t : Covered(t) => Covered(t)'
      BY <1>3, CoveredKept
    <2>2. QED BY <1>3, <2>1 DEF DecayInv
  <1>12. FirstFits'
    BY <1>3 DEF DecayInv, FirstFits
  <1>13. QED BY <1>7, <1>8, <1>9, <1>10, <1>11, <1>12 DEF DecayInv

(* Decay::checkDecay makes an event for the entry it remembered: unless    *)
(* that one was erased, it comes in time for every entry.                  *)
LEMMA InvCheckEnd ==
  ASSUME DecayConstants,
         DecayInv, CheckEnd
  PROVE  DecayInv'
  <1>1. DecayTypeOK /\ \A j \in Items : ItemFits(j)
    BY DEF DecayInv
  <1>2. /\ todo' = todo /\ tempItems' = tempItems /\ item' = item
        /\ now' = now /\ type' = type /\ parent' = parent /\ decayState' = decayState
        /\ duration' = duration /\ timestamp' = timestamp /\ decayMap' = decayMap /\ held' = held
        /\ checking' = FALSE /\ it' = None /\ erased' = FALSE
        /\ item = None /\ tempItems = {}
    BY DEF CheckEnd, items, attributes, booked
  <1>3. now \in Nat /\ it \in Nat \union {None} /\ event \in Nat \union {None} /\ others \subseteq Nat
    BY <1>1 DEF DecayTypeOK
  <1>4. \/ it = None /\ event' = event /\ others' = others /\ undefined' = undefined
        \/ /\ it # None /\ ~erased /\ undefined' = undefined
           /\ \E at \in Nat : at <= it /\ AddEvent(at)
        \/ undefined' = TRUE /\ \E at \in Nat : AddEvent(at)
    <2>1. CASE it = None /\ UNCHANGED <<events, undefined>>
      BY <2>1 DEF events
    <2>2. CASE it # None /\ ~erased /\ AddEvent(IF it > now THEN it ELSE now + 1) /\ UNCHANGED undefined
      <3>1. it \in Nat /\ it > now
        BY <1>3, <2>2 DEF DecayInv, LoopFits
      <3>2. it <= it /\ AddEvent(it)
        BY <2>2, <3>1
      <3>3. QED BY <2>2, <3>1, <3>2
    <2>3. CASE undefined' = TRUE /\ \E at \in now + 1 .. MaxTime + 1 : AddEvent(at)
      <3>1. PICK at \in now + 1 .. MaxTime + 1 : AddEvent(at)
        BY <2>3
      <3>2. at \in Nat
        BY <1>3, <3>1 DEF DecayConstants
      <3>3. QED BY <2>3, <3>1, <3>2
    <2>4. QED BY <2>1, <2>2, <2>3 DEF CheckEnd
  <1>5. event' \in Nat \union {None} /\ others' \subseteq Nat /\ undefined' \in BOOLEAN
    BY <1>1, <1>3, <1>4 DEF AddEvent, DecayTypeOK
  <1>6. DecayTypeOK'
    BY <1>1, <1>2, <1>5 DEF DecayTypeOK
  <1>7. (\A e \in decayMap : timestamp[e[2]] = e[1])'
    BY <1>2 DEF DecayInv
  <1>8. ASSUME NEW j \in Items PROVE ItemFits(j)'
    <2>1. ItemFits(j)
      BY <1>1
    <2>2. /\ In(decayMap, j)' <=> In(decayMap, j)
          /\ In(tempItems, j)' <=> In(tempItems, j)
          /\ CanDecay(j)' <=> CanDecay(j)
          /\ \A o : Pending(o, j)' <=> Pending(o, j)
          /\ AtHead(j)' <=> AtHead(j)
      BY <1>2 DEF In, CanDecay, IsRemoved, Pending, AtHead
    <2>3. EntryFits(j)' /\ CopyFits(j)'
      BY <1>2, <2>1, <2>2 DEF ItemFits, EntryFits, CopyFits
    <2>4. QED BY <1>2, <2>1, <2>2, <2>3 DEF ItemFits, One
  <1>9. LoopFits'
    BY <1>2 DEF LoopFits
  <1>10. (~undefined => \A e \in decayMap : Covered(e[1]))'
    <2>1. SUFFICES ASSUME ~undefined', NEW e \in decayMap PROVE Covered(e[1])'
      BY <1>2
    <2>2. PICK t \in Nat : t = e[1]
      BY <1>1 DEF DecayTypeOK
    <2>3. ~undefined /\ Covered(t)
      <3>1. ~undefined
        BY <1>4, <2>1
      <3>2. QED BY <2>2, <3>1 DEF DecayInv
    <2>4. CASE it = None /\ event' = event /\ others' = others
      BY <2>2, <2>3, <2>4 DEF Covered
    <2>5. CASE it # None /\ ~erased /\ \E at \in Nat : at <= it /\ AddEvent(at)
      <3>1. PICK at \in Nat : at <= it /\ AddEvent(at)
        BY <2>5
      <3>2. event' = at /\ at # None /\ (event # None => event \in others')
             /\ others \subseteq others'
        BY <3>1 DEF AddEvent, DecayConstants
      <3>3. CASE it <= t
        <4>1. at <= t
          BY <1>3, <2>5, <3>1, <3>3
        <4>2. QED BY <2>2, <3>2, <4>1 DEF Covered
      <3>4. CASE \E u \in others \union {event} : u # None /\ u <= t
        BY <2>2, <3>2, <3>4 DEF Covered
      <3>5. QED BY <2>3, <2>5, <3>3, <3>4 DEF Covered
    <2>6. QED BY <1>4, <2>1, <2>4, <2>5
  <1>11. FirstFits'
    BY <1>2 DEF DecayInv, FirstFits
  <1>12. QED BY <1>6, <1>7, <1>8, <1>9, <1>10, <1>11 DEF DecayInv

(* The clock moves on.                                                     *)
LEMMA InvTick ==
  ASSUME DecayConstants,
         DecayInv, Tick
  PROVE  DecayInv'
  <1>1. DecayTypeOK /\ Idle /\ now' = now + 1 /\ now < MaxTime /\ \A j \in Items : ItemFits(j)
    BY DEF Tick, DecayInv
  <1>2. /\ todo' = todo /\ tempItems' = tempItems /\ item' = item /\ it' = it
        /\ type' = type /\ parent' = parent /\ decayState' = decayState
        /\ duration' = duration /\ timestamp' = timestamp /\ decayMap' = decayMap /\ held' = held
        /\ event' = event /\ others' = others
        /\ checking' = checking /\ erased' = erased /\ undefined' = undefined
    BY DEF Tick, items, attributes, booked, events, loop
  <1>3. now' \in 0 .. MaxTime
    BY <1>1 DEF DecayTypeOK, DecayConstants
  <1>4. DecayTypeOK'
    BY <1>1, <1>2, <1>3 DEF DecayTypeOK
  <1>5. (\A e \in decayMap : timestamp[e[2]] = e[1])'
    BY <1>2 DEF DecayInv
  <1>6. ASSUME NEW j \in Items PROVE ItemFits(j)'
    <2>1. ItemFits(j)
      BY <1>1
    <2>2. /\ In(decayMap, j)' <=> In(decayMap, j)
          /\ In(tempItems, j)' <=> In(tempItems, j)
          /\ CanDecay(j)' <=> CanDecay(j)
          /\ \A o : Pending(o, j)' <=> Pending(o, j)
          /\ AtHead(j)' <=> AtHead(j)
      BY <1>2 DEF In, CanDecay, IsRemoved, Pending, AtHead
    <2>3. EntryFits(j)' /\ CopyFits(j)'
      BY <1>2, <2>1, <2>2 DEF ItemFits, EntryFits, CopyFits
    <2>4. QED BY <1>2, <2>1, <2>2, <2>3 DEF ItemFits, One
  <1>7. LoopFits'
    BY <1>1, <1>2, WhenIdle DEF LoopFits
  <1>8. (~undefined => \A e \in decayMap : Covered(e[1]))'
    <2>1. \A t : Covered(t) => Covered(t)'
      BY <1>2, CoveredKept
    <2>2. QED BY <1>2, <2>1 DEF DecayInv
  <1>9. FirstFits'
    BY <1>2 DEF DecayInv, FirstFits
  <1>10. QED BY <1>4, <1>5, <1>6, <1>7, <1>8, <1>9 DEF DecayInv

-----------------------------------------------------------------------------
(* Game::startDecay.                                                       *)
LEMMA InvStart ==
  ASSUME DecayConstants,
         DecayInv, NEW i \in Items, NEW rest, Rest(rest, "start", i),
         StartDecay(i, rest)
  PROVE  DecayInv'
  <1> DEFINE Same == UNCHANGED <<now, items, attributes, booked, events, loop, erased, undefined>>
             ends == decayState[i] = "STOPPING" \/ (~CanDecay(i) /\ decayState[i] = "TRUE")
             stays == ~ends /\ (~CanDecay(i) \/ decayState[i] = "TRUE")
  <1>1. \/ ends /\ todo' = <<Call("stop", i)>> \o rest /\ Same
        \/ stays /\ todo' = rest /\ Same
        \/ ~ends /\ ~stays /\ IntAttr(duration[i]) > 0 /\ Enter(i, rest)
        \/ /\ ~ends /\ ~stays /\ IntAttr(duration[i]) = 0
           /\ todo' = <<Call("decay", i)>> \o rest /\ Same
    BY DEF StartDecay
  <1>2. CASE ends /\ todo' = <<Call("stop", i)>> \o rest /\ Same
    BY <1>2, InvStartCalls
  <1>3. CASE stays /\ todo' = rest /\ Same
    BY <1>3, InvStartCalls
  <1>4. CASE ~ends /\ ~stays /\ IntAttr(duration[i]) > 0 /\ Enter(i, rest)
    <2>1. CanDecay(i) /\ decayState[i] \notin {"TRUE", "STOPPING"}
      BY <1>4
    <2>2. QED BY <1>4, <2>1, InvEnter
  <1>5. CASE /\ ~ends /\ ~stays /\ IntAttr(duration[i]) = 0
             /\ todo' = <<Call("decay", i)>> \o rest /\ Same
    <2>1. CanDecay(i) /\ decayState[i] \notin {"TRUE", "STOPPING"}
      BY <1>5
    <2>2. QED BY <1>5, <2>1, InvStartCalls
  <1>6. QED BY <1>1, <1>2, <1>3, <1>4, <1>5

(* Game::internalDecayItem, for an item that can decay.                    *)
LEMMA InvDecay ==
  ASSUME DecayConstants,
         DecayInv, NEW i \in Items, NEW rest, Rest(rest, "decay", i),
         Pending("decay", i), InternalDecayItem(i, rest)
  PROVE  DecayInv'
  <1>1. DecayTypeOK /\ \A j \in Items : ItemFits(j)
    BY DEF DecayInv
  <1>2. PICK t : t = DecayTo[type[i]]
    OBVIOUS
  <1>3. ~In(tempItems, i)
    BY <1>1 DEF ItemFits, CopyFits
  <1>4. CASE t = Gone /\ \E left \in Continues(i, rest) : InternalRemoveItem(i, left)
    <2>1. PICK left \in Continues(i, rest) : InternalRemoveItem(i, left)
      BY <1>4
    <2>2. left = rest \/ (rest # <<>> /\ left = Tail(rest))
      BY DEF Continues
    <2>3. Rest(left, "decay", i)
      <3>1. left \in Seq(Calls) /\ \A o, j : Has(left, o, j) => Has(rest, o, j)
        BY <2>2, HasTail DEF Rest
      <3>2. QED BY <3>1 DEF Rest
    <2>4. QED BY <2>1, <2>3, InvRemove
  <1>5. CASE t # Gone /\ (TransformInPlace(i, t, rest) \/ TransformReplaces(i, t, rest))
    <2>1. t \in Types
      <3>1. t # Never
        <4>1. PICK n \in 1 .. Len(todo) : todo[n] = Call("decay", i)
          BY DEF Pending, Has
        <4>2. todo[n].op = "decay" /\ todo[n].arg = i
          BY <4>1 DEF Call
        <4>3. QED BY <1>2, <4>1, <4>2 DEF DecayInv, FirstFits
      <3>2. QED BY <1>1, <1>2, <1>5, <3>1 DEF DecayConstants, DecayTypeOK
    <2>2. QED BY <1>3, <1>5, <2>1, InvInPlace, InvReplaces
  <1>6. CASE /\ todo' = rest
             /\ UNCHANGED <<now, items, attributes, booked, events, loop, erased, undefined>>
    <2>1. UNCHANGED <<now, type, attributes, booked, events, loop, erased, undefined>>
      BY <1>6 DEF items
    <2>2. parent' = parent /\ parent' \in [Items -> Items \union {World, Nowhere}]
      BY <1>1, <1>6 DEF items, DecayTypeOK
    <2>3. todo' \in Seq(Calls)
      BY <1>6 DEF Rest
    <2>4. \A j \in Items : /\ ~AtHead(j)
                           /\ Pending("stop", j)' => Pending("stop", j)
                           /\ Pending("decay", j)' => Pending("decay", j)
      BY <1>6 DEF Rest, Pending
    <2>5. \A j \in Items : CanDecay(j)' <=> CanDecay(j)
      BY <1>6 DEF CanDecay, IsRemoved, items
    <2>6. ASSUME NEW j \in Items, In(decayMap, j)
          PROVE  decayState[j] = "TRUE" \/ ~CanDecay(j)' \/ AtHead(j)'
      BY <1>1, <2>4, <2>5, <2>6 DEF ItemFits, EntryFits
    <2>7. ASSUME NEW j \in Items, In(tempItems, j)
          PROVE  /\ decayState[j] = "TRUE" \/ ~CanDecay(j)'
                 /\ Pending("stop", j)' => ~CanDecay(j)'
                 /\ ~Pending("decay", j)'
      BY <1>1, <2>4, <2>5, <2>7 DEF ItemFits, CopyFits
    <2>8. FirstFits'
      BY <1>6, <2>3, FirstNone DEF Rest
    <2>9. QED BY <2>1, <2>2, <2>3, <2>6, <2>7, <2>8, OnlyCalls
  <1>7. QED BY <1>2, <1>4, <1>5, <1>6 DEF InternalDecayItem

(* The handler's next call.                                                *)
LEMMA InvStep ==
  ASSUME DecayConstants,
         DecayInv, Step
  PROVE  DecayInv'
  <1>1. DecayTypeOK /\ FirstFits /\ todo # <<>> /\ todo \in Seq(Calls)
    BY DEF DecayInv, Step, DecayTypeOK
  <1>2. PICK call \in Calls : call = Head(todo)
    BY <1>1, HasTail
  <1>3. PICK rest : rest = Tail(todo)
    OBVIOUS
  <1>4. PICK i \in Items : i = call.arg
    BY <1>2 DEF Calls
  <1>5. \A op \in Ops : call.op = op => Rest(rest, op, i) /\ Pending(op, i)
    BY <1>1, <1>2, <1>3, <1>4, RestOfStep
  <1>6. CASE call.op = "start" /\ StartDecay(i, rest)
    BY <1>5, <1>6, InvStart DEF Ops
  <1>7. CASE call.op = "stop" /\ StopDecay(i, rest)
    BY <1>5, <1>7, InvStop DEF Ops
  <1>8. CASE call.op = "decay" /\ InternalDecayItem(i, rest)
    BY <1>5, <1>8, InvDecay DEF Ops
  <1>9. QED BY <1>2, <1>3, <1>4, <1>6, <1>7, <1>8 DEF Step

(* What a player does to an item.                                          *)
LEMMA InvPlayer ==
  ASSUME DecayConstants,
         DecayInv, NEW i \in Items, PlayerTransforms(i) \/ PlayerRemoves(i)
  PROVE  DecayInv'
  <1>1. Idle
    BY DEF PlayerTransforms, PlayerRemoves
  <1>2. Rest(<<>>, "decay", i)
    BY <1>1, RestOfIdle
  <1>3. ~In(tempItems, i)
    BY <1>1, WhenIdle
  <1>4. CASE PlayerRemoves(i)
    BY <1>2, <1>4, InvRemove DEF PlayerRemoves
  <1>5. CASE \E t \in Types : TransformInPlace(i, t, <<>>)
    BY <1>2, <1>3, <1>5, InvInPlace
  <1>6. CASE \E t \in Types : TransformReplaces(i, t, <<>>)
    BY <1>2, <1>6, InvReplaces
  <1>7. QED BY <1>4, <1>5, <1>6 DEF PlayerTransforms

(* The invariant is inductive.                                             *)
LEMMA DecayInvNext ==
  ASSUME DecayConstants,
         DecayInv, [DecayNext]_decayVars
  PROVE  DecayInv'
  <1>1. CASE UNCHANGED decayVars
    <2>1. UNCHANGED <<now, type, attributes, booked, events, loop, erased, undefined>>
      BY <1>1 DEF decayVars, attributes, booked, events, loop
    <2>2. UNCHANGED <<todo, parent>>
      BY <1>1 DEF decayVars
    <2>3. \A j \in Items : /\ CanDecay(j)' <=> CanDecay(j)
                           /\ \A o : Pending(o, j)' <=> Pending(o, j)
                           /\ AtHead(j)' <=> AtHead(j)
      BY <1>1 DEF decayVars, CanDecay, IsRemoved, Pending, AtHead
    <2>4. FirstFits' /\ todo' \in Seq(Calls)
          /\ parent' \in [Items -> Items \union {World, Nowhere}]
      BY <1>1 DEF decayVars, FirstFits, DecayInv, DecayTypeOK
    <2>5. \A j \in Items : EntryFits(j) /\ CopyFits(j)
      BY DEF DecayInv, ItemFits
    <2>6. \A j \in Items : In(decayMap, j) =>
            decayState[j] = "TRUE" \/ ~CanDecay(j)' \/ AtHead(j)'
      BY <2>3, <2>5 DEF EntryFits
    <2>7. \A j \in Items : In(tempItems, j) =>
            /\ decayState[j] = "TRUE" \/ ~CanDecay(j)'
            /\ Pending("stop", j)' => ~CanDecay(j)'
            /\ ~Pending("decay", j)'
      BY <2>3, <2>5 DEF CopyFits
    <2>8. QED BY <2>1, <2>4, <2>6, <2>7, OnlyCalls
  <1>2. CASE DecayNext
    BY <1>2, InvMove, InvScriptSetsState, InvScriptSetsDuration, InvPlayer,
       InvCheckDecay, InvCheckItem, InvRelease, InvCheckEnd, InvStep, InvTick DEF DecayNext
  <1>3. QED BY <1>1, <1>2

-----------------------------------------------------------------------------
(* Where an item has at most one entry, its entries are counted by whether *)
(* there is one.                                                           *)
LEMMA Counted ==
  ASSUME NEW m, NEW i, \A e, f \in m : e[2] = f[2] => e = f
  PROVE  Cardinality(Booked(m, i)) = One(In(m, i))
  <1>1. CASE In(m, i)
    <2>1. PICK e \in m : e[2] = i
      BY <1>1 DEF In
    <2>2. Booked(m, i) = {e}
      BY <2>1 DEF Booked
    <2>3. QED BY <1>1, <2>2, FS_Singleton DEF One
  <1>2. CASE ~In(m, i)
    <2>1. Booked(m, i) = {}
      BY <1>2 DEF Booked, In
    <2>2. QED BY <1>2, <2>1, FS_EmptySet DEF One
  <1>3. QED BY <1>1, <1>2

(* What the invariant says of the map and the references.                  *)
LEMMA InvBooked ==
  ASSUME DecayConstants,
         DecayInv
  PROVE  DecayBooked
  <1>1. DecayTypeOK /\ (\A i \in Items : ItemFits(i)) /\ \A e \in decayMap : timestamp[e[2]] = e[1]
    BY DEF DecayInv
  <1>2. \A e \in decayMap : e = <<e[1], e[2]>>
    BY <1>1 DEF DecayTypeOK
  <1>3. \A e, f \in decayMap : e[2] = f[2] => e = f
    BY <1>1, <1>2
  <1>4. \A e, f \in tempItems : e[2] = f[2] => e = f
    BY DEF DecayInv, LoopFits
  <1>5. ASSUME NEW i \in Items
        PROVE  held[i] = Cardinality(Booked(decayMap, i)) + InHand(i)
    <2>1. /\ Cardinality(Booked(decayMap, i)) = One(In(decayMap, i))
          /\ Cardinality(Booked(tempItems, i)) = One(In(tempItems, i))
      BY <1>3, <1>4, Counted
    <2>2. held[i] = One(In(decayMap, i)) + One(In(tempItems, i)) + One(item = i)
      BY <1>1 DEF ItemFits
    <2>3. InHand(i) = One(In(tempItems, i)) + One(item = i)
      BY <2>1 DEF InHand, One
    <2>4. /\ One(In(decayMap, i)) \in Nat /\ One(In(tempItems, i)) \in Nat
          /\ One(item = i) \in Nat
      BY DEF One
    <2>5. QED BY <2>1, <2>2, <2>3, <2>4
  <1>6. ASSUME Idle, NEW i \in Items, decayState[i] = "TRUE"
        PROVE  Booked(decayMap, i) # {}
    <2>1. ~In(tempItems, i)
      BY <1>6, WhenIdle
    <2>2. In(decayMap, i)
      BY <1>1, <1>6, <2>1 DEF ItemFits
    <2>3. QED BY <2>2 DEF In, Booked
  <1>7. QED BY <1>1, <1>5, <1>6 DEF DecayBooked

(* What it says of the events, when checkDecay does not run.               *)
LEMMA InvWakes ==
  ASSUME DecayConstants,
         DecayInv
  PROVE  WakeInTime
  <1>1. SUFFICES ASSUME Idle, ~undefined, NEW e \in decayMap
                 PROVE  \E at \in others \union {event} : at # None /\ at <= e[1]
    BY DEF WakeInTime
  <1>2. it = None
    BY <1>1, WhenIdle
  <1>3. Covered(e[1])
    BY <1>1 DEF DecayInv
  <1>4. QED BY <1>2, <1>3 DEF Covered

(* The records of the items keep their types; no reference is released     *)
(* that Decay does not hold.                                               *)
THEOREM DecayTypeCorrect == DecaySpec => []DecayTypeOK
  <1> USE DecayAssumption
  <1>1. DecayInit => DecayInv
    BY DecayInvInit
  <1>2. DecayInv /\ [DecayNext]_decayVars => DecayInv'
    BY DecayInvNext
  <1>3. DecayInv => DecayTypeOK
    BY DEF DecayInv
  <1>4. QED BY <1>1, <1>2, <1>3, PTL DEF DecaySpec

(* However items start, stop, transform and remove each other, also out of *)
(* checkDecay's loop: every entry is under its item's timestamp, Decay     *)
(* holds one reference for each entry and each item in the loop's hands,   *)
(* and an item that says it decays is entered.  For any items, types,      *)
(* containers and durations.                                               *)
THEOREM DecayIsBooked == DecaySpec => []DecayBooked
  <1> USE DecayAssumption
  <1>1. DecayInit => DecayInv
    BY DecayInvInit
  <1>2. DecayInv /\ [DecayNext]_decayVars => DecayInv'
    BY DecayInvNext
  <1>3. DecayInv => DecayBooked
    BY InvBooked
  <1>4. QED BY <1>1, <1>2, <1>3, PTL DEF DecaySpec

(* Between handlers an event for checkDecay is pending no later than the   *)
(* first entry is due, unless checkDecay has read an erased entry.  For    *)
(* any items, types, containers and durations.                             *)
THEOREM DecayWakesInTime == DecaySpec => []WakeInTime
  <1> USE DecayAssumption
  <1>1. DecayInit => DecayInv
    BY DecayInvInit
  <1>2. DecayInv /\ [DecayNext]_decayVars => DecayInv'
    BY DecayInvNext
  <1>3. DecayInv => WakeInTime
    BY InvWakes
  <1>4. QED BY <1>1, <1>2, <1>3, PTL DEF DecaySpec
=============================================================================
