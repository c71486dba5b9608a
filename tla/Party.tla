------------------------------- MODULE Party --------------------------------
(***************************************************************************)
(* Parties: who leads, who belongs, who is invited, and whether experience *)
(* is shared.  Every fact is kept twice, in the Party and in the Player    *)
(* objects, and a party is deleted by whichever operation leaves it empty, *)
(* so each handler has to leave no pointer behind.                         *)
(*                                                                         *)
(* All of it runs on the dispatcher thread: a handler is one step.  A      *)
(* Party's memory may be used for the next one.  memberList and inviteList *)
(* are sets, and any member may be at the front.  The scripts' onLeave and *)
(* onDisband return true, as data/events/scripts/party.lua has them; an    *)
(* onJoin that refuses changes nothing.  Levels, positions and the clock   *)
(* are left open.                                                          *)
(***************************************************************************)
EXTENDS Naturals, FiniteSets

CONSTANTS Players, NoPlayer,
          Exempt,         \* players with PlayerFlag_NotGainInFight
          Parties,        \* Party objects, NoPlayer leads a free one
          NoParty

PartyConstants == /\ NoPlayer \notin Players
                  /\ NoParty \notin Parties
                  /\ Exempt \subseteq Players

ASSUME PartyAssumption == PartyConstants

VARIABLES online,           \* players in the game
          party,            \* Player::party
          invitePartyList,  \* Player::invitePartyList
          leader,           \* Party::leader
          memberList,       \* Party::memberList
          inviteList,       \* Party::inviteList
          sharedExpActive,  \* parties that have it set
          sharedExpEnabled, \* parties that have it set
          ticksMap,         \* party -> the players with an entry in its ticksMap
          healed            \* players who healed a partner in their party's time

sharing == <<sharedExpActive, sharedExpEnabled, ticksMap, healed>>
lists   == <<party, invitePartyList, leader, memberList, inviteList>>
partyVars == <<online, party, invitePartyList, leader, memberList, inviteList,
               sharedExpActive, sharedExpEnabled, ticksMap, healed>>

PartyTypeOK == /\ online \subseteq Players
               /\ party \in [Players -> Parties \union {NoParty}]
               /\ invitePartyList \in [Players -> SUBSET Parties]
               /\ leader \in [Parties -> Players \union {NoPlayer}]
               /\ memberList \in [Parties -> SUBSET Players]
               /\ inviteList \in [Parties -> SUBSET Players]
               /\ sharedExpActive \subseteq Parties
               /\ sharedExpEnabled \subseteq Parties
               /\ ticksMap \in [Parties -> SUBSET Players]
               /\ healed \subseteq Players

PartyInit == /\ online = {}
             /\ party = [p \in Players |-> NoParty]
             /\ invitePartyList = [p \in Players |-> {}]
             /\ leader = [t \in Parties |-> NoPlayer]
             /\ memberList = [t \in Parties |-> {}]
             /\ inviteList = [t \in Parties |-> {}]
             /\ sharedExpActive = {}
             /\ sharedExpEnabled = {}
             /\ ticksMap = [t \in Parties |-> {}]
             /\ healed = {}

Leads(p) == party[p] # NoParty /\ leader[party[p]] = p
IsInviting(p, q) == Leads(p) /\ q \in inviteList[party[p]]
IsPartner(p, q) == party[p] # NoParty /\ p # q /\ party[p] = party[q]

-----------------------------------------------------------------------------
(* Shared experience.                                                      *)

(* What canEnableSharedExperience asks of a party with this leader, these  *)
(* members and ticks, its levels, distances and times aside.               *)
CanEnableSharedExperience(lead, members, ticks) ==
    members # {} /\ (members \union {lead}) \ Exempt \subseteq ticks

(* updateSharedExperience looks again if the option is on; what it may set *)
(* sharedExpEnabled to.                                                    *)
EnabledAfter(t, lead, members, ticks) ==
    CASE t \notin sharedExpActive -> {sharedExpEnabled}
      [] t \in sharedExpActive /\ CanEnableSharedExperience(lead, members, ticks) ->
            {sharedExpEnabled \union {t}, sharedExpEnabled \ {t}}
      [] OTHER -> {sharedExpEnabled \ {t}}

-----------------------------------------------------------------------------
(* Variant: the members of a party that is disbanded are not told.         *)
DisbandForgetsMembers(gone, lead, members, invites, inParty, invitations) ==
    /\ leader' = [t \in Parties |-> IF t \in gone THEN NoPlayer ELSE lead[t]]
    /\ memberList' = [t \in Parties |-> IF t \in gone THEN {} ELSE members[t]]
    /\ inviteList' = [t \in Parties |-> IF t \in gone THEN {} ELSE invites[t]]
    /\ party' = [p \in Players |->
                    IF \E t \in gone : p = lead[t] THEN NoParty ELSE inParty[p]]
    /\ invitePartyList' = [p \in Players |->
                              invitations[p] \ {t \in gone : p \in invites[t]}]

(* Party::disband of the parties in gone, after the operation that left    *)
(* them without a leader or empty has set the lists to what is given.      *)
Disband(gone, lead, members, invites, inParty, invitations) ==
    /\ leader' = [t \in Parties |-> IF t \in gone THEN NoPlayer ELSE lead[t]]
    /\ memberList' = [t \in Parties |-> IF t \in gone THEN {} ELSE members[t]]
    /\ inviteList' = [t \in Parties |-> IF t \in gone THEN {} ELSE invites[t]]
    /\ party' = [p \in Players |->
                    IF \E t \in gone : p = lead[t] \/ p \in members[t]
                    THEN NoParty ELSE inParty[p]]
    /\ invitePartyList' = [p \in Players |->
                              invitations[p] \ {t \in gone : p \in invites[t]}]

(* The options and ticks of a party go with it, and what healed is about.  *)
Forget(gone) ==
    /\ sharedExpActive' = sharedExpActive \ gone
    /\ sharedExpEnabled' = sharedExpEnabled \ gone
    /\ ticksMap' = [t \in Parties |-> IF t \in gone THEN {} ELSE ticksMap[t]]
    /\ healed' = {p \in healed : party'[p] # NoParty}

-----------------------------------------------------------------------------
Login(p) ==
    /\ p \notin online
    /\ online' = online \union {p}
    /\ UNCHANGED <<lists, sharing>>

(* Game::playerInviteToParty makes the leader a party if he has none.      *)
InviteToParty(p, q) ==
    /\ p # q /\ {p, q} \subseteq online
    /\ ~IsInviting(q, p) /\ party[q] = NoParty
    /\ \E t \in Parties :
          /\ \/ party[p] = NoParty /\ leader[t] = NoPlayer
             \/ Leads(p) /\ t = party[p]
          /\ q \notin inviteList[t]
          /\ party' = [party EXCEPT ![p] = t]
          /\ leader' = [leader EXCEPT ![t] = p]
          /\ inviteList' = [inviteList EXCEPT ![t] = @ \union {q}]
          /\ invitePartyList' = [invitePartyList EXCEPT ![q] = @ \union {t}]
    /\ UNCHANGED <<online, memberList, sharing>>

(* Variant: nobody looks whether the new member has fought.                *)
JoinPartyUnseen(p, q) ==
    LET t == party[q]
    IN  /\ {p, q} \subseteq online
        /\ IsInviting(q, p) /\ party[p] = NoParty
        /\ inviteList' = [inviteList EXCEPT ![t] = @ \ {p}]
        /\ party' = [party EXCEPT ![p] = t]
        /\ memberList' = [memberList EXCEPT ![t] = @ \union {p}]
        /\ invitePartyList' = [invitePartyList EXCEPT ![p] = @ \ {t}]
        /\ UNCHANGED <<online, leader, sharing>>

(* Game::playerJoinParty and Party::joinParty.                             *)
JoinParty(p, q) ==
    LET t == party[q]
        members == memberList[t] \union {p}
    IN  /\ {p, q} \subseteq online
        /\ IsInviting(q, p) /\ party[p] = NoParty
        /\ inviteList' = [inviteList EXCEPT ![t] = @ \ {p}]
        /\ party' = [party EXCEPT ![p] = t]
        /\ memberList' = [memberList EXCEPT ![t] = members]
        /\ invitePartyList' = [invitePartyList EXCEPT ![p] = @ \ {t}]
        /\ sharedExpEnabled' \in EnabledAfter(t, q, members, ticksMap[t])
        /\ UNCHANGED <<online, leader, sharedExpActive, ticksMap, healed>>

(* Game::playerRevokePartyInvitation: an empty party is disbanded.         *)
RevokePartyInvitation(p, q) ==
    LET t == party[p]
        invites == [inviteList EXCEPT ![t] = @ \ {q}]
        gone == IF memberList[t] = {} /\ invites[t] = {} THEN {t} ELSE {}
    IN  /\ {p, q} \subseteq online
        /\ IsInviting(p, q)
        /\ Disband(gone, leader, memberList, invites, party,
                   [invitePartyList EXCEPT ![q] = @ \ {t}])
        /\ Forget(gone)
        /\ UNCHANGED online

(* Game::playerPassPartyLeadership: the old leader becomes a member.       *)
PassPartyLeadership(p, q) ==
    LET t == party[p]
        members == (memberList[t] \ {q}) \union {p}
    IN  /\ {p, q} \subseteq online
        /\ Leads(p) /\ IsPartner(p, q)
        /\ leader' = [leader EXCEPT ![t] = q]
        /\ memberList' = [memberList EXCEPT ![t] = members]
        /\ sharedExpEnabled' \in EnabledAfter(t, q, members, ticksMap[t])
        /\ UNCHANGED <<online, party, invitePartyList, inviteList, sharedExpActive,
                       ticksMap, healed>>

-----------------------------------------------------------------------------
(* Leaving.  invites are the inviteLists by then.                          *)

(* A leader without members, or with one and nobody invited, ends the      *)
(* party.                                                                  *)
MissingLeader(p, t, invites) ==
    /\ leader[t] = p
    /\ memberList[t] = {} \/ (Cardinality(memberList[t]) = 1 /\ invites[t] = {})

(* Who may lead the party when p has left: passPartyLeadership to the      *)
(* front of the list, unless the party ends.                               *)
LeaderAfter(p, t, invites) ==
    IF leader[t] = p /\ ~MissingLeader(p, t, invites) THEN memberList[t] ELSE {leader[t]}

(* Party::leaveParty of a player who belongs to one; emptied are parties   *)
(* that the same handler has left empty before.                            *)
LeaveParty(p, emptied, invites, invitations) ==
    LET t == party[p]
    IN  \E next \in LeaderAfter(p, t, invites) :
          LET members == memberList[t] \ {p, next}
              ends == MissingLeader(p, t, invites) \/ (members = {} /\ invites[t] = {})
              gone == IF ends THEN emptied \union {t} ELSE emptied
          IN  /\ Disband(gone,
                         [leader EXCEPT ![t] = next],
                         [memberList EXCEPT ![t] = members],
                         invites,
                         [party EXCEPT ![p] = NoParty],
                         invitations)
              /\ \E enabled \in EnabledAfter(t, next, members, ticksMap[t]) :
                    sharedExpEnabled' = enabled \ gone
              /\ sharedExpActive' = sharedExpActive \ gone
              /\ ticksMap' = [u \in Parties |-> CASE u \in gone -> {}
                                              [] u = t /\ u \notin gone -> ticksMap[u] \ {p}
                                              [] OTHER -> ticksMap[u]]
              /\ healed' = {q \in healed : party'[q] # NoParty}

(* Game::playerLeaveParty; the condition INFIGHT may forbid it.            *)
PlayerLeavesParty(p) ==
    /\ p \in online
    /\ party[p] # NoParty
    /\ LeaveParty(p, {}, inviteList, invitePartyList)
    /\ UNCHANGED online

(* Variant: the invitations of a player who leaves the game stay.          *)
LogoutStaysInvited(p) ==
    /\ p \in online
    /\ online' = online \ {p}
    /\ IF party[p] # NoParty
       THEN LeaveParty(p, {}, inviteList, invitePartyList)
       ELSE UNCHANGED <<lists, sharing>>

(* Player::onRemoveCreature, for a logout, a kick or a death: all          *)
(* invitations to the player are taken back, which may end the parties     *)
(* they came from, and the player leaves.                                  *)
Logout(p) ==
    LET invites == [t \in Parties |-> IF t \in invitePartyList[p] THEN inviteList[t] \ {p}
                                      ELSE inviteList[t]]
        emptied == {t \in invitePartyList[p] :
                      p \in inviteList[t] /\ memberList[t] = {} /\ invites[t] = {}}
        invitations == [invitePartyList EXCEPT ![p] = {}]
    IN  /\ p \in online
        /\ online' = online \ {p}
        /\ \/ /\ party[p] # NoParty
              /\ LeaveParty(p, emptied, invites, invitations)
           \/ /\ party[p] = NoParty
              /\ Disband(emptied, leader, memberList, invites, party, invitations)
              /\ Forget(emptied)

-----------------------------------------------------------------------------
(* Game::playerEnableSharedPartyExperience and setSharedExperience.        *)
EnableSharedPartyExperience(p) ==
    LET t == party[p]
    IN  /\ p \in online
        /\ Leads(p) /\ t \notin sharedExpActive
        /\ sharedExpActive' = sharedExpActive \union {t}
        /\ \/ /\ CanEnableSharedExperience(p, memberList[t], ticksMap[t])
              /\ sharedExpEnabled' = sharedExpEnabled \union {t}
           \/ sharedExpEnabled' = sharedExpEnabled \ {t}
        /\ UNCHANGED <<online, lists, ticksMap, healed>>

DisableSharedPartyExperience(p) ==
    /\ p \in online
    /\ Leads(p) /\ party[p] \in sharedExpActive
    /\ sharedExpActive' = sharedExpActive \ {party[p]}
    /\ UNCHANGED <<online, lists, sharedExpEnabled, ticksMap, healed>>

(* A member moves or gains or loses a level.                               *)
MemberChanges(p) ==
    LET t == party[p]
    IN  /\ p \in online /\ t # NoParty
        /\ sharedExpEnabled' \in EnabledAfter(t, leader[t], memberList[t], ticksMap[t])
        /\ UNCHANGED <<online, lists, sharedExpActive, ticksMap, healed>>

(* Party::updatePlayerTicks: p has hurt a hostile monster, or healed a     *)
(* summon of a partner.                                                    *)
UpdatePlayerTicks(p) ==
    LET t == party[p]
        ticks == ticksMap[t] \union {p}
    IN  /\ p \in online \ Exempt /\ t # NoParty
        /\ ticksMap' = [ticksMap EXCEPT ![t] = ticks]
        /\ sharedExpEnabled' \in EnabledAfter(t, leader[t], memberList[t], ticks)
        /\ UNCHANGED <<online, lists, sharedExpActive, healed>>

(* Player::onTargetCreatureGainHealth when p heals the player q: it asks   *)
(* whether a null pointer is a partner, and no ticks are set.              *)
HealPartner(p, q) ==
    /\ {p, q} \subseteq online /\ p \notin Exempt
    /\ IsPartner(p, q)
    /\ healed' = healed \union {p}
    /\ UNCHANGED <<online, lists, sharedExpActive, sharedExpEnabled, ticksMap>>

(* Player::onIdleStatus and clearPlayerPoints.                             *)
OnIdleStatus(p) ==
    LET t == party[p]
        ticks == ticksMap[t] \ {p}
    IN  /\ p \in online /\ t # NoParty
        /\ ticksMap' = [ticksMap EXCEPT ![t] = ticks]
        /\ \/ p \in ticksMap[t] /\ sharedExpEnabled' \in
                                  EnabledAfter(t, leader[t], memberList[t], ticks)
           \/ p \notin ticksMap[t] /\ UNCHANGED sharedExpEnabled
        /\ healed' = healed \ {p}
        /\ UNCHANGED <<online, lists, sharedExpActive>>

-----------------------------------------------------------------------------
PartyNext == \E p \in Players :
                 \/ Login(p) \/ Logout(p)
                 \/ PlayerLeavesParty(p)
                 \/ EnableSharedPartyExperience(p) \/ DisableSharedPartyExperience(p)
                 \/ MemberChanges(p) \/ UpdatePlayerTicks(p) \/ OnIdleStatus(p)
                 \/ \E q \in Players : \/ InviteToParty(p, q) \/ JoinParty(p, q)
                                       \/ RevokePartyInvitation(p, q)
                                       \/ PassPartyLeadership(p, q)
                                       \/ HealPartner(p, q)

PartySpec == PartyInit /\ [][PartyNext]_partyVars

-----------------------------------------------------------------------------
Belongs(p, t) == leader[t] = p \/ p \in memberList[t]

(* A player's party pointer is the party that has the player as its leader *)
(* or member, of which there is at most one; a leader is not also a        *)
(* member; nobody who left the game is in a party, and a party that was    *)
(* deleted holds nobody.  Joining, leaving, passing the leadership, ending *)
(* a party and logging out each update both sides.                         *)
MembershipAgrees ==
    /\ \A p \in Players, t \in Parties : party[p] = t <=> Belongs(p, t)
    /\ \A p \in Players \ online : party[p] = NoParty
    /\ \A t \in Parties : /\ leader[t] \notin memberList[t]
                          /\ leader[t] = NoPlayer => memberList[t] = {}

(* The invitations a player knows are those of parties that list the       *)
(* player, so the party that revokes, ends or is deleted leaves no pointer *)
(* behind; only players in the game are invited, never to their own party; *)
(* and a party without members and invitees does not stay.                 *)
InvitationsAgree ==
    /\ \A p \in Players, t \in Parties : t \in invitePartyList[p] <=> p \in inviteList[t]
    /\ \A t \in Parties : /\ inviteList[t] \subseteq online
                          /\ \A p \in inviteList[t] : ~Belongs(p, t)
                          /\ leader[t] = NoPlayer <=> memberList[t] = {} /\ inviteList[t] = {}

(* While experience is shared there is somebody to share it with, and      *)
(* everybody who has a share has fought since joining and since the last   *)
(* time idle: no join, leave, change of leader or change of the option     *)
(* lets somebody in.  Only those who belong to a party have ticks in it.   *)
SharedExpEarned ==
    \A t \in Parties :
        /\ t \in sharedExpActive \intersect sharedExpEnabled =>
              CanEnableSharedExperience(leader[t], memberList[t], ticksMap[t])
        /\ \A p \in ticksMap[t] : Belongs(p, t)

(* "check if the player has healed/attacked anything recently": somebody   *)
(* who healed a partner has an entry in ticksMap.                          *)
HealingCounts == \A p \in healed : p \in ticksMap[party[p]]
=============================================================================
