CONSTANTS
    alice = alice
    bob = bob
    carol = carol
    gm = gm
    party1 = party1
    party2 = party2
    NoPlayer = NoPlayer
    NoParty = NoParty
    Players <- MCPlayers
    Parties <- MCParties
    Exempt = {gm}
SYMMETRY MCSymmetry
SPECIFICATION PartySpec
INVARIANTS
    MembershipAgrees
    InvitationsAgree
    SharedExpEarned
