CONSTANTS
    alice = alice
    bob = bob
    carol = carol
    bag = bag
    gem = gem
    Players <- MCPlayers
    Items = {bag, gem}
    Containers = {bag}
    Tiles = {0, 1, 3}
    StartPos <- MCStartPos
    StartParent <- MCStartParent
    Nowhere = Nowhere
    OnTradeAccept = FALSE
    NoPlayer = NoPlayer
    NoItem = NoItem
SPECIFICATION TradeSpec
INVARIANTS
    PartnersAgree
    OffersReserved
    NoNestedOffers
    OffersInReach
PROPERTIES
    AcceptedOfferStands
    OfferFrozen
