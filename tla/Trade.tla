------------------------------- MODULE Trade --------------------------------
(***************************************************************************)
(* Player-to-player trade.  Two players offer one item each, both accept,  *)
(* and the items change hands.  The state of a trade is spread over the    *)
(* two Player objects and Game::tradeItems; anything else that happens in  *)
(* the world, a step, a moved or destroyed item, a logout, has to close    *)
(* the trades it disturbs.                                                 *)
(*                                                                         *)
(* All of it runs on the dispatcher thread, so a handler is one step.      *)
(* Positions are tiles on a line.  What Lua decides (the trade events) and *)
(* whether there is room, capacity or a line of sight is left open.        *)
(***************************************************************************)
EXTENDS Integers, FiniteSets

CONSTANTS Players, Items,
          Containers,     \* the items that can hold items
          Tiles,          \* tiles, numbered by their position
          StartPos,       \* player -> its tile at the beginning
          StartParent,    \* item -> where it is at the beginning
          Nowhere,        \* where an item is that was removed from the world
          OnTradeAccept,  \* is an onTradeAccept event registered?
          NoPlayer, NoItem

VARIABLES online,        \* players in the world
          pos,           \* player -> tile
          parent,        \* item -> the cylinder it is in
          tradeState,    \* Player::tradeState
          tradePartner,  \* Player::tradePartner
          tradeItem,     \* Player::tradeItem
          tradeItems,    \* Game::tradeItems: item -> the player who offers it
          refs           \* item -> references the trades hold on it

world == <<online, pos, parent>>
trade == <<tradeState, tradePartner, tradeItem, tradeItems, refs>>
tradeVars == <<online, pos, parent, tradeState, tradePartner, tradeItem, tradeItems, refs>>

TradeStates == {"NONE", "INITIATED", "ACCEPT", "ACKNOWLEDGE"}
Cylinders   == Players \union Tiles \union Containers \union {Nowhere}

TradeTypeOK == /\ online \subseteq Players
               /\ pos \in [Players -> Tiles]
               /\ parent \in [Items -> Cylinders]
               /\ tradeState \in [Players -> TradeStates]
               /\ tradePartner \in [Players -> Players \union {NoPlayer}]
               /\ tradeItem \in [Players -> Items \union {NoItem}]
               /\ tradeItems \in [Items -> Players \union {NoPlayer}]
               /\ refs \in [Items -> Nat]

TradeInit == /\ online = Players
             /\ pos = StartPos
             /\ parent = StartParent
             /\ tradeState = [p \in Players |-> "NONE"]
             /\ tradePartner = [p \in Players |-> NoPlayer]
             /\ tradeItem = [p \in Players |-> NoItem]
             /\ tradeItems = [i \in Items |-> NoPlayer]
             /\ refs = [i \in Items |-> 0]

-----------------------------------------------------------------------------
(* Where things are.                                                       *)

(* The containers an item is in, at any depth: those that every set closed *)
(* under taking the parent has to hold.                                    *)
Enclosing(par, i) ==
    {c \in Containers :
        \A S \in SUBSET Containers :
            (\A x \in S \union {i} : par[x] \in Containers => par[x] \in S) => c \in S}

(* The cylinders around an item, from its parent outwards.                 *)
Around(par, i) == {par[x] : x \in Enclosing(par, i) \union {i}}

Inside(par, i, c) == c \in Around(par, i)

TradeConstants == /\ Containers \subseteq Items
                  /\ Items \intersect (Players \union Tiles \union {Nowhere}) = {}
                  /\ Players \intersect Tiles = {}
                  /\ Tiles \subseteq Int
                  /\ OnTradeAccept \in BOOLEAN
                  /\ NoPlayer \notin Players
                  /\ NoItem \notin Items
                  /\ StartPos \in [Players -> Tiles]
                  /\ StartParent \in [Items -> Players \union Tiles \union Containers]
                  \* No container is loaded inside itself.
                  /\ \A i \in Items : ~Inside(StartParent, i, i)

ASSUME TradeAssumption == TradeConstants

(* The player, tile or void that holds the item in the end.                *)
TopParent(par, i) == CHOOSE c \in Around(par, i) : c \notin Items

Distance(a, b) == IF a < b THEN b - a ELSE a - b

(* Position::areInRange<2, 2, 0> and <1, 1>.                               *)
PlayersInRange(where, p, q) == Distance(where[p], where[q]) <= 2
ItemInRange(where, par, p, i) ==
    LET top == TopParent(par, i)
    IN  \/ top \in Players /\ Distance(where[top], where[p]) <= 1
        \/ top \in Tiles /\ Distance(top, where[p]) <= 1

(* The cylinders in which player p may put item i.                         *)
Destinations(par, p, i) ==
    {p} \union {c \in Containers \ {i} : Inside(par, c, p) /\ ~Inside(par, c, i)}

-----------------------------------------------------------------------------
(* internalCloseTrade takes both sides out of the trade.                   *)
ResetPlayers(ended) ==
    /\ tradeState' = [p \in Players |-> IF p \in ended THEN "NONE" ELSE tradeState[p]]
    /\ tradePartner' = [p \in Players |-> IF p \in ended THEN NoPlayer ELSE tradePartner[p]]
    /\ tradeItem' = [p \in Players |-> IF p \in ended THEN NoItem ELSE tradeItem[p]]

WithPartners(closers) == {p \in Players : p \in closers \/ tradePartner[p] \in closers}

(* Variants: the partner is left in the trade; the entry in tradeItems     *)
(* stays.                                                                  *)
CloseOneSide(closers) ==
    LET freed == {i \in Items : \E p \in closers : tradeItem[p] = i}
    IN  /\ ResetPlayers(closers)
        /\ tradeItems' = [i \in Items |-> IF i \in freed THEN NoPlayer ELSE tradeItems[i]]
        /\ refs' = [i \in Items |-> IF i \in freed THEN refs[i] - 1 ELSE refs[i]]

CloseKeepsReservation(closers) ==
    LET freed == {i \in Items : \E p \in WithPartners(closers) : tradeItem[p] = i}
    IN  /\ ResetPlayers(WithPartners(closers))
        /\ refs' = [i \in Items |-> IF i \in freed THEN refs[i] - 1 ELSE refs[i]]
        /\ UNCHANGED tradeItems

(* internalCloseTrade for every player in closers: both sides lose their   *)
(* offers and reservations.                                                *)
CloseTrades(closers) ==
    LET freed == {i \in Items : \E p \in WithPartners(closers) : tradeItem[p] = i}
    IN  /\ ResetPlayers(WithPartners(closers))
        /\ tradeItems' = [i \in Items |-> IF i \in freed THEN NoPlayer ELSE tradeItems[i]]
        /\ refs' = [i \in Items |-> IF i \in freed /\ tradeItems[i] # NoPlayer
                                      THEN refs[i] - 1 ELSE refs[i]]

(* The players who close their trade when i leaves its parent: onRemove-   *)
(* TileItem, onRemoveInventoryItem, onRemoveContainerItem, checkTradeState.*)
DisturbedByRemoval(par, i) ==
    {p \in Players :
        LET offer == tradeItem[p]
        IN  /\ offer # NoItem
            /\ \/ offer = i
               \/ Inside(par, i, offer)
               \/ IF par[i] \in Items
                    THEN par[offer] # par[i] /\ Inside(par, offer, par[i])
                    ELSE Inside(par, offer, i)}

(* ... and when something is put into cylinder d: onAddContainerItem.      *)
DisturbedByAddition(par, d) ==
    {p \in Players : /\ tradeItem[p] # NoItem
                     /\ d \in Items
                     /\ tradeItem[p] = d \/ Inside(par, d, tradeItem[p])}

(* Variant: putting something into an offered container is not noticed.    *)
DisturbedOnlyByRemoval(par, i, d) == DisturbedByRemoval(par, i)

Disturbed(par, i, d) == DisturbedByRemoval(par, i) \union DisturbedByAddition(par, d)

-----------------------------------------------------------------------------
(* Variant: only the item itself is looked for.                            *)
NotOfferedItself(i) == \A j \in Items : tradeItems[j] # NoPlayer => i # j

(* Nothing that is offered contains, or is inside, item i.                 *)
FreeToOffer(i) ==
    \A j \in Items : tradeItems[j] # NoPlayer =>
        i # j /\ ~Inside(parent, i, j) /\ ~Inside(parent, j, i)

(* Variant: a player whose own offer stands may make another one.          *)
RequestTradeAgain(p, q, i) ==
    /\ p \in online /\ q \in online /\ p # q
    /\ PlayersInRange(pos, p, q)
    /\ TopParent(parent, i) \in {p} \union Tiles
    /\ ItemInRange(pos, parent, p, i)
    /\ FreeToOffer(i)
    /\ tradeState[p] = "NONE" \/ tradePartner[p] = q
    /\ tradeState[q] = "NONE" \/ tradePartner[q] = p
    /\ tradeState' = [tradeState EXCEPT ![p] = "INITIATED",
                                        ![q] = IF @ = "NONE" THEN "ACKNOWLEDGE" ELSE @]
    /\ tradePartner' = [tradePartner EXCEPT ![p] = q, ![q] = p]
    /\ tradeItem' = [tradeItem EXCEPT ![p] = i]
    /\ tradeItems' = [tradeItems EXCEPT ![i] = p]
    /\ refs' = [refs EXCEPT ![i] = @ + 1]
    /\ UNCHANGED world

(* playerRequestTrade and internalStartTrade.                              *)
RequestTrade(p, q, i) ==
    /\ p \in online /\ q \in online /\ p # q
    /\ PlayersInRange(pos, p, q)
    /\ TopParent(parent, i) \in {p} \union Tiles
    /\ ItemInRange(pos, parent, p, i)
    /\ FreeToOffer(i)
    /\ \/ tradeState[p] = "NONE"
       \/ tradeState[p] = "ACKNOWLEDGE" /\ tradePartner[p] = q
    /\ tradeState[q] = "NONE" \/ tradePartner[q] = p
    /\ tradeState' = [tradeState EXCEPT ![p] = "INITIATED",
                                        ![q] = IF @ = "NONE" THEN "ACKNOWLEDGE" ELSE @]
    /\ tradePartner' = [tradePartner EXCEPT ![p] = q, ![q] = p]
    /\ tradeItem' = [tradeItem EXCEPT ![p] = i]
    /\ tradeItems' = [tradeItems EXCEPT ![i] = p]
    /\ refs' = [refs EXCEPT ![i] = @ + 1]
    /\ UNCHANGED world

(* playerAcceptTrade.                                                      *)
MayAccept(p) == /\ p \in online
                /\ tradeState[p] \in {"ACKNOWLEDGE", "INITIATED"}
                /\ tradePartner[p] # NoPlayer

AcceptFirst(p) == /\ MayAccept(p)
                  /\ tradeState[tradePartner[p]] # "ACCEPT"
                  /\ tradeState' = [tradeState EXCEPT ![p] = "ACCEPT"]
                  /\ UNCHANGED <<tradePartner, tradeItem, tradeItems, refs, world>>

BothOffer(p) == tradeItem[p] # NoItem /\ tradeItem[tradePartner[p]] # NoItem

(* A script refuses, or an item cannot be added or removed: the trade ends *)
(* and nothing moves.                                                      *)
ExchangeFails(p) == /\ MayAccept(p)
                    /\ tradeState[tradePartner[p]] = "ACCEPT"
                    /\ BothOffer(p)
                    /\ CloseTrades({p})
                    /\ UNCHANGED world

(* Both have accepted and only one of them offers something.  An onTrade-  *)
(* Accept event would be given the null item: setItemMetatable calls a     *)
(* method of it and the server ends there, so nothing follows.  Without    *)
(* the event internalAddItem refuses the null item and the trade ends.     *)
AcceptWithoutOffer(p) == /\ MayAccept(p)
                         /\ tradeState[tradePartner[p]] = "ACCEPT"
                         /\ ~BothOffer(p)
                         /\ ~OnTradeAccept
                         /\ CloseTrades({p})
                         /\ UNCHANGED world

(* The items move, in state TRANSFER, in which neither player reacts to    *)
(* the moves.  The first item may not end up in the second; the result of  *)
(* the second move is not looked at, so the item may stay where it was.    *)
Exchange(p, d1, d2) ==
    LET q  == tradePartner[p]
        i1 == tradeItem[p]
        i2 == tradeItem[q]
        parent1 == [parent EXCEPT ![i1] = d1]
        others  == (Disturbed(parent, i1, d1)
                      \union (IF d2 = parent1[i2] THEN {} ELSE Disturbed(parent1, i2, d2)))
                   \ {p, q}
    IN  /\ MayAccept(p)
        /\ tradeState[q] = "ACCEPT"
        /\ i1 # NoItem /\ i2 # NoItem
        /\ d1 \in Destinations(parent, q, i1)
        /\ d1 # i2 /\ (d1 \in Items => ~Inside(parent, d1, i2))
        /\ d2 \in Destinations(parent1, p, i2) \union {parent1[i2]}
        /\ parent' = [parent1 EXCEPT ![i2] = d2]
        /\ CloseTrades({p} \union others)
        /\ UNCHANGED <<online, pos>>

PlayerCloseTrade(p) == /\ p \in online
                       /\ CloseTrades({p})
                       /\ UNCHANGED world

-----------------------------------------------------------------------------
(* The world around the trades.                                            *)

(* Variant: only the distance to the partner is checked.                   *)
WalkFromOffer(p, t) ==
    LET pos1 == [pos EXCEPT ![p] = t]
        tooFar == tradePartner[p] # NoPlayer /\ ~PlayersInRange(pos1, p, tradePartner[p])
    IN  /\ p \in online
        /\ pos' = pos1
        /\ CloseTrades(IF tooFar THEN {p} ELSE {})
        /\ UNCHANGED <<online, parent>>

(* onCreatureMove: the player checks the distance to what it offers and to *)
(* its partner.                                                            *)
Walk(p, t) ==
    LET pos1 == [pos EXCEPT ![p] = t]
        tooFar == \/ tradeItem[p] # NoItem /\ ~ItemInRange(pos1, parent, p, tradeItem[p])
                  \/ tradePartner[p] # NoPlayer /\ ~PlayersInRange(pos1, p, tradePartner[p])
    IN  /\ p \in online
        /\ pos' = pos1
        /\ CloseTrades(IF tooFar THEN {p} ELSE {})
        /\ UNCHANGED <<online, parent>>

(* Somebody moves, picks up, throws or destroys an item.                   *)
MoveItem(i, d) ==
    /\ TopParent(parent, i) \in online \union Tiles
    /\ d # parent[i] /\ d # i
    /\ d \in Players => d \in online
    /\ d \in Items => ~Inside(parent, d, i) /\ TopParent(parent, d) \in online \union Tiles
    /\ parent' = [parent EXCEPT ![i] = d]
    /\ CloseTrades(Disturbed(parent, i, d))
    /\ UNCHANGED <<online, pos>>

(* onRemoveCreature.                                                       *)
Logout(p) == /\ p \in online
             /\ online' = online \ {p}
             /\ CloseTrades({p})
             /\ UNCHANGED <<pos, parent>>

Login(p) == /\ p \in Players \ online
            /\ online' = online \union {p}
            /\ UNCHANGED <<pos, parent, trade>>

TradeNext == \/ \E p, q \in Players, i \in Items : RequestTrade(p, q, i)
             \/ \E p \in Players : \/ AcceptFirst(p) \/ ExchangeFails(p) \/ AcceptWithoutOffer(p)
                                   \/ PlayerCloseTrade(p) \/ Logout(p) \/ Login(p)
                                   \/ \E d1, d2 \in Cylinders : Exchange(p, d1, d2)
                                   \/ \E t \in Tiles : Walk(p, t)
             \/ \E i \in Items, d \in Cylinders : MoveItem(i, d)

TradeSpec == TradeInit /\ [][TradeNext]_tradeVars

-----------------------------------------------------------------------------
(* Properties.                                                             *)

(* The two halves of a trade agree: partners name each other, are online,  *)
(* and are not both waiting for the other's offer.  A pointer to a partner *)
(* never outlives the trade.                                               *)
PartnersAgree ==
    \A p \in Players :
        /\ tradeState[p] = "NONE" <=> tradePartner[p] = NoPlayer
        /\ tradePartner[p] # NoPlayer =>
              /\ tradePartner[p] # p
              /\ tradePartner[tradePartner[p]] = p
              /\ p \in online
              /\ tradeItem[p] # NoItem \/ tradeItem[tradePartner[p]] # NoItem
        /\ tradeState[p] = "INITIATED" => tradeItem[p] # NoItem
        /\ tradeState[p] \in {"NONE", "ACKNOWLEDGE"} => tradeItem[p] = NoItem

(* tradeItems holds exactly the items on offer, each for the one player    *)
(* who offers it, and one reference per entry: no reservation is leaked    *)
(* and none is shared.                                                     *)
OffersReserved ==
    \A i \in Items :
        /\ \A p \in Players : tradeItems[i] = p <=> tradeItem[p] = i
        /\ refs[i] = IF tradeItems[i] = NoPlayer THEN 0 ELSE 1

(* The inductive invariant behind the two: how partners and reservations   *)
(* hang together does not depend on where the items are.                   *)
TradeInv == TradeTypeOK /\ PartnersAgree /\ OffersReserved

(* Nobody offers a container together with something inside it, however    *)
(* items are moved about after they were offered.                          *)
NoNestedOffers ==
    \A i, j \in Items :
        tradeItems[i] # NoPlayer /\ tradeItems[j] # NoPlayer => ~Inside(parent, i, j)

(* Whatever is offered stays within reach of its player and in nobody      *)
(* else's hands, and partners stay close enough to trade: steps and moved  *)
(* items close the trade in time.                                          *)
OffersInReach ==
    \A p \in Players :
        /\ tradeItem[p] # NoItem =>
              /\ ItemInRange(pos, parent, p, tradeItem[p])
              /\ TopParent(parent, tradeItem[p]) \in {p} \union Tiles
        /\ tradePartner[p] # NoPlayer => PlayersInRange(pos, p, tradePartner[p])

(* While an offer stands, the item and everything inside it stays as it    *)
(* was shown to the partner; nothing is taken out, put in or swapped.      *)
OfferFrozen ==
    [][\A p \in Players :
          LET offer == tradeItem[p]
          IN  offer # NoItem /\ tradeItem'[p] = offer =>
                /\ parent'[offer] = parent[offer]
                /\ \A i \in Items :
                     Inside(parent, i, offer) \/ Inside(parent', i, offer) =>
                        parent'[i] = parent[i]]_tradeVars

(* While the acceptance of p stands, p's own offer and its partner stay,   *)
(* and so does what the partner offers, once the partner offers something. *)
AcceptanceBinds(p) ==
    tradeState[p] = "ACCEPT" /\ tradeState'[p] = "ACCEPT" =>
        LET q == tradePartner[p]
        IN  /\ tradePartner'[p] = q
            /\ tradeItem'[p] = tradeItem[p]
            /\ tradeItem[q] # NoItem => tradeItem'[q] = tradeItem[q]

(* The offers of p and q come into each other's hands.                     *)
OffersSwapped(p, q) ==
    /\ p # q /\ tradeItem[p] # NoItem /\ tradeItem[q] # NoItem
    /\ TopParent(parent', tradeItem[p]) = q
    /\ TopParent(parent', tradeItem[q]) = p

(* p and q are partners, one has accepted before this step and the other   *)
(* one accepts in it, and their trade is over.                             *)
SwapAgreed(p, q) ==
    /\ tradePartner[p] = q /\ tradePartner[q] = p
    /\ \/ tradeState[p] = "ACCEPT" /\ MayAccept(q)
       \/ tradeState[q] = "ACCEPT" /\ MayAccept(p)
    /\ tradeState'[p] = "NONE" /\ tradeState'[q] = "NONE"

(* Two offers change hands only between partners of whom one has accepted  *)
(* and the other one accepts now, and between an acceptance and the swap   *)
(* neither offer is exchanged for another one.  The code allows one thing  *)
(* more, which this does not exclude: a player may accept while the        *)
(* partner offers nothing yet, and is then bound to the first offer the    *)
(* partner makes.                                                          *)
AcceptedOfferStands ==
    [][/\ \A p \in Players : AcceptanceBinds(p)
       /\ \A p, q \in Players : OffersSwapped(p, q) => SwapAgreed(p, q)]_tradeVars
=============================================================================
