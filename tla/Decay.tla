------------------------------- MODULE Decay --------------------------------
(***************************************************************************)
(* Decaying items.  Decay::decayMap holds the items that decay by the time *)
(* at which they do; one scheduled event looks at it in time.  The same    *)
(* fact is kept in three more places, the item's decay state, its          *)
(* timestamp and a reference, and an item that decays can start and stop   *)
(* others, in the middle of checkDecay.                                    *)
(*                                                                         *)
(* Everything runs on the dispatcher thread.  A handler calls functions    *)
(* that call others: todo holds the calls that the handler that runs has   *)
(* still to make, in this order, and checkDecay's loop goes on when there  *)
(* are none.  Another handler begins when the one before is through.  The  *)
(* clock moves between handlers, in units of SCHEDULER_MINTICKS.           *)
(***************************************************************************)
EXTENDS Integers, Sequences, FiniteSets, SequencesExt

CONSTANTS Items,          \* Item objects
          Spare,          \* those that are not in the world at the beginning
          Types,          \* ItemTypes
          DecayTime,      \* type -> how long it lasts, 0 if it does not decay
          DecayTo,        \* type -> the type it turns into, Gone or Never
          StopTime,       \* types that keep the duration of the type before
          Containers,     \* types of containers; the others are of one kind
          Gone, Never,
          StartType,      \* item -> its type at the beginning
          StartParent,    \* item -> where it is at the beginning
          ScriptTimes,    \* durations that scripts give to items
          World, Nowhere, \* the ground; no parent
          None,           \* no such attribute, no event, no entry
          MaxTime         \* bound of the clock

DecayConstants ==
    /\ IsFiniteSet(Items) /\ Spare \subseteq Items
    /\ DecayTime \in [Types -> Nat]
    /\ DecayTo \in [Types -> Types \union {Gone, Never}]
    /\ StopTime \subseteq Types /\ Containers \subseteq Types
    /\ StartType \in [Items -> Types]
    /\ StartParent \in [Items -> Items \union {World, Nowhere}]
    /\ ScriptTimes \subseteq Nat \ {0}
    /\ World # Nowhere /\ {World, Nowhere, None} \intersect Items = {}
    /\ Gone # Never /\ {Gone, Never} \intersect Types = {}
    /\ None \notin Nat /\ None \notin {"FALSE", "TRUE", "PENDING", "STOPPING"}
    /\ MaxTime \in Nat

ASSUME DecayAssumption == DecayConstants

VARIABLES now,            \* OTSYS_TIME
          type, parent,   \* of each item
          decayState,     \* ITEM_ATTRIBUTE_DECAYSTATE
          duration,       \* ITEM_ATTRIBUTE_DURATION
          timestamp,      \* ITEM_ATTRIBUTE_DURATION_TIMESTAMP
          held,           \* item -> references that Decay holds
          decayMap,       \* pairs <<time, item>>
          event,          \* when the event of eventId runs, None if it has run
          others,         \* when other events that call checkDecay run
          todo,           \* calls that the handler has still to make
          checking,       \* checkDecay runs; its variables:
          tempItems,      \* the entries its loop has still to look at
          item,           \* the item it looks at, None if there is none
          it,             \* the time of the entry it remembers, None for end
          erased,         \* that entry has been erased since
          undefined       \* checkDecay has used an iterator to an erased entry

attributes == <<decayState, duration, timestamp>>
items  == <<type, parent>>
booked == <<held, decayMap>>
events == <<event, others>>
loop   == <<checking, tempItems, item, it>>
decayVars == <<now, type, parent, decayState, duration, timestamp, held, decayMap, event,
               others, todo, checking, tempItems, item, it, erased, undefined>>

States == {"FALSE", "TRUE", "PENDING", "STOPPING"}
Calls == [op: {"start", "stop", "decay"}, arg: Items]

DecayTypeOK == /\ now \in 0 .. MaxTime
               /\ type \in [Items -> Types]
               /\ parent \in [Items -> Items \union {World, Nowhere}]
               /\ decayState \in [Items -> States \union {None}]
               /\ duration \in [Items -> Nat \union {None}]
               /\ timestamp \in [Items -> Nat \union {None}]
               /\ held \in [Items -> Nat]
               /\ decayMap \subseteq Nat \X Items
               /\ event \in Nat \union {None}
               /\ others \subseteq Nat
               /\ todo \in Seq(Calls)
               /\ checking \in BOOLEAN /\ erased \in BOOLEAN /\ undefined \in BOOLEAN
               /\ tempItems \subseteq Nat \X Items
               /\ item \in Items \union {None}
               /\ it \in Nat \union {None}

DecayInit == /\ now = 0
             /\ type = StartType
             /\ parent = StartParent
             /\ decayState = [i \in Items |-> None]
             /\ duration = [i \in Items |-> IF DecayTime[StartType[i]] > 0
                                            THEN DecayTime[StartType[i]] ELSE None]
             /\ timestamp = [i \in Items |-> None]
             /\ held = [i \in Items |-> 0]
             /\ decayMap = {}
             /\ event = None
             /\ others = {}
             /\ todo = <<>>
             /\ checking = FALSE /\ tempItems = {} /\ item = None /\ it = None /\ erased = FALSE
             /\ undefined = FALSE

(* No handler runs.                                                        *)
Idle == todo = <<>> /\ ~checking

-----------------------------------------------------------------------------
Call(op, arg) == [op |-> op, arg |-> arg]

(* The item and, when it is a container, what is in it: the loop over the  *)
(* container's list.                                                       *)
Contents(i) == SetToSeq({c \in Items : parent[c] = i})
CallsFor(op, i) == <<Call(op, i)>> \o [n \in 1 .. Len(Contents(i)) |-> Call(op, Contents(i)[n])]

(* Item::isRemoved looks at the containers around.                         *)
IsRemoved(i) == LET p == parent[i] IN p = Nowhere \/ (p \in Items /\ parent[p] = Nowhere)

CanDecay(i) == ~IsRemoved(i) /\ DecayTo[type[i]] # Never /\ DecayTime[type[i]] > 0

(* An attribute that is missing reads as 0.                                *)
IntAttr(a) == IF a = None THEN 0 ELSE a

GetDuration(i) ==
    IF decayState[i] \in {"TRUE", "STOPPING"}
    THEN IF IntAttr(timestamp[i]) > now THEN IntAttr(timestamp[i]) - now ELSE 0
    ELSE IntAttr(duration[i])

(* Scheduler::addEvent: a pending event loses its number, not its call.    *)
AddEvent(at) ==
    /\ event' = at
    /\ others' = IF event = None THEN others ELSE others \union {event}

(* The same after stopEvent: one whose time has come may be with the       *)
(* dispatcher already.                                                     *)
StopAndAddEvent(at) ==
    /\ event' = at
    /\ \/ UNCHANGED others
       \/ event # None /\ event <= now /\ others' = others \union {event}

Booked(m, i) == {e \in m : e[2] = i}

(* Decay::stopDecay finds the item only under the time it is given.        *)
StopBooking(i) ==
    LET found == timestamp[i] # None /\ <<timestamp[i], i>> \in decayMap
    IN  [found |-> found,
         map   |-> IF found THEN decayMap \ {<<timestamp[i], i>>} ELSE decayMap]

(* When stopDecay leaves the map m without checkDecay's next entry, its    *)
(* iterator points nowhere.                                                *)
Erases(m) == erased' = (erased \/ (it # None /\ \A e \in m : e[1] # it))

-----------------------------------------------------------------------------
(* The calls of a handler.  rest is what it does after the call.           *)

(* Decay::startDecay; Variants: an item that decays already is entered     *)
(* again; the event is not moved forward for an earlier item.              *)
EnterAgain(i, rest) ==
    LET at == now + duration[i]
    IN  /\ \/ decayMap = {} /\ AddEvent(at)
           \/ /\ decayMap # {} /\ \A e \in decayMap : at < e[1]
              /\ StopAndAddEvent(at)
           \/ /\ \E e \in decayMap : e[1] <= at
              /\ UNCHANGED events
        /\ held' = [held EXCEPT ![i] = @ + 1]
        /\ decayMap' = decayMap \union {<<at, i>>}
        /\ decayState' = [decayState EXCEPT ![i] = "TRUE"]
        /\ timestamp' = [timestamp EXCEPT ![i] = at]
        /\ todo' = rest
        /\ UNCHANGED <<now, items, duration, loop, erased, undefined>>

EnterKeepsEvent(i, rest) ==
    LET at == now + duration[i]
        stopped == StopBooking(i)
    IN  /\ \/ stopped.map = {} /\ AddEvent(at)
           \/ stopped.map # {} /\ UNCHANGED events
        /\ held' = [held EXCEPT ![i] = IF stopped.found THEN @ ELSE @ + 1]
        /\ decayMap' = stopped.map \union {<<at, i>>}
        /\ decayState' = [decayState EXCEPT ![i] = "TRUE"]
        /\ timestamp' = [timestamp EXCEPT ![i] = at]
        /\ todo' = rest
        /\ Erases(stopped.map)
        /\ UNCHANGED <<now, items, duration, loop, undefined>>

Enter(i, rest) ==
    LET at == now + duration[i]
        stopped == StopBooking(i)
    IN  /\ \/ stopped.map = {} /\ AddEvent(at)
           \/ /\ stopped.map # {} /\ \A e \in stopped.map : at < e[1]
              /\ StopAndAddEvent(at)
           \/ /\ \E e \in stopped.map : e[1] <= at
              /\ UNCHANGED events
        /\ held' = [held EXCEPT ![i] = IF stopped.found THEN @ ELSE @ + 1]
        /\ decayMap' = stopped.map \union {<<at, i>>}
        /\ decayState' = [decayState EXCEPT ![i] = "TRUE"]
        /\ timestamp' = [timestamp EXCEPT ![i] = at]
        /\ todo' = rest
        /\ Erases(stopped.map)
        /\ UNCHANGED <<now, items, duration, loop, undefined>>

(* Game::startDecay.                                                       *)
StartDecay(i, rest) ==
    LET ends == decayState[i] = "STOPPING" \/ (~CanDecay(i) /\ decayState[i] = "TRUE")
        stays == ~ends /\ (~CanDecay(i) \/ decayState[i] = "TRUE")
        Skip(calls) == todo' = calls /\ UNCHANGED <<now, items, attributes, booked, events,
                                                   loop, erased, undefined>>
    IN  \/ ends /\ Skip(<<Call("stop", i)>> \o rest)
        \/ stays /\ Skip(rest)
        \/ ~ends /\ ~stays /\ IntAttr(duration[i]) > 0 /\ Enter(i, rest)
        \/ ~ends /\ ~stays /\ IntAttr(duration[i]) = 0 /\ Skip(<<Call("decay", i)>> \o rest)

(* Game::stopDecay and Decay::stopDecay.                                   *)
StopDecay(i, rest) ==
    LET stopped == IF decayState[i] # None THEN StopBooking(i)
                   ELSE [found |-> FALSE, map |-> decayMap]
    IN  /\ decayMap' = stopped.map
        /\ held' = [held EXCEPT ![i] = IF stopped.found THEN @ - 1 ELSE @]
        /\ duration' = [duration EXCEPT ![i] = IF stopped.found /\ @ # None
                                               THEN GetDuration(i) ELSE @]
        /\ decayState' = [decayState EXCEPT ![i] = IF stopped.found \/ timestamp[i] = None
                                                   THEN None ELSE @]
        /\ timestamp' = [timestamp EXCEPT ![i] = IF decayState[i] # None THEN None ELSE @]
        /\ todo' = rest
        /\ Erases(stopped.map)
        /\ UNCHANGED <<now, items, events, loop, undefined>>

(* Item::setID.                                                            *)
SetID(i, t) ==
    LET ends == DecayTime[t] = 0 /\ t \notin StopTime /\ DecayTo[t] = Never
        kept == IF ends THEN None ELSE duration[i]
        renews == DecayTime[t] > 0 /\ (type[i] \notin StopTime \/ kept = None)
    IN  /\ type' = [type EXCEPT ![i] = t]
        /\ decayState' = [decayState EXCEPT ![i] = IF renews THEN "PENDING"
                                                   ELSE IF ends /\ @ # None THEN "STOPPING" ELSE @]
        /\ duration' = [duration EXCEPT ![i] = IF renews THEN DecayTime[t] ELSE kept]

(* Game::transformItem between types of a kind: the item is given the new  *)
(* type and starts again, with its contents.                               *)
TransformInPlace(i, t, rest) ==
    /\ parent[i] # Nowhere /\ type[i] # t
    /\ type[i] \in Containers <=> t \in Containers
    /\ SetID(i, t)
    /\ todo' = CallsFor("start", i) \o rest
    /\ UNCHANGED <<now, parent, timestamp, booked, events, loop, erased, undefined>>

(* ... and between kinds, where a new object takes its place: one that was *)
(* never used, or that nothing refers to any more.                         *)
TransformReplaces(i, t, rest) ==
    /\ parent[i] # Nowhere
    /\ ~(type[i] \in Containers <=> t \in Containers)
    /\ \E new \in Spare :
          /\ parent[new] = Nowhere /\ held[new] = 0 /\ decayState[new] = None
          /\ \A c \in Items : parent[c] # new
          /\ parent' = [parent EXCEPT ![new] = parent[i], ![i] = Nowhere]
          /\ type' = [type EXCEPT ![new] = t]
          /\ duration' = [duration EXCEPT ![new] = IF DecayTime[t] > 0 THEN DecayTime[t]
                                                   ELSE None]
          /\ todo' = CallsFor("stop", i) \o <<Call("start", new)>> \o rest
    /\ UNCHANGED <<now, decayState, timestamp, booked, events, loop, erased, undefined>>

(* Game::internalRemoveItem.                                               *)
InternalRemoveItem(i, rest) ==
    /\ parent[i] # Nowhere
    /\ parent' = [parent EXCEPT ![i] = Nowhere]
    /\ todo' = CallsFor("stop", i) \o rest
    /\ UNCHANGED <<now, type, attributes, booked, events, loop, erased, undefined>>

(* When the loop of startDecaying decays an item away, the item leaves the *)
(* list that the loop walks: behind the middle of the list the next one    *)
(* moves into its place and is passed over.  Where there is no next one,   *)
(* the iterator passes the end and what it reads is undefined; the loop    *)
(* that ends there is the one outcome after which anything can be said.    *)
Continues(i, rest) ==
    {rest} \union {Tail(rest) : next \in {c \in Items : /\ rest # <<>> /\ parent[i] \in Items
                                                       /\ parent[c] = parent[i]
                                                       /\ Head(rest) = Call("start", c)}}

(* Game::internalDecayItem; the item may refuse to change.                 *)
InternalDecayItem(i, rest) ==
    LET t == DecayTo[type[i]]
    IN  \/ t # Gone /\ (TransformInPlace(i, t, rest) \/ TransformReplaces(i, t, rest))
        \/ t = Gone /\ \E left \in Continues(i, rest) : InternalRemoveItem(i, left)
        \/ /\ todo' = rest
           /\ UNCHANGED <<now, items, attributes, booked, events, loop, erased, undefined>>

-----------------------------------------------------------------------------
(* Decay::checkDecay takes the entries that are due out of the map, and    *)
(* remembers the one after them.                                           *)
CheckDecay ==
    LET due  == {e \in decayMap : e[1] <= now}
        left == decayMap \ due
    IN  /\ Idle
        /\ \/ event # None /\ event <= now /\ event' = None /\ UNCHANGED others
           \/ \E at \in others : at <= now /\ others' = others \ {at} /\ UNCHANGED event
        /\ decayMap' = left
        /\ checking' = TRUE /\ tempItems' = due /\ UNCHANGED item
        /\ \/ left = {} /\ it' = None
           \/ \E e \in left : it' = e[1] /\ \A f \in left : e[1] <= f[1]
        /\ UNCHANGED <<now, items, attributes, held, todo, erased, undefined>>

(* The loop over tempItems.                                                *)
CheckItem(e) ==
    LET i == e[2]
    IN  /\ checking /\ todo = <<>> /\ item = None
        /\ \A f \in tempItems : e[1] <= f[1]
        /\ \/ /\ CanDecay(i)
              /\ todo' = <<Call("decay", i)>>
              /\ UNCHANGED duration
           \/ /\ ~CanDecay(i)
              /\ duration' = [duration EXCEPT ![i] = GetDuration(i)]
              /\ UNCHANGED todo
        /\ decayState' = [decayState EXCEPT ![i] = "FALSE"]
        /\ timestamp' = [timestamp EXCEPT ![i] = None]
        /\ tempItems' = tempItems \ {e} /\ item' = i
        /\ UNCHANGED <<now, items, booked, events, checking, it, erased, undefined>>

(* Game::ReleaseItem.                                                      *)
Release ==
    /\ checking /\ todo = <<>> /\ item # None
    /\ held' = [held EXCEPT ![item] = @ - 1]
    /\ item' = None
    /\ UNCHANGED <<now, items, attributes, decayMap, events, todo, checking, tempItems, it,
                   erased, undefined>>

(* The end of checkDecay: the event for the entry it remembered.  When the *)
(* entry has been erased, any time may be read.                            *)
CheckEnd ==
    /\ checking /\ todo = <<>> /\ item = None /\ tempItems = {}
    /\ \/ it = None /\ UNCHANGED <<events, undefined>>
       \/ /\ it # None /\ ~erased
          /\ AddEvent(IF it > now THEN it ELSE now + 1)
          /\ UNCHANGED undefined
       \/ /\ it # None /\ erased
          /\ \E at \in now + 1 .. MaxTime + 1 : AddEvent(at)
          /\ undefined' = TRUE
    /\ checking' = FALSE /\ it' = None /\ erased' = FALSE
    /\ UNCHANGED <<now, items, attributes, booked, todo, tempItems, item>>

(* The handler goes on with its next call.                                 *)
Step == /\ todo # <<>>
        /\ LET call == Head(todo)
               rest == Tail(todo)
           IN  \/ call.op = "start" /\ StartDecay(call.arg, rest)
               \/ call.op = "stop" /\ StopDecay(call.arg, rest)
               \/ call.op = "decay" /\ InternalDecayItem(call.arg, rest)

-----------------------------------------------------------------------------
(* What players and scripts do to an item.                                 *)

(* Containers are not put into one another here.                           *)
Holders(i) == {World} \union {c \in Items : /\ type[i] \notin Containers
                                            /\ type[c] \in Containers
                                            /\ parent[c] = World}

(* An item that enters the world, or is moved, starts to decay.            *)
MoveItem(i, to) ==
    /\ Idle
    /\ ~IsRemoved(i)
    /\ parent' = [parent EXCEPT ![i] = to]
    /\ todo' = CallsFor("start", i)
    /\ UNCHANGED <<now, type, attributes, booked, events, loop, erased, undefined>>

PlayerTransforms(i) == /\ Idle
                       /\ \/ \E t \in Types : TransformInPlace(i, t, <<>>)
                          \/ \E t \in Types \ Containers : TransformReplaces(i, t, <<>>)

PlayerRemoves(i) == Idle /\ InternalRemoveItem(i, <<>>)

(* item:setAttribute of the decay state, and of the duration of an item in *)
(* the world.                                                              *)
ScriptSetsState(i) ==
    /\ Idle
    /\ \E op \in {"start", "stop"} : todo' = <<Call(op, i)>>
    /\ UNCHANGED <<now, items, attributes, booked, events, loop, erased, undefined>>

ScriptSetsDuration(i, n) ==
    /\ Idle
    /\ ~IsRemoved(i)
    /\ decayState' = [decayState EXCEPT ![i] = "PENDING"]
    /\ duration' = [duration EXCEPT ![i] = n]
    /\ todo' = <<Call("start", i)>>
    /\ UNCHANGED <<now, items, timestamp, booked, events, loop, erased, undefined>>

Tick == /\ Idle
        /\ now < MaxTime
        /\ now' = now + 1
        /\ UNCHANGED <<items, attributes, booked, events, todo, loop, erased, undefined>>

DecayNext == \/ \E i \in Items : \/ \E to \in Holders(i) : MoveItem(i, to)
                                 \/ PlayerTransforms(i) \/ PlayerRemoves(i)
                                 \/ ScriptSetsState(i)
                                 \/ \E n \in ScriptTimes : ScriptSetsDuration(i, n)
             \/ CheckDecay \/ \E e \in tempItems : CheckItem(e)
             \/ Release \/ CheckEnd \/ Step \/ Tick

DecaySpec == DecayInit /\ [][DecayNext]_decayVars

-----------------------------------------------------------------------------
(* The references that checkDecay's loop still has to release.             *)
InHand(i) == Cardinality(Booked(tempItems, i)) + (IF item = i THEN 1 ELSE 0)

(* The four records of a decaying item agree: it is entered under its own  *)
(* timestamp and so only once, Decay holds exactly one reference for each  *)
(* entry and for each item that checkDecay has in hand, and outside of a   *)
(* handler every item that says it decays is entered.                      *)
DecayBooked ==
    /\ \A e \in decayMap : timestamp[e[2]] = e[1]
    /\ \A i \in Items : held[i] = Cardinality(Booked(decayMap, i)) + InHand(i)
    /\ Idle => \A i \in Items : decayState[i] = "TRUE" => Booked(decayMap, i) # {}

(* Between handlers, an event that calls checkDecay is pending for no      *)
(* later than the first item's time, whatever was started, stopped,        *)
(* transformed or removed since, and by whom; as long as checkDecay read   *)
(* no erased entry.                                                        *)
WakeInTime ==
    Idle /\ ~undefined =>
        \A e \in decayMap : \E at \in others \union {event} :
            at # None /\ at <= e[1]

(* "Iterating here is unsafe so let's copy our items into temporary        *)
(* vector": what the items do to the map does not reach the loop's         *)
(* iterator.                                                               *)
IteratorsStayValid == ~undefined
=============================================================================
