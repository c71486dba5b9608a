------------------------------ MODULE Session -------------------------------
(***************************************************************************)
(* The sessions of one character: the ProtocolGame objects that log it in, *)
(* replace one another and are released, the Player objects they refer to, *)
(* and the list of protocols whose output buffers are flushed every 10 ms. *)
(*                                                                         *)
(* Tasks run one at a time on the dispatcher thread, in the order in which *)
(* they were posted; events of the scheduler go to the front, so an event  *)
(* is a step that may come between any two tasks.  The network thread runs *)
(* Connection's handlers; it reads the session's members while it holds    *)
(* the connection's lock, which close, and with it every task that         *)
(* disconnects, has to wait for.  A connection behaves as ConnectionLife   *)
(* says.  What scripts, the database and the fight decide is left open.    *)
(***************************************************************************)
EXTENDS Naturals, Sequences

CONSTANTS Protocols,      \* ProtocolGame objects, one per connection
          Objects,        \* Player objects that login may create
          Exempt,         \* the ones that are never idle for long enough
          NoProtocol, NoObject,
          Configs,        \* configurations, which can be reloaded at any time
          MaxCloses,      \* times that the network closes a connection
          MaxTasks        \* tasks in the queue that a packet may join

ASSUME SessionAssumption == /\ NoProtocol \notin Protocols
                            /\ NoObject \notin Objects
                            /\ Exempt \subseteq Objects
                            /\ Configs \subseteq [allowClones: BOOLEAN,
                                                  replaceKick: BOOLEAN]
                            /\ MaxCloses \in Nat /\ MaxTasks \in Nat

VARIABLES conn,           \* protocol -> the life of its connection
          closes,         \* protocol -> how often it was closed
          receivedFirst,  \* protocols whose first message has arrived
          parsing,        \* the protocol in parsePacket, past its checks
          queue,          \* the dispatcher's tasks
          player,         \* ProtocolGame::player
          acceptPackets,  \* protocols that have it set
          eventConnect,   \* protocol -> the player its event will connect
          object,         \* object -> where it is in its life
          client,         \* Player::client
          isConnecting,   \* players that have it set
          refs,           \* object -> its referenceCounter
          checked,        \* objects in a vector of Game::checkCreatureLists
          toRelease,      \* object -> entries in Game::ToReleaseCreatures
          buffered,       \* OutputMessagePool::bufferedProtocols
          sendAlls        \* scheduled calls of OutputMessagePool::sendAll

network == <<conn, closes, receivedFirst, parsing>>
session == <<player, acceptPackets, eventConnect>>
players == <<object, client, isConnecting, refs, checked, toRelease>>
output  == <<buffered, sendAlls>>
vars    == <<conn, closes, receivedFirst, parsing, queue, player, acceptPackets,
             eventConnect, object, client, isConnecting, refs, checked, toRelease,
             buffered, sendAlls>>

Tasks == [op: {"login", "release", "packet", "logout"}, p: Protocols]

TypeOK == /\ conn \in [Protocols -> {"new", "open", "closed", "gone"}]
          /\ closes \in [Protocols -> Nat]
          /\ receivedFirst \subseteq Protocols
          /\ parsing \in Protocols \union {NoProtocol}
          /\ queue \in Seq(Tasks)
          /\ player \in [Protocols -> Objects \union {NoObject}]
          /\ acceptPackets \subseteq Protocols
          /\ eventConnect \in [Protocols -> Objects \union {NoObject}]
          /\ object \in [Objects -> {"unused", "loaded", "online", "removed", "deleted"}]
          /\ client \in [Objects -> Protocols \union {NoProtocol}]
          /\ isConnecting \subseteq Objects
          /\ refs \in [Objects -> Nat]
          /\ checked \subseteq Objects
          /\ toRelease \in [Objects -> Nat]
          /\ buffered \in [Protocols -> Nat]
          /\ sendAlls \in Nat

Init == /\ conn = [p \in Protocols |-> "new"]
        /\ closes = [p \in Protocols |-> 0]
        /\ receivedFirst = {}
        /\ parsing = NoProtocol
        /\ queue = <<>>
        /\ player = [p \in Protocols |-> NoObject]
        /\ acceptPackets = {}
        /\ eventConnect = [p \in Protocols |-> NoObject]
        /\ object = [o \in Objects |-> "unused"]
        /\ client = [o \in Objects |-> NoProtocol]
        /\ isConnecting = {}
        /\ refs = [o \in Objects |-> 0]
        /\ checked = {}
        /\ toRelease = [o \in Objects |-> 0]
        /\ buffered = [p \in Protocols |-> 0]
        /\ sendAlls = 0

Task(op, p) == [op |-> op, p |-> p]

-----------------------------------------------------------------------------
(* Variant: the lock is not taken.                                         *)
CloseUnlocked(p, rest) ==
    /\ conn' = [conn EXCEPT ![p] = "closed"]
    /\ closes' = [closes EXCEPT ![p] = @ + 1]
    /\ queue' = Append(rest, Task("release", p))

(* Connection::close, from any thread: it takes the connection's lock and  *)
(* posts the release.  rest is the queue without the task being run.       *)
Close(p, rest) ==
    /\ parsing # p
    /\ conn' = [conn EXCEPT ![p] = "closed"]
    /\ closes' = [closes EXCEPT ![p] = @ + 1]
    /\ queue' = Append(rest, Task("release", p))

KeepConnections(rest) == queue' = rest /\ UNCHANGED <<conn, closes>>

(* Protocol::disconnect: nothing happens if the connection is gone.        *)
Disconnect(p, rest) ==
    IF conn[p] # "gone" THEN Close(p, rest) ELSE KeepConnections(rest)

-----------------------------------------------------------------------------
(* The network thread.                                                     *)

Accept(p) ==
    /\ parsing = NoProtocol
    /\ conn[p] = "new"
    /\ conn' = [conn EXCEPT ![p] = "open"]
    /\ UNCHANGED <<closes, receivedFirst, parsing, queue, session, players, output>>

(* An error, a timeout, the packet limit: any of its handlers closes the   *)
(* connection, also again while an operation of a closed one comes to its  *)
(* end.                                                                    *)
NetworkCloses(p) ==
    /\ parsing = NoProtocol
    /\ conn[p] \in {"open", "closed"}
    /\ closes[p] < MaxCloses
    /\ Close(p, queue)
    /\ UNCHANGED <<receivedFirst, parsing, session, players, output>>

ConnectionDestroyed(p) ==
    /\ conn[p] = "closed"
    /\ conn' = [conn EXCEPT ![p] = "gone"]
    /\ UNCHANGED <<closes, receivedFirst, parsing, queue, session, players, output>>

(* ProtocolGame::onRecvFirstMessage: login is posted, or it is refused.    *)
OnRecvFirstMessage(p) ==
    /\ parsing = NoProtocol
    /\ conn[p] = "open" /\ p \notin receivedFirst
    /\ receivedFirst' = receivedFirst \union {p}
    /\ \/ KeepConnections(Append(queue, Task("login", p)))
       \/ Close(p, queue)
    /\ UNCHANGED <<parsing, session, players, output>>

(* A player who is gone or dead can only leave.                            *)
CanAct(p) == player[p] # NoObject /\ object[player[p]] = "online"

(* The checks of ProtocolGame::parsePacket, made under connectionLock.     *)
ParsePacket(p) ==
    /\ parsing = NoProtocol
    /\ conn[p] = "open" /\ p \in receivedFirst /\ p \in acceptPackets
    /\ \/ /\ Len(queue) < MaxTasks                   \* an action or a logout
          /\ parsing' = p
          /\ KeepConnections(queue)
       \/ /\ ~CanAct(p)                              \* the death window
          /\ Close(p, queue)
          /\ UNCHANGED parsing
    /\ UNCHANGED <<receivedFirst, session, players, output>>

(* Its second half: it reads the id out of player and posts the packet.    *)
ParsePacketPosts(p) ==
    /\ parsing = p
    /\ parsing' = NoProtocol
    /\ player[p] # NoObject
    /\ queue' = Append(queue, Task("packet", p))
    /\ UNCHANGED <<conn, closes, receivedFirst, session, players, output>>

-----------------------------------------------------------------------------
(* The Game: Player objects and their reference counters.                  *)

(* Game::removeCreature: the reference of the Game moves to the list of    *)
(* creatures to release; Player::onRemoveCreature leaves client alone.     *)
Removed(o) == /\ object' = [object EXCEPT ![o] = "removed"]
              /\ toRelease' = [toRelease EXCEPT ![o] = @ + 1]
              /\ UNCHANGED <<client, isConnecting, refs, checked>>

(* ProtocolGame::logout for a protocol with a player, past its questions:  *)
(* the client is told and disconnected, the creature removed.              *)
LeaveGame(p, rest) ==
    /\ Disconnect(p, rest)
    /\ IF object[player[p]] = "online" THEN Removed(player[p]) ELSE UNCHANGED players

(* The player is killed.                                                   *)
Death(o) ==
    /\ object[o] = "online"
    /\ Removed(o)
    /\ UNCHANGED <<network, queue, session, output>>

(* Player::kickPlayer by the staff or a script.                            *)
Kick(o) ==
    /\ object[o] = "online"
    /\ IF client[o] # NoProtocol THEN LeaveGame(client[o], queue)
       ELSE Removed(o) /\ KeepConnections(queue)
    /\ UNCHANGED <<receivedFirst, parsing, session, output>>

(* Player::onThink kicks a player who was idle for long enough.  No time   *)
(* counts as idle for an access player, on a tile without logout and in    *)
(* exercise training: Exempt are the players for whom, over all their time *)
(* in the game, too little counts.                                         *)
IdleForLong(o) == object[o] = "online" /\ o \notin Exempt

(* sendPing lets a player go who has not answered a ping for a minute,     *)
(* unless canLogout refuses, for isConnecting or, which is left open, for  *)
(* the tile or a fight, or the logout script does.                         *)
LostOnPing(o) == object[o] = "online" /\ o \notin isConnecting

LeavesOnThink(o, idle) == IF idle THEN IdleForLong(o) ELSE LostOnPing(o)

(* Game::checkCreatures, with at most one player who leaves on thinking:   *)
(* the creatures that were removed earlier leave their vector, and cleanup *)
(* drops the references of all that are to be released.                    *)
CheckCreatures(leaving) ==
    LET left == {o \in checked : object[o] # "online"}
        dropped(o) == toRelease[o] + (IF o \in left THEN 1 ELSE 0)
                                   + (IF o \in leaving THEN 1 ELSE 0)
    IN  /\ checked' = checked \ left
        /\ toRelease' = [o \in Objects |-> 0]
        /\ refs' = [o \in Objects |-> refs[o] - dropped(o)]
        /\ object' = [o \in Objects |->
                        IF dropped(o) > 0 /\ refs[o] = dropped(o) THEN "deleted"
                        ELSE IF o \in leaving THEN "removed"
                        ELSE object[o]]
        /\ UNCHANGED <<client, isConnecting>>

CheckNobody ==
    /\ \/ \E o \in checked : object[o] # "online"
       \/ \E o \in Objects : toRelease[o] > 0
    /\ CheckCreatures({})
    /\ UNCHANGED <<network, queue, session, output>>

(* Variant: the idle player without a client is left alone.                *)
CheckPlayerWithClient(o, idle) ==
    /\ LeavesOnThink(o, idle)
    /\ client[o] # NoProtocol
    /\ CheckCreatures({o})
    /\ Disconnect(client[o], queue)
    /\ UNCHANGED <<receivedFirst, parsing, session, output>>

CheckPlayer(o, idle) ==
    /\ LeavesOnThink(o, idle)
    /\ CheckCreatures({o})
    /\ IF client[o] # NoProtocol THEN Disconnect(client[o], queue)
       ELSE KeepConnections(queue)
    /\ UNCHANGED <<receivedFirst, parsing, session, output>>

-----------------------------------------------------------------------------
(* OutputMessagePool.                                                      *)

Empty == \A p \in Protocols : buffered[p] = 0

AddProtocolToAutosend(p) ==
    /\ sendAlls' = IF Empty THEN sendAlls + 1 ELSE sendAlls
    /\ buffered' = [buffered EXCEPT ![p] = @ + 1]

RemoveProtocolFromAutosend(p) ==
    /\ buffered' = [buffered EXCEPT ![p] = IF @ > 0 THEN @ - 1 ELSE 0]
    /\ UNCHANGED sendAlls

(* It flushes the buffers and comes again while there are protocols.       *)
SendAll ==
    /\ sendAlls > 0
    /\ Empty
    /\ sendAlls' = sendAlls - 1
    /\ UNCHANGED <<network, queue, session, players, buffered>>

-----------------------------------------------------------------------------
(* The tasks of ProtocolGame.                                              *)

Runs(op, p) == queue # <<>> /\ Head(queue) = Task(op, p)

(* The last reference to go deletes the object.                            *)
Unreferenced(o) == /\ refs' = [refs EXCEPT ![o] = @ - 1]
                   /\ object' = [object EXCEPT ![o] = IF refs[o] = 1 THEN "deleted" ELSE @]

(* Variant: a protocol without a player stays in the list.                 *)
ReleaseReturnsEarly(p) ==
    /\ Runs("release", p)
    /\ IF player[p] # NoObject /\ client[player[p]] = p
       THEN /\ client' = [client EXCEPT ![player[p]] = NoProtocol]
            /\ Unreferenced(player[p])
            /\ player' = [player EXCEPT ![p] = NoObject]
            /\ UNCHANGED <<acceptPackets, eventConnect, isConnecting, checked, toRelease>>
            /\ RemoveProtocolFromAutosend(p)
       ELSE UNCHANGED <<session, players, output>>
    /\ queue' = Tail(queue)
    /\ UNCHANGED network

Release(p) ==
    /\ Runs("release", p)
    /\ IF player[p] # NoObject /\ client[player[p]] = p
       THEN /\ client' = [client EXCEPT ![player[p]] = NoProtocol]
            /\ Unreferenced(player[p])
            /\ player' = [player EXCEPT ![p] = NoObject]
            /\ UNCHANGED <<acceptPackets, eventConnect, isConnecting, checked, toRelease>>
       ELSE UNCHANGED <<session, players>>
    /\ RemoveProtocolFromAutosend(p)
    /\ queue' = Tail(queue)
    /\ UNCHANGED network

(* Game::getPlayerByName.                                                  *)
Found(o) == object[o] = "online"

(* A new Player object with this protocol as its client.                   *)
NewPlayer(p, o, stage, count) ==
    /\ object[o] = "unused"
    /\ object' = [object EXCEPT ![o] = stage]
    /\ client' = [client EXCEPT ![o] = p]
    /\ player' = [player EXCEPT ![p] = o]
    /\ refs' = [refs EXCEPT ![o] = count]
    /\ UNCHANGED <<eventConnect, isConnecting>>

MayCreate == \E cfg \in Configs :
               cfg.allowClones \/ ~\E o \in Objects : Found(o)

MayReplace(replace) == \E cfg \in Configs : /\ ~cfg.allowClones
                                            /\ cfg.replaceKick = replace

(* The character cannot be loaded, is banned, has to wait and so on: the   *)
(* client is told and disconnected, or, when only the prey data cannot be  *)
(* loaded, left waiting.                                                   *)
LoginRefused(p) ==
    /\ Runs("login", p) /\ MayCreate
    /\ \E o \in Objects : NewPlayer(p, o, "loaded", 1)
    /\ \/ Disconnect(p, Tail(queue))
       \/ KeepConnections(Tail(queue))
    /\ UNCHANGED <<receivedFirst, parsing, acceptPackets, checked, toRelease, output>>

(* The player is placed in the world: the Game and its check list refer to *)
(* it too.                                                                 *)
LoginPlaced(p) ==
    /\ Runs("login", p) /\ MayCreate
    /\ \E o \in Objects : /\ NewPlayer(p, o, "online", 3)
                          /\ checked' = checked \union {o}
    /\ acceptPackets' = acceptPackets \union {p}
    /\ AddProtocolToAutosend(p)
    /\ KeepConnections(Tail(queue))
    /\ UNCHANGED <<receivedFirst, parsing, toRelease>>

(* The login script refuses the player, who is kicked at once.             *)
LoginKicked(p) ==
    /\ Runs("login", p) /\ MayCreate
    /\ \E o \in Objects : /\ NewPlayer(p, o, "removed", 3)
                          /\ checked' = checked \union {o}
                          /\ toRelease' = [toRelease EXCEPT ![o] = @ + 1]
    /\ acceptPackets' = acceptPackets \union {p}
    /\ AddProtocolToAutosend(p)
    /\ Disconnect(p, Tail(queue))
    /\ UNCHANGED <<receivedFirst, parsing>>

LoginAlreadyIn(p) ==
    /\ Runs("login", p) /\ MayReplace(FALSE)
    /\ \E o \in Objects : Found(o)
    /\ Disconnect(p, Tail(queue))
    /\ UNCHANGED <<receivedFirst, parsing, session, players, output>>

(* The player has a client: it is disconnected, and an event of the        *)
(* scheduler connects this protocol a second later.                        *)
LoginReplaces(p) ==
    /\ Runs("login", p) /\ MayReplace(TRUE)
    /\ \E o \in Objects :
         /\ Found(o) /\ client[o] # NoProtocol
         /\ Disconnect(client[o], Tail(queue))
         /\ isConnecting' = isConnecting \union {o}
         /\ eventConnect' = [eventConnect EXCEPT ![p] = o]
    /\ AddProtocolToAutosend(p)
    /\ UNCHANGED <<receivedFirst, parsing, player, acceptPackets, object, client,
                   refs, checked, toRelease>>

(* Variant: the reference to the player is not counted.                    *)
AttachUncounted(p, o) ==
    IF conn[p] = "gone" THEN UNCHANGED <<player, client, isConnecting, refs, acceptPackets>>
    ELSE /\ player' = [player EXCEPT ![p] = o]
         /\ client' = [client EXCEPT ![o] = p]
         /\ isConnecting' = isConnecting \ {o}
         /\ acceptPackets' = acceptPackets \union {p}
         /\ UNCHANGED refs

(* ProtocolGame::connect, the player being online and without a client.    *)
Attach(p, o) ==
    IF conn[p] = "gone" THEN UNCHANGED <<player, client, isConnecting, refs, acceptPackets>>
    ELSE /\ player' = [player EXCEPT ![p] = o]
         /\ client' = [client EXCEPT ![o] = p]
         /\ refs' = [refs EXCEPT ![o] = @ + 1]
         /\ isConnecting' = isConnecting \ {o}
         /\ acceptPackets' = acceptPackets \union {p}

(* The player has lost its client: this protocol is connected at once.     *)
LoginResumes(p) ==
    /\ Runs("login", p) /\ MayReplace(TRUE)
    /\ \E o \in Objects : Found(o) /\ client[o] = NoProtocol /\ Attach(p, o)
    /\ AddProtocolToAutosend(p)
    /\ KeepConnections(Tail(queue))
    /\ UNCHANGED <<receivedFirst, parsing, eventConnect, object, checked, toRelease>>

(* Variant: the event does not look at the client that may be there.       *)
ConnectAnyway(p) ==
    /\ eventConnect[p] # NoObject
    /\ eventConnect' = [eventConnect EXCEPT ![p] = NoObject]
    /\ IF object[eventConnect[p]] # "online"
       THEN /\ Disconnect(p, queue)
            /\ UNCHANGED <<player, client, isConnecting, refs, acceptPackets>>
       ELSE Attach(p, eventConnect[p]) /\ KeepConnections(queue)
    /\ UNCHANGED <<receivedFirst, parsing, object, checked, toRelease, output>>

(* The scheduled event.  Somebody else may have connected, and the player  *)
(* may have left the game.                                                 *)
Connect(p) ==
    /\ eventConnect[p] # NoObject
    /\ eventConnect' = [eventConnect EXCEPT ![p] = NoObject]
    /\ IF object[eventConnect[p]] # "online" \/ client[eventConnect[p]] # NoProtocol
       THEN /\ Disconnect(p, queue)
            /\ UNCHANGED <<player, client, isConnecting, refs, acceptPackets>>
       ELSE Attach(p, eventConnect[p]) /\ KeepConnections(queue)
    /\ UNCHANGED <<receivedFirst, parsing, object, checked, toRelease, output>>

(* parsePacketFromDispatcher with the request to log out, or another one.  *)
ParsePacketFromDispatcher(p) ==
    /\ Runs("packet", p)
    /\ \/ queue' = Tail(queue)
       \/ CanAct(p) /\ queue' = Append(Tail(queue), Task("logout", p))
    /\ UNCHANGED <<network, session, players, output>>

(* Fights, places and scripts may refuse the logout.                       *)
Logout(p) ==
    /\ Runs("logout", p)
    /\ \/ /\ player[p] # NoObject => CanAct(p)
          /\ KeepConnections(Tail(queue)) /\ UNCHANGED players
       \/ player[p] # NoObject /\ LeaveGame(p, Tail(queue))
    /\ UNCHANGED <<receivedFirst, parsing, session, output>>

-----------------------------------------------------------------------------
Login(p) == \/ LoginRefused(p) \/ LoginPlaced(p) \/ LoginKicked(p)
            \/ LoginAlreadyIn(p) \/ LoginReplaces(p) \/ LoginResumes(p)

RunTask(p) == \/ Login(p) \/ Release(p)
              \/ ParsePacketFromDispatcher(p) \/ Logout(p)

Network(p) == \/ Accept(p) \/ NetworkCloses(p) \/ ConnectionDestroyed(p)
              \/ OnRecvFirstMessage(p) \/ ParsePacket(p) \/ ParsePacketPosts(p)

Next == \/ \E p \in Protocols : Network(p) \/ RunTask(p) \/ Connect(p)
        \/ \E o \in Objects : Death(o) \/ Kick(o)
        \/ \E o \in Objects, idle \in BOOLEAN : CheckPlayer(o, idle)
        \/ CheckNobody
        \/ SendAll

(* The dispatcher runs its tasks and the scheduler its events, the network *)
(* thread ends the handlers it has started, and a player who does nothing  *)
(* and is not exempt is kicked in the end.  Nothing is assumed of pings:   *)
(* canLogout or a script may refuse for ever.                              *)
Fairness == /\ WF_vars(\E p \in Protocols : RunTask(p))
            /\ \A p \in Protocols : WF_vars(Connect(p)) /\ WF_vars(ParsePacketPosts(p))
            /\ \A o \in Objects \ Exempt : WF_vars(CheckPlayer(o, TRUE))

Spec == Init /\ [][Next]_vars /\ Fairness

-----------------------------------------------------------------------------
Posted(op, p) == \E i \in DOMAIN queue : queue[i] = Task(op, p)

(* ProtocolGame::player and Player::client point to each other, whatever   *)
(* the order in which logins, replacements, events and releases come, and  *)
(* what they point to has not been deleted.  release relies on it: it lets *)
(* go of the player only if it is still the player's client.               *)
SessionsAgree ==
    /\ \A p \in Protocols, o \in Objects : player[p] = o <=> client[o] = p
    /\ \A p \in Protocols : player[p] # NoObject =>
                               object[player[p]] \notin {"unused", "deleted"}

(* The reference counter of a Player counts its protocol, the Game, the    *)
(* check list and the entries that wait to be released, so that the object *)
(* is deleted when the last of them lets go and not before.                *)
RefsExact ==
    \A o \in Objects :
        /\ refs[o] = (IF client[o] # NoProtocol THEN 1 ELSE 0)
                       + (IF object[o] = "online" THEN 1 ELSE 0)
                       + (IF o \in checked THEN 1 ELSE 0) + toRelease[o]
        /\ refs[o] = 0 <=> object[o] \in {"unused", "deleted"}

(* parsePacket, on the network thread, tests player and later reads the id *)
(* out of it, while release on the dispatcher thread sets it to null: the  *)
(* player tested is still there when it is used.                           *)
PlayerStableWhileParsing ==
    parsing # NoProtocol => player[parsing] # NoObject

(* A protocol is flushed from its login to its release: one in the list    *)
(* still has its release to come, and while there are protocols there is a *)
(* flush to come.                                                          *)
AutosendSound ==
    /\ \A p \in Protocols : buffered[p] > 0 => conn[p] = "open" \/ Posted("release", p)
    /\ ~Empty => sendAlls > 0

HasConnection(o) == client[o] # NoProtocol /\ conn[client[o]] = "open"

(* A player in the game without a live connection, because it was lost,    *)
(* because the protocol that was to take it over never did and left        *)
(* isConnecting set, or because one was attached whose connection is dead, *)
(* gets another or leaves the game.  An access player, and one who stays   *)
(* on a tile without logout or in exercise training, is not promised this. *)
GhostsLeave ==
    \A o \in Objects \ Exempt :
        object[o] = "online" /\ ~HasConnection(o)
            ~> object[o] # "online" \/ HasConnection(o)

(* What the comment in connect claims: once release has been called and    *)
(* the connection is no more, the protocol has no player.                  *)
NoLeakedPlayer ==
    \A p \in Protocols : conn[p] = "gone" /\ ~Posted("release", p) => player[p] = NoObject
=============================================================================
