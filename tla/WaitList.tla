------------------------------ MODULE WaitList ------------------------------
(***************************************************************************)
(* The waiting list of a full server.  A client that finds the server full *)
(* is put on one of two lists, is told when to come back, and is let in    *)
(* when there is room for it and for everybody ahead.  A client that does  *)
(* not come back should lose its place.                                    *)
(*                                                                         *)
(* clientLogin runs on the dispatcher thread: a login is one step.  Times  *)
(* are in seconds; the unsigned arithmetic of the code is modulo 2^64, of  *)
(* which Wrap is a smaller stand-in.                                       *)
(***************************************************************************)
EXTENDS Integers, Sequences, FiniteSets, SequencesExt

CONSTANTS Clients,
          AlwaysLogin,    \* clients with CanAlwaysLogin, gamemasters
          MaxPlayers,     \* ConfigManager::MAX_PLAYERS
          MaxTime, TimeStep, \* bounds of the clock
          Wrap            \* what std::size_t counts up to

WaitListConstants == /\ AlwaysLogin \subseteq Clients
                     /\ {MaxPlayers, MaxTime, TimeStep, Wrap} \subseteq Nat
                     /\ MaxTime + 200 < Wrap

ASSUME WaitListAssumption == WaitListConstants

VARIABLES now,              \* OTSYS_TIME
          playersOnline,    \* the clients in the game
          premium,          \* the clients that are premium by now
          priorityWaitList, \* sequences of Wait
          waitList,
          miscounted,       \* size() of the lists is no longer right
          cleaned           \* when the lists were last cleaned up

lists == <<priorityWaitList, waitList, miscounted, cleaned>>
waitListVars == <<now, playersOnline, premium, priorityWaitList, waitList, miscounted, cleaned>>

Wait == [timeout: Nat, client: Clients]

WaitListTypeOK == /\ now \in 0 .. MaxTime /\ cleaned \in 0 .. MaxTime
                  /\ playersOnline \subseteq Clients
                  /\ premium \subseteq Clients
                  /\ priorityWaitList \in Seq(Wait)
                  /\ waitList \in Seq(Wait)
                  /\ miscounted \in BOOLEAN

WaitListInit == /\ now = 0 /\ cleaned = 0
                /\ playersOnline = {}
                /\ premium \in SUBSET (Clients \ AlwaysLogin)
                /\ priorityWaitList = <<>> /\ waitList = <<>>
                /\ miscounted = FALSE

-----------------------------------------------------------------------------
(* WaitingList::getTime: when to come back.                                *)
GetTime(slot) == CASE slot < 5 -> 5
                   [] slot \in 5 .. 9 -> 10
                   [] slot \in 10 .. 19 -> 20
                   [] slot \in 20 .. 49 -> 60
                   [] OTHER -> 120

GetTimeout(slot) == GetTime(slot) + 15

(* cleanupList subtracts the time from an unsigned number, and the result  *)
(* is at most 0 only when it is 0.                                         *)
TimedOut(w) == (w.timeout - now) % Wrap <= 0

(* cleanupList: what is left of a list, in the old order.                  *)
Kept(list) ==
    LET kept     == {i \in 1 .. Len(list) : ~TimedOut(list[i])}
        Place(i) == Cardinality({j \in kept : j <= i})
    IN  [n \in 1 .. Cardinality(kept) |-> list[CHOOSE i \in kept : Place(i) = n]]

(* The clients that wait, those in front first.                            *)
Queue(first, second) == [i \in 1 .. Len(first) + Len(second) |-> (first \o second)[i].client]

Waiting == Queue(priorityWaitList, waitList)

(* Variant: places are counted from 0.                                     *)
MayEnterEarly(slot) == Cardinality(playersOnline) + (slot - 1) <= MaxPlayers

MayEnter(slot) == Cardinality(playersOnline) + slot <= MaxPlayers

-----------------------------------------------------------------------------
(* The rest of ProtocolGame::login places the player, or refuses for some  *)
(* other reason.                                                           *)
LetIn(c) == playersOnline' \in {playersOnline, playersOnline \union {c}}

(* Without a limit, or nobody waits and there is room.                     *)
HasRoom == \/ MaxPlayers = 0
           \/ Waiting = <<>> /\ Cardinality(playersOnline) < MaxPlayers

LoginAtOnce(c) ==
    /\ c \in AlwaysLogin \/ HasRoom
    /\ LetIn(c)
    /\ UNCHANGED <<now, premium, lists>>

(* Whichever list has the client, it is erased through waitList.  That is  *)
(* undefined for an element of the other list; libstdc++ unlinks it from   *)
(* where it is and takes it off the wrong count.                           *)
LoginFromList(c, first, second, slot) ==
    /\ MayEnter(slot)
    /\ \/ /\ slot <= Len(first)
          /\ priorityWaitList' = RemoveAt(first, slot)
          /\ waitList' = second
          /\ miscounted' = TRUE
       \/ /\ slot > Len(first)
          /\ priorityWaitList' = first
          /\ waitList' = RemoveAt(second, slot - Len(first))
          /\ UNCHANGED miscounted
    /\ LetIn(c)

(* "let them wait a bit longer"                                            *)
WaitLonger(first, second, slot) ==
    LET w == [timeout |-> now + GetTimeout(slot), client |-> Queue(first, second)[slot]]
    IN  /\ ~MayEnter(slot)
        /\ \/ /\ slot <= Len(first)
              /\ priorityWaitList' = [first EXCEPT ![slot] = w]
              /\ waitList' = second
           \/ /\ slot > Len(first)
              /\ priorityWaitList' = first
              /\ waitList' = [second EXCEPT ![slot - Len(first)] = w]
        /\ UNCHANGED <<playersOnline, miscounted>>

(* A new client goes to the end of the list for clients of its kind.  The  *)
(* place that its timeout depends on is computed from size().              *)
StartWaiting(c, first, second) ==
    LET ahead == IF c \in premium THEN Len(first) ELSE Len(first) + Len(second)
    IN  /\ \E slot \in IF miscounted THEN {1, 5, 10, 20, 50} ELSE {ahead + 1} :
             LET w == [timeout |-> now + GetTimeout(slot), client |-> c]
             IN  \/ /\ c \in premium
                    /\ priorityWaitList' = Append(first, w)
                    /\ waitList' = second
                 \/ /\ c \notin premium
                    /\ priorityWaitList' = first
                    /\ waitList' = Append(second, w)
        /\ UNCHANGED <<playersOnline, miscounted>>

(* Variant: a client is looked for only in the list of its kind.           *)
FindClientOfKind(c, first, second) ==
    {i \in 1 .. Len(Queue(first, second)) :
        Queue(first, second)[i] = c /\ (c \in premium <=> i <= Len(first))}

FindClient(c, first, second) ==
    {i \in 1 .. Len(Queue(first, second)) : Queue(first, second)[i] = c}

(* WaitingList::clientLogin when the server is full or somebody waits.     *)
LoginLater(c) ==
    LET first  == Kept(priorityWaitList)
        second == Kept(waitList)
        slots  == FindClient(c, first, second)
    IN  /\ c \notin AlwaysLogin /\ ~HasRoom
        /\ \/ \E slot \in slots : LoginFromList(c, first, second, slot)
           \/ \E slot \in slots : WaitLonger(first, second, slot)
           \/ slots = {} /\ StartWaiting(c, first, second)
        /\ cleaned' = now
        /\ UNCHANGED <<now, premium>>

ClientLogin(c) == /\ c \notin playersOnline
                  /\ LoginAtOnce(c) \/ LoginLater(c)

LeaveGame(c) == /\ c \in playersOnline
                /\ playersOnline' = playersOnline \ {c}
                /\ UNCHANGED <<now, premium, lists>>

(* The premium time of an account is bought or ends.                       *)
PremiumChanges(c) ==
    /\ c \notin AlwaysLogin
    /\ premium' = IF c \in premium THEN premium \ {c} ELSE premium \union {c}
    /\ UNCHANGED <<now, playersOnline, lists>>

TimePasses == /\ now + TimeStep <= MaxTime
              /\ now' = now + TimeStep
              /\ UNCHANGED <<playersOnline, premium, lists>>

WaitListNext == \/ \E c \in Clients : ClientLogin(c) \/ LeaveGame(c) \/ PremiumChanges(c)
                \/ TimePasses

WaitListSpec == WaitListInit /\ [][WaitListNext]_waitListVars

-----------------------------------------------------------------------------
(* Nobody waits at two places, and a player who is in the game does not    *)
(* wait, also when the client's account becomes premium in between.        *)
WaitsOnce ==
    /\ IsInjective(Waiting)
    /\ \A i \in 1 .. Len(Waiting) : Waiting[i] \notin playersOnline \ AlwaysLogin

(* A place that is given away leaves enough places for all who were ahead  *)
(* of the client that got it: whoever of them still waits comes before     *)
(* everybody else, and in the old order.  Who comes back in time is not    *)
(* overtaken, however the logins interleave.                               *)
WasAhead(c, k, i) == Waiting[k] = Waiting'[i] /\ \A j \in 1 .. k - 1 : Waiting[j] # c

AheadKept(c) ==
    LET ahead == {i \in 1 .. Len(Waiting') : \E k \in 1 .. Len(Waiting) : WasAhead(c, k, i)}
    IN  /\ MaxPlayers = 0 \/ Cardinality(playersOnline') + Cardinality(ahead) <= MaxPlayers
        /\ \A i \in ahead : 1 .. i \subseteq ahead
        /\ \A i, j \in ahead, k, l \in 1 .. Len(Waiting) :
              WasAhead(c, k, i) /\ WasAhead(c, l, j) /\ i < j => k < l

PlacesAheadKept ==
    [][\A c \in playersOnline' \ (playersOnline \union AlwaysLogin) : AheadKept(c)]_waitListVars

(* "timeout is set to 15 seconds longer than expected retry attempt": a    *)
(* client that did not come back in that time has lost its place once the  *)
(* lists are cleaned up.                                                   *)
AbandonedPlacesFreed ==
    \A w \in Range(priorityWaitList) \union Range(waitList) : w.timeout > cleaned
=============================================================================
