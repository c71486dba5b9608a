# TLA+ models of the game server

The repository is a Tibia-style MMORPG server (an OTServBR/TFS fork): about
100,000 lines of C++ under `src/src`, and scripts, maps and other data. This
directory models the part of the C++ code where ordering, concurrency and
long-lived state make testing hard, checks it with TLC on small instances and
proves the central properties with TLAPS for every size.

## 1. The system

Four kinds of threads run in one process.

| thread | code | what it does |
|---|---|---|
| main | `otserv.cpp`, `server/server.cpp`, `server/signals.cpp`, `server/network` | starts the others, runs the network and signal handlers in `io_service.run()`, joins the others at the end |
| dispatcher | `game/scheduling/tasks.cpp` | runs all game logic, one `Task` after another |
| scheduler | `game/scheduling/scheduler.cpp` | keeps timed events and hands them to the dispatcher |
| database | `database/databasetasks.cpp` | runs asynchronous queries, posts their callbacks to the dispatcher |

Because game logic runs on one thread only, the game's own components are
sequential state machines whose *handlers* interleave: a trade, a party or a
market offer lives over many handlers, with anything in between.

### Inventory

| component | state | operations | hard behaviour | what makes it correct |
|---|---|---|---|---|
| Dispatcher | `threadState`, `taskList` | `addTask`, `threadMain`, `stop`, `shutdown` | signal only when empty, after unlock; state read outside the lock; terminating task | no lost wakeup, each task once, in order, nothing stranded |
| Scheduler | priority queue, `eventIds`, `lastEventId` | `addEvent`, `stopEvent`, `threadMain`, `shutdown` | `wait_until` with a stale deadline, stop against hand-over, id overflow, read after unlock | never early, never oversleeps, stopped events stay stopped |
| DatabaseTasks | `tasks` | `addTask`, `threadMain`, `flush`, `shutdown` | two threads empty one list | each query once; only a query in flight is overtaken |
| Runtime | `gameState`, the state of all threads | signals, `setGameState`, `Game::shutdown`, joins | order of shutdown, repeated requests, threads asleep | nothing accepted is lost, the process ends |
| Trade | two `Player`s, `Game::tradeItems`, reference counts | request, accept, close, walk, move, logout | half-closed trades, items changed between offer and acceptance | partners agree, reservations exact, offers frozen and in reach |
| Connection, ConnectionManager, ServicePort | socket, timers, `messageQueue`, `connectionState`, the bound protocol | accept, read, write and timer handlers, send, close, closeAll | handlers after close, two threads on one queue, calls that throw, peers that do not read | the queue is never read when empty, every close releases the protocol, a closed connection ends |
| ProtocolGame session, OutputMessagePool | `player`, `acceptPackets`, `Player::client`, reference counts, the autosend list | login, take over, resume, connect, logout, kick, release, packets | release and take-over are posted and race; the network thread reads `player` | a player and its protocol name each other, references exact, ghosts leave |
| Party | leader, members, invitations, shared experience | invite, join, leave, pass leadership, disband, logout | raw pointers to an object that deletes itself; cached eligibility | no dangling pointer, lists symmetric, experience shared only when earned |
| Waiting list | two lists with timeouts | `clientLogin` | clients come back in any order or never, become premium | one place each, no overtaking |
| Decay | `decayMap`, one scheduler event, attributes of items | `startDecay`, `stopDecay`, `checkDecay`, transform, remove, move | three copies of one fact, nested calls, stale events | an item is booked where its attribute says, the event comes in time |
| Walking | `eventWalk`, `listWalkDir`, the walk action | steps, autowalk, far uses, following, speed, teleport, death | events already handed over, an id that stays set | a player can always walk again, an action can be replaced |
| Market, Spawn, Ban | offers in the database; spawned monsters; counters | | see `PROJECT.json` | not modelled |
| Everything else | game data | | geometry, numbers, scripts, I/O | see `PROJECT.json`, with the reason it is left out |

Interactions: the scheduler and the database thread call
`g_dispatcher.addTask`; tasks call `addEvent`, `stopEvent`,
`g_databaseTasks.addTask` and `flush`; signal handlers and packets become tasks;
`Game::setGameState` and `Game::shutdown`, running as tasks, stop all of them.
`Connection::close` posts `Protocol::release`; `ProtocolGame::login` asks the
waiting list, places the player and enters the protocol into the autosend list;
logout closes trades, leaves the party and clears invitations.
`PROJECT.json` lists the hazards with their lines.

## 2. Modules

| module | models | built on |
|---|---|---|
| `TaskExecutor` | what the game relies on when it posts a task (abstract) | |
| `Dispatcher` | `tasks.cpp`, `thread_holder_base.h` | implements `TaskExecutor` |
| `Scheduler` | `scheduler.cpp` | |
| `DatabaseTasks` | `databasetasks.cpp` | |
| `ServerRuntime` | `main`, signals, `setGameState(SHUTDOWN)`, `Game::shutdown`, joins | instances of the three |
| `Trade` | trade handlers of `game.cpp`, the hooks in `player.cpp` | |
| `ConnectionLife` | what protocols rely on: bound once, released by every close, gone after it (abstract) | |
| `Connection` | `connection.cpp`, `ServicePort::onAccept` | implements `ConnectionLife` |
| `Session` | `protocolgame.cpp` (login to release), `outputmessage.cpp`, the player's life in `game.cpp` and `player.cpp` | |
| `Party` | `party.cpp`, its handlers in `game.cpp`, the hooks in `player.cpp` | |
| `WaitList` | `waitlist.cpp` | |
| `Decay` | `decay.cpp`, decay in `game.cpp`, `item.cpp`, `container.cpp` | |
| `Walk` | walking in `creature.cpp`, `player.cpp`, `game.cpp`, `map.cpp` | |
| `DispatcherProofs`, `SchedulerProofs`, `DatabaseProofs`, `ConnectionProofs`, `SessionProofs` | theorems | extend the module they are about |
| `PlayerProofs` | theorems about the waiting list, walking and trades | extends `WaitList`, `Walk` and `Trade` |
| `WorldProofs` | theorems about parties and decay | extends `Party` and `Decay` |
| `ServerProofs` | theorems about the composed server | extends `ServerRuntime`, uses instances of the proofs of its three components |
| `MC*` | instances for TLC | |

How code became actions:

* **Threads.** A critical section is one action: everything in it is guarded by
  its lock, and it reads `threadState` at most once. Whatever happens outside
  the lock is an action of its own: the test of `threadState` at the top of the
  loop, `notify_one` after unlocking, `return task->getEventId()`. A waiting
  thread is a value of `pc`; `notify_one` moves it on only if it *is* waiting,
  and it may wake up spuriously.
* **wait_until** returns `timeout` exactly if the deadline has passed when it
  returns, whatever woke it (`WokenUp`), which is what the standard library
  does; then the lock is taken again in a later step.
* **Time** is a counter, `MaxTime` its bound. An event may be added when it is
  already due, because its time is fixed by `createSchedulerTask` and the walk
  actions of a player are added later. The clock never goes back, although a
  `system_clock` may be set back by an administrator.
* **Task and event objects** have a `fate`. A deleted object is one more fate,
  so that reading or deleting it again is visible. Reading a deleted event in
  `addEvent` yields any id (`ReturnId`).
* **Relaxed atomics.** `threadState` is read and written with
  `memory_order_relaxed`; the models read its latest value. An older value
  could be read only before the reader's lock is handed over from the writer,
  which in the models is the order in which the read comes first.
* **Ghost state.** `submitted`, `executed`, `posted`, `owed` (DatabaseTasks),
  `known`, `stopped`, `wrapped` (Scheduler), `refs` (Trade, where it is the
  part of an item's reference counter that trades hold), `miscounted` and
  `cleaned` (WaitList), `undefined` (Decay) record what the properties speak of.
* **Trade** runs on the dispatcher thread: a handler is one action.
  `CloseTrades(S)` is `internalCloseTrade` for every player of `S`; `Disturbed`
  collects the players whose hooks (`onRemoveTileItem`,
  `onRemoveInventoryItem`, `onRemoveContainerItem`, `onAddContainerItem`,
  `checkTradeState`) close their trade when an item moves. The hooks go to
  players near the item only; a player who offers the item is near it, which is
  the property `OffersInReach`. The containers around an item, which the code
  finds by following `getParent`, are the least set that is closed under taking
  the parent (`Enclosing`): no recursion, so that the proofs can speak of it. The state `TRADE_TRANSFER` exists only inside
  `playerAcceptTrade`; in it `internalCloseTrade` returns, so the two traders
  do not react to their own exchange (`Exchange`). Positions are tiles on a
  line. Room, weight, line of sight and the answers of Lua events are free choices:
  they can only make a handler return early or an exchange fail. When both have
  accepted and one of them offers nothing, an `onTradeAccept` event is handed a
  null item (`events.cpp:1012`), on which `setItemMetatable` calls a method
  (`luascript.cpp:715`): the server does not survive it, so the model has no step
  there. `data/events/events.xml:29` registers the event. The run has none
  (`OnTradeAccept`), so that the trade goes on to `internalAddItem`, which refuses
  the null item (`AcceptWithoutOffer`); the theorems hold either way.

* **Connection** is one record `c`; a handler runs under `connectionLock`, so it
  is one action, and an operator such as `Close(d, force)` takes a connection and
  returns it changed, so that a handler can call several. What asio owes is state:
  a read, a write and two timers that are pending, completed (with or without an
  error) or cancelled. Any call that starts an operation may throw. The object is
  destroyed when neither the manager nor an operation holds it.
* **Session** has one character, several connections and the `Player` objects
  they create. Tasks wait in a sequence in the order they were posted; the
  one-second delay of a take-over and the autosend delay are tasks that are put
  in later. `parsePacket` runs on the network thread under the connection's lock
  and holds it (`parsing`) between reading `player` twice. A reference count is
  checked against the pointers that exist (`RefsExact`), and an object whose count
  reaches 0 is deleted. `onThink` lets a player go who missed its pings, if
  `canLogout` and the logout script agree (`LostOnPing`), or whose idle time is up
  (`IdleForLong`). The idle time of an access player, on a tile without logout and
  in exercise training stands still; `Exempt` are the objects for which it is never
  up.
* **Party**: every operation is one action on sets and sequences of players;
  `Disband` and `LeaveParty` take the lists as the caller has changed them,
  because the code calls them in the middle of other operations. Levels and
  positions are not kept: whether they allow sharing is a free choice at every
  refresh (`EnabledAfter`), and `MemberChanges` is a change of them with its
  refresh. The scripts `onLeave` and `onDisband` return true, as those in
  `data/events/scripts/party.lua` do.
* **WaitList** keeps seconds, because the code computes with them. A client found
  in the priority list is erased through the other list, which is undefined; the
  model does what the usual library does (the element goes, the sizes are wrong
  from then on, `miscounted`) and lets the size be anything afterwards.
* **Decay**: a handler that decays an item calls itself in depth (a container
  decays, its contents stop, the item that replaces it starts). The calls that are
  left form the sequence `todo`; only its head acts, and nothing else happens
  before it is empty, since all of it is one task. `checkDecay`'s own variables
  (`tempItems`, `item`, the iterator `it`) are variables of the model, because its
  loop goes on whenever `todo` is empty; another handler begins when the loop has
  ended too (`Idle`). The items of one entry are taken in any order. `Erases` notes
  that the entry behind `it` is gone; `CheckEnd` then reads any time
  (`undefined`). The loop over a container's contents walks the live list: an item
  that decays away in it makes the loop pass over the next one, or end
  (`Continues`); with no next one the iterator passes the end, which is undefined,
  and only the loop that ends there is modelled. Scripts set the decay state of any
  item and positive durations of items in the world (`holy_water.lua:115`,
  `wild_growth.lua:6`, `magic_wall.lua:6`, `begin_task.lua:52`). Stackable items,
  and scripts that remove attributes, are left out.
* **Walk** is one player. Events are records with a number, a time and what they
  do; `stopEvent` removes one that has not been handed over, and an event that has
  may run at any later time before the tasks posted after it. Directions are
  abstracted to what `onCreatureMove` distinguishes (straight, diagonal, floor,
  blocked). A search for a path puts any number of directions in the list, also
  for a player who is rooted and then does not set out. A new event gets a number no other has (`NewId`); which one does not
  matter, and there are enough (`MaxEvents`). The temple is not the place where the
  player dies.

Definitions introduced as *variants* are plausible mistakes (a dropped test, a
missing reset). They are used by no specification. For every property
`PROJECT.json` names a variant that violates it when it takes the place of the
code's behaviour, which shows that the property depends on that code.

## 3. Runs

| run | configuration | states | result |
|---|---|---|---|
| `dispatcher` | 2 threads and the dispatcher's own tasks, 3 tasks, 1 can expire | 3.6 k | holds |
| `scheduler` | 2 callers, 2 events, time 0..2, `lastEventId` anywhere in 0..2 at the start | 613 k | holds |
| `database` | 2 callers, 3 queries, 1 save and the shutdown | 44 k | holds |
| `runtime` | two signals, event, query with callback | 475 k | holds |
| `runtime_hang` | signal, event, query | 86 k | violated |
| `trade` | 3 players, bag and gem, tiles 0, 1, 3 | 51 k | holds |
| `connection` | 3 calls from the dispatcher, 2 expired timers | 70 k | holds |
| `session` | 2 connections of one character, 2 `Player` objects, one of them never idle, both settings of `REPLACE_KICK_ON_LOGIN` | 569 k | holds |
| `party` | 4 players, one exempt from fighting, 2 party objects | 88 k | holds |
| `waitlist` | 2 places, 3 clients and a gamemaster, 20 s in steps of 5 s | 743 k | holds |
| `decay` | a decaying container, an item inside, an object for replacements, time 0..3, scripts | 8.5 M | holds |
| `walk` | walks of 1 and 2 steps, 2 actions, stale events of each kind | 265 k | holds |

Bounds. Two posting threads are enough for a notification that is owed by one
thread to be overtaken by another's; three tasks let one run, one wait and one
arrive. Two events can be ordered either way around the scheduler's deadline, and
a counter that starts anywhere overflows with the first or the second of them.
Three queries let the database thread and `flush` hold one each while a third is
queued. Three players let a third interfere with a trade of two. The tiles 0, 1, 3
have distances 1 (item and partner in reach), 2 (partner only) and 3 (neither).
Three calls let two messages queue up behind a write and a close follow them. Two
connections are the two sides of a take-over, and the new one is itself taken over
by the first when it comes back. Two party objects let a leader or a member of one
be invited by the other. Three clients for two places let one be overtaken. A
container, an item in it and a spare object give every nesting of decay calls
short of containers in containers; three units of time let an item become due
before, with and after another.

What the runs show:

* **Dispatcher.** `NoLostWakeup`, `OneOwner`, `NothingStranded`, and the whole
  implements `TaskExecutor`, fairness included (`ImplementsExecutor`): accepted
  tasks end, in order, and a shutdown ends the thread.
* **Scheduler.** `NeverEarly`: popping without another look at the clock is
  right, because only an event due *before* the awaited one can have taken its
  place. `NoOversleep`, `StoppedNeverRuns`, `IdReadFromLiveTask`,
  `WantedEventsRun`. After an overflow ids may be shared, so stopping is stated
  for a counter that has not wrapped; `NoZeroId` holds nevertheless, and so do
  `NeverEarly` and `NoOversleep`, which are proved for every width of the counter.
* **DatabaseTasks.** `ExactlyOnce`, `OvertakenOnlyInFlight`,
  `FlushLeavesOnlyInFlight`: saving the game does *not* wait for the query the
  database thread is executing, so that one, and only that one, may be
  overtaken. `AcceptedQueriesRun`.
* **Runtime.** `ComponentsHold`: the composed server stays within what the
  components' invariants assume of their environment. `CleanExit`,
  `SignalEndsDispatcher`, also when a second signal comes.
* **Trade.** `PartnersAgree`, `OffersReserved`, `NoNestedOffers`,
  `OffersInReach`, `OfferFrozen`. `AcceptedOfferStands`: two offers change hands
  only between partners of whom one has accepted before and the other accepts now,
  and an acceptance binds the partner and both offers. It does not say that the
  player has seen what it accepts: `playerAcceptTrade` lets the first offerer accept
  before there is a counter-offer, and the first one made then counts as accepted.
* **Connection.** `WriteQueueSound`: whatever closes the connection, the queue has
  a message in front as long as a write is under way. `ClosedConnectionsEnd`: a
  closed connection with messages left is destroyed in the end, because a write is
  always guarded by a timer. `ImplementsLife`: it implements `ConnectionLife`. To
  the abstract connection an object whose release was posted is closed, even where
  a handler puts `connectionState` back to open after the close.
* **Session.** `SessionsAgree`: a player's client and the protocol's player name
  each other, through take-overs, deaths and late releases. `RefsExact`,
  `PlayerStableWhileParsing` (the network thread never sees `player` change under
  it), `AutosendSound` (a registered protocol has its release still to come, and
  while protocols are registered a send event is pending; there may be several
  chains of send events, which neither the code nor the property limits),
  `GhostsLeave` (a player without a connection whose idle time can run out leaves
  the game or gets another; nothing is promised for the `Exempt`).
* **Party.** `MembershipAgrees`, `InvitationsAgree`: no pointer to a deleted party
  is left, and both sides know of each membership and invitation.
  `SharedExpEarned`: while experience is shared, all who have a share have fought
  since they joined and were last idle. A change of level or position that forgot
  to refresh the cached permission would not show, because what they allow is a
  free choice in the model.
* **WaitList.** `WaitsOnce`, `PlacesAheadKept`: who comes back in time is not
  overtaken, and those ahead keep their order. That the sizes of the two lists
  become wrong (`miscounted`) violates neither: only waiting times and
  timeouts depend on them.
* **Decay.** `DecayBooked`: a decaying item is in the map, once, under the time
  its attribute names, and nothing else is. `WakeInTime`: an event is pending that
  comes no later than the earliest item.
* **Walk.** `NeverStuck`: `eventWalk` is set only while its event is still to run.
  `ActionReplaceable`: a delayed action that is still to run is known to the
  player by its number, so that a later one replaces it.

### Findings

* `runtime_hang`: a server that was told to shut down may hang. The scheduler
  and the database thread test `threadState` before they lock. If `shutdown`
  sets the state and sends its only `notify_one` between that test and the
  wait, the thread sleeps forever and `join` in `main` does not return. The
  dispatcher is not affected, because its state is changed by a task it runs
  itself (`SignalEndsDispatcher`).

Further disagreements between the code and its comments came up while modelling.
Each is stated as a definition that TLC refutes with the configuration named.

| definition, configuration | the comment | what the code does |
|---|---|---|
| `NoLeakedPlayer` in `Session`, `MCSessionLeak.cfg` | `protocolgame.cpp:389` "ProtocolGame::release() has been called at this point and the Connection object no longer exists, so we return to prevent leakage of the Player" | `release` may have run while a pending operation still keeps the `Connection` alive; `connect` then attaches the player to a protocol nobody will release, and only a ping timeout or the idle kick removes it (`GhostsLeave`), neither of which need come for an access player |
| `IteratorsStayValid` in `Decay`, `MCDecayIterator.cfg` | `decay.cpp:106` "Iterating here is unsafe so let's copy our items into temporary vector" | the iterator kept for line 124 may point to an entry that decaying a container has erased |
| `AbandonedPlacesFreed` in `WaitList`, `MCWaitListAbandoned.cfg` | `waitlist.cpp:59` "timeout is set to 15 seconds longer than expected retry attempt" | `(it->timeout - time) <= 0` is unsigned and true only when both are equal, so places are hardly ever freed |
| `HealingCounts` in `Party`, `MCPartyHealers.cfg` | `party.cpp:398` "check if the player has healed/attacked anything recently" | `player.cpp:5042` tests `isPartner(tmpPlayer)` while `tmpPlayer` is still null: healing a partner never counts |
| `FloorChangeCosts` in `Walk`, `MCWalkFloor.cfg` | `creature.cpp:460` "floor change extra cost" | `map.cpp:259` makes every move to another floor a teleport, for which the branch is skipped |

Also, events may still be waiting where `scheduler.cpp:124` says "this list should
already be empty"; they are deleted, so nothing is lost but the comment.

### Fairness

Weak fairness of each thread's own steps (an operating system runs a thread
that can run, a task's code and a query end), of the rest of a call that has
begun (`Notify`, `ReturnId`), and of the clock. Nothing is assumed of spurious
wakeups, of callers (nobody has to post, stop or save), of signals. In
`ServerRuntime` a task that handles a signal does call `setGameState`, since
that is all its code does. In `Connection`, operations of asio complete, fail or
time out, a handler that is due runs, and a connection nobody holds is destroyed;
the dispatcher need not send anything, and a peer need not read. In `Session`, the
dispatcher runs its tasks, `checkCreatures` comes round, and a player who is not
`Exempt` and has no connection is in the end idle for long enough to be kicked:
only commands of a client reset the idle time, so a ghost's only grows. Nothing is
assumed of missed pings, which `canLogout` or a script may refuse to act on for
ever, nor of the `Exempt`.
`Trade`, `Party`, `WaitList`, `Decay` and `Walk` state no fairness: players may
stop acting.

Deadlock is checked except in `connection`, `session` and `decay`, where everything
may be over: the connection destroyed, both protocols released, nothing left to
decay within the time of the instance. A terminated thread, and a thread asleep
after the end, are explicit stuttering actions (`Terminated`, `Finished`,
`Exited`); in `ServerRuntime` the hang is not a deadlock of the model because a
spurious wakeup may still end it, but no fairness makes it come.

## 4. Proofs

For every number of threads, tasks, events, players, items and tiles, and every
width of the id counter:

* `DispatcherProofs`: `Inv` is inductive. `NoLostWakeup`, `OneOwner` and
  `NothingStranded` are not inductive alone; `ShutdownProtocol` adds how far
  the shutdown has got: nobody is stopped before `Game::shutdown` was posted,
  the terminating task is pushed only to a dispatcher that refuses tasks, and
  once it is running the list is empty. Three lemmas say what pushing and
  popping do to positions. From `Inv` and one case per action follows that
  every step is a step of `TaskExecutor` or a stutter
  (`ImplementsTaskExecutor`).
* `SchedulerProofs`: `Inv` adds `DueTop` (while the thread waits until a
  deadline some event is due by then), `Ownership` (where an event is),
  `UniqueIds` (until the counter wraps, an id means one event) and
  `AddingEvent` (the dispatcher thread inside `addEvent`). Theorems
  `EventsNeverEarly`, `ThreadNeverOversleeps`, `StoppedEventsStay`,
  `ReturnedIdIsReal`.
  `IdsNeverZero` rests on `Inv` for the width of the counter: the id that
  `addEvent` gives after an overflow is 1.
* `PlayerProofs`, trades: `TradeTypeOK`, `PartnersAgree` and `OffersReserved` are together
  inductive (`TradeInv`): that a reservation can be released needs that partners name
  each other, and that an offer can be made needs that whoever offers nothing has
  no entry. `CloseTradesInv` covers all actions that end trades. Where the items
  are is a second invariant, `Placed`: `TradeInv`, no container inside itself
  (`NoCycle`), `NoNestedOffers` and `OffersInReach`. `NoCycle` is needed because
  only then has an item exactly one place in the end (`TopParent`); it is kept
  because `MoveItem` and `Exchange` refuse a destination inside what is moved
  (`MoveKeepsNoCycle`). The lemmas on `Around` (closed, least, transitive, what a
  move of something else leaves alone) take the place of an induction over the
  depth. Then `UndisturbedStands`: an offer whose player is not among those the
  hooks disturb has kept its surroundings and its contents. `OffersNeverNested`,
  `OffersAlwaysInReach`, `OffersAlwaysFrozen`, `AcceptedOfferAlwaysStands` follow
  from it, with a case for the exchange, in which the traders' own hooks are off.
  That only an exchange swaps two offers (`SwapsAgreed`) needs that
  whatever changes hands with a single move comes into the same hands
  (`MovedTogether`).
* `DatabaseProofs`: `ExactlyOnce` does not carry itself. The invariant says that
  the list is a suffix of what was accepted (`QueueIsSuffix`), that the prefix has
  been executed or is in a worker's hands (`PrefixTaken`), that two workers never
  hold the same query (`HandsApart`), that what `flush` owes was accepted, and
  that nothing is queued after the shutdown. Theorems `AlwaysExactlyOnce`,
  `OvertakenAlwaysInFlight`, `FlushAlwaysLeavesOnlyInFlight`,
  `ShutdownLeavesNothing`.
* `ServerProofs`: the invariants of the three components, with `ShutdownPhase`
  (which component `setGameState` and `Game::shutdown` have already stopped, and
  that only the task on the dispatcher stops or flushes) and `JoinPhase` (what
  `main` has waited for). Each step of the runtime is shown to be a step or a
  stutter of each component, so that the components' own lemmas apply. One step is
  not: the flush inside `DatabaseTasks::shutdown` posts callbacks from within
  `Game::shutdown`, when the `Dispatcher` module's own callers post no more; the
  dispatcher refuses them, and `DispatcherMoves` covers it. Theorems
  `ComponentsAlwaysHold`, `ExitAlwaysClean`.
* `ConnectionProofs`: each member function is a lemma on the object before and
  after it, each handler a composition of them. The invariant adds to
  `WriteQueueSound` what the refinement needs: an object nobody has accepted is
  untouched, a service that sends first is bound early, a closed connection with a
  protocol has posted its release, an open one is reading (which keeps it alive,
  so it is not destroyed before it is closed), a destroyed one has nothing under
  way. Theorems `WriteQueueAlwaysSound` and `ConnectionImplementsLife`, which is
  the whole refinement, since `ConnectionLife` states no fairness.
* `SessionProofs`: the properties rest on the order of the queue of tasks
  (`QueueOrdered`): a protocol logs in once, only a closed connection has its
  release posted, and if it closes before the login runs, the release comes after
  it. With it, `Fresh` (a protocol that has not logged in has no player and is in
  no list), `Accepting` (packets only with a player; the connection that is being
  parsed is open, because `close` has to wait for its lock), `BufferedOnce` and
  `PoolWakes` are inductive together with `RefsExact`. Theorems
  `SessionsAlwaysAgree`, `RefsAlwaysExact`, `PlayerAlwaysStable`,
  `AutosendAlwaysSound`.
* `WorldProofs`, parties: `MembershipAgrees`, `InvitationsAgree` and `SharedExpEarned` are
  inductive together. They do not hold in the middle of a handler; `ListsFit` and
  `LeaveFits` say what holds of the lists when `disband` or `leaveParty` is called.
  Theorems `MembershipAlwaysAgrees`, `InvitationsAlwaysAgree`,
  `SharedExpAlwaysEarned`.
* `PlayerProofs`, walking: `NeverStuck` and `ActionReplaceable` stop events by
  their numbers, so `WalkInv` says that no number is in use twice and that the
  action's is never the walk's (`Replaceable`), that at most `MaxEvents` are in use
  (so `addEvent` finds a free one, `Uses`), and that the event `eventWalk` names is
  there unless the player is dying (`Chained`). Each member function is a lemma on
  a player with its events; a step of the walk, an autowalk and a far use are
  compositions of them. In the middle of one, `Chained` does not hold
  (`onCreatureWalk` clears `eventWalk` and then sets it again), so the lemmas carry
  it apart from `Sound`. Theorems `WalkNeverStuck`, `WalkActionReplaceable`.
* `PlayerProofs`, the waiting list: the two lists are one queue of clients
  (`Waiting`). Cleaning up keeps some of its places in order (`Thins`, from
  `PlacesInOrder`: counting the kept places up to each gives 1, 2, ...), letting a
  client in takes one out (`Leaves`), a new client is put in at the end of its list
  (`Joins`); each keeps clients apart and away from those online (`Once`). The
  invariant adds that nobody waits without a limit. Theorems `WaitListWaitsOnce`,
  and `WaitListPlacesAheadKept`, an action property: `LeavesAhead` turns the slot
  `MayEnter` compares into the number of clients who were ahead.
* `WorldProofs`, decay: between two calls of a handler the records of an item
  disagree. `DecayInv` says by how much: an item in the map decays, or cannot, or
  the call that starts or stops it is the next one (`EntryFits`, `AtHead`); one in
  `checkDecay`'s copy cannot be decayed from elsewhere before its turn
  (`CopyFits`); its references are one each for the entry, the copy and the loop
  (`ItemFits`); an item that waits for its start has a duration. `FirstFits` says
  that `internalDecayItem` is only ever the next call, for a type that decays, so
  that `DecayTo` is a type there. For the event, `Covered`: every entry has an
  event in time, or `checkDecay` holds an iterator to one no later and will
  schedule it. The lemmas on `Has` say which calls a sequence of calls holds, which
  is all the invariant asks of `todo`, so no induction over its depth is needed;
  nor does the order of `SetToSeq` matter. Theorems `DecayIsBooked`,
  `DecayWakesInTime`.

TLC finds each of these invariants true on the instance of its run as well. The
assumptions are the `ASSUME`s of the modules: distinct names, the dispatcher's
thread is (not) one of the callers, sets of numbers are numbers, no container is
loaded inside itself. TLC evaluates them in the runs.

`PlayerProofs` and `WorldProofs` extend several models, which do not share state:
each theorem is about the specification of one of them (`WalkSpec`, `TradeSpec`,
...), and nothing is said of them together. That is why in these five
models the initial states, the steps and the types carry the model's name
(`WalkInit`, `WalkNext`, `walkVars`, `WalkTypeOK`).

Every invariant that a run checks is proved. Only model-checked:

* all liveness (`WantedEventsRun`, `AcceptedQueriesRun`, `SignalEndsDispatcher`,
  `ClosedConnectionsEnd`, `GhostsLeave`) and the fairness part of
  `ImplementsExecutor`: liveness and ENABLED are out of the prover's reach;
* the definitions that do not hold (section 3, Findings).

## 5. Not modelled

The models cover a small part of the C++ lines, because most of those lines are of
a kind a state machine says nothing about:

* `luascript.cpp` (20,000 lines) passes arguments between Lua and C++, one function
  after the other; scripts appear in the models as free choices.
* Most of `protocolgame.cpp` reads and writes the fields of packets.
* Combat, conditions, spells, weapons and monsters compute with numbers and random
  choices that scripts and data tune; path finding and spectators are geometry.
* Loaders of maps, items and players are straight-line input; what happens over
  time, the order of queries, is in `DatabaseTasks`.
* Market: offers are SQL statements around changes of balances. Neither the code nor
  a document says what holds when one of several statements fails.

Within the parts that are modelled: the start of the server (`mainLoader`, the
branch without services), SIGHUP and SIGUSR1; reopening a port; item updates in
place, stacks and house trades in `Trade`; stackable items in `Decay`, whose clones
carry a decay state nobody has booked (`game.cpp:1733`); monsters in `Walk`, and a
player revived where it died, for whom `internalTeleport` returns early
(`game.cpp:2308`) and leaves `eventWalk` as it is; a changed `MAX_PLAYERS`.

## 6. Plan

1. Runtime: the start of the server and the branch without services.
2. Raids: a reload while a raid is running, and the chain of its events.
3. Spawn: that a missing monster is watched by a pending check.
4. Beds and houses: both halves of a bed, its sleeper and `bedSleepersMap`.

## 7. Running

    tlc -workers 2 -config MCDispatcher.cfg MCDispatcher
    tlapm DispatcherProofs.tla

`PROJECT.json` lists the runs with their configurations, the source lines of
every definition, the hazards, the findings and the theorems.
