-------------------------------- MODULE Walk --------------------------------
(***************************************************************************)
(* How a player walks: the chain of checkCreatureWalk events that takes    *)
(* one direction after the other, and the action that waits for the player *)
(* to arrive (to use, to move or to rotate something that is far away).    *)
(*                                                                         *)
(* Everything here runs on the dispatcher thread.  The scheduler hands a   *)
(* due event over by pushing it to the front of the dispatcher's list; if  *)
(* it does so while a handler runs, the handler can no longer stop that    *)
(* event, which then runs next.  Each handler below therefore begins by    *)
(* choosing the events that are handed over while it runs.                 *)
(*                                                                         *)
(* Times are relative: the time since the last step, up to the longest     *)
(* delay, and the time until an event is due.  Where the player stands is  *)
(* not modelled: how a step ends is an input.                              *)
(***************************************************************************)
EXTENDS Integers, FiniteSets

CONSTANTS StepDuration,   \* getStepDuration, one speed and one ground
          ActionDelay,    \* ticks of an action after the walk
          MaxDirs,        \* length of a path
          MaxEvents,      \* events of this player that wait or are handed over
          MaxPosted,      \* tasks with playerAutoWalk in the dispatcher's list
          Actions,        \* SchedulerTask objects for actions
          NoAction

WalkConstants == /\ StepDuration \in Nat /\ StepDuration > 1
                 /\ ActionDelay \in Nat /\ MaxDirs \in Nat \ {0}
                 /\ MaxEvents \in Nat /\ MaxPosted \in Nat
                 /\ NoAction \notin Actions /\ "walk" \notin Actions

ASSUME WalkAssumption == WalkConstants

VARIABLES w,        \* the members of the Player
          events,   \* its events with the scheduler or the dispatcher
          posted,   \* lengths of the paths in posted calls of playerAutoWalk
          dying     \* health is 0 and executeDeath is posted

walkVars == <<w, events, posted, dying>>

LongestDelay == 3 * StepDuration
Steps == {"refused", "straight", "diagonal", "floor", "teleport"}
Delays == 0 .. LongestDelay + ActionDelay
Ids == 1 .. MaxEvents + 3

Members == [since: 0 .. LongestDelay,     \* OTSYS_TIME() - lastStep
            lastStepCost: 1 .. 3,
            changedFloor: BOOLEAN,        \* the last step led to another floor
            listWalkDir: 0 .. MaxDirs,    \* its length
            cancelNextWalk: BOOLEAN,
            eventWalk: {0} \union Ids,
            stopped: BOOLEAN,             \* getSpeed() <= 0
            walkTask: Actions \union {NoAction},
            walkTaskEvent: {0} \union Ids]

Events == [id: Ids, ticks: Delays, handed: BOOLEAN, does: {"walk"} \union Actions]

WalkTypeOK ==
    /\ w \in Members
    /\ events \subseteq Events
    /\ posted \in [1 .. MaxDirs -> 0 .. MaxPosted]
    /\ dying \in BOOLEAN

WalkInit == /\ w = [since |-> LongestDelay, lastStepCost |-> 1, changedFloor |-> FALSE,
                    listWalkDir |-> 0, cancelNextWalk |-> FALSE, eventWalk |-> 0,
                    stopped |-> FALSE, walkTask |-> NoAction, walkTaskEvent |-> 0]
            /\ events = {}
            /\ posted = [n \in 1 .. MaxDirs |-> 0]
            /\ dying = FALSE

-----------------------------------------------------------------------------
(* A player with its events, on which the member functions work.           *)

With(p, es) == [p |-> p, es |-> es]

NewId(s) == CHOOSE id \in Ids : /\ \A e \in s.es : e.id # id
                                /\ id \notin {s.p.eventWalk, s.p.walkTaskEvent}

(* Scheduler::addEvent and stopEvent.                                      *)
Scheduled(s, ticks, does) ==
    s.es \union {[id |-> NewId(s), ticks |-> ticks, handed |-> FALSE, does |-> does]}
Unscheduled(es, id) == {e \in es : e.id # id \/ e.handed}

GetWalkDelay(p) == StepDuration * p.lastStepCost - p.since

GetEventStepTicks(p, onlyDelay) ==
    IF GetWalkDelay(p) > 0 THEN GetWalkDelay(p)
    ELSE IF onlyDelay THEN 1
    ELSE StepDuration * p.lastStepCost

StopEventWalk(s) ==
    IF s.p.eventWalk = 0 THEN s
    ELSE With([s.p EXCEPT !.eventWalk = 0], Unscheduled(s.es, s.p.eventWalk))

(* Variant: the action that waits to run is not stopped.                   *)
SetNextWalkActionTaskOnly(s, task) == With([s.p EXCEPT !.walkTask = task], s.es)

SetNextWalkActionTask(s, task) ==
    With([s.p EXCEPT !.walkTask = task, !.walkTaskEvent = 0],
         IF s.p.walkTaskEvent = 0 THEN s.es ELSE Unscheduled(s.es, s.p.walkTaskEvent))

OnWalkAborted(s) == SetNextWalkActionTask(s, NoAction)

OnWalkComplete(s) ==
    IF s.p.walkTask = NoAction THEN s
    ELSE With([s.p EXCEPT !.walkTask = NoAction, !.walkTaskEvent = NewId(s)],
              Scheduled(s, ActionDelay, s.p.walkTask))

(* Map::moveCreature calls every move to another floor a teleport.         *)
Teleports(step) == step \in {"floor", "teleport"}

StepCost(step) == IF Teleports(step) THEN 1
                  ELSE IF step = "floor" THEN 2
                  ELSE IF step = "diagonal" THEN 3
                  ELSE 1

OnCreatureMove(s, step) ==
    LET moved == With([s.p EXCEPT !.since = 0, !.lastStepCost = StepCost(step),
                                  !.changedFloor = step = "floor"], s.es)
    IN  IF step = "refused" THEN s
        ELSE IF Teleports(step) THEN StopEventWalk(moved)
        ELSE moved

(* onCreatureWalk up to the point where it looks for the next event.       *)
TakeStep(s, step) ==
    LET stepped == IF GetWalkDelay(s.p) > 0 THEN s
                   ELSE IF s.p.listWalkDir > 0
                   THEN OnCreatureMove(With([s.p EXCEPT !.listWalkDir = @ - 1], s.es), step)
                   ELSE StopEventWalk(OnWalkComplete(s))
    IN  IF stepped.p.cancelNextWalk
        THEN OnWalkAborted(With([stepped.p EXCEPT !.listWalkDir = 0,
                                                  !.cancelNextWalk = FALSE], stepped.es))
        ELSE stepped

(* The first step of a walk is taken at once.  eventWalk is 0 while it is, *)
(* so that this step does not come back here.                              *)
AddEventWalk(s, firstStep, step) ==
    LET t     == With([s.p EXCEPT !.cancelNextWalk = FALSE], s.es)
        ticks == GetEventStepTicks(t.p, firstStep)
        u     == IF ticks = 1 /\ ~dying THEN TakeStep(t, step) ELSE t
    IN  IF t.p.eventWalk # 0 THEN t
        ELSE With([u.p EXCEPT !.eventWalk = NewId(u)], Scheduled(u, ticks, "walk"))

StartAutoWalk(s, n, rooted, step) ==
    IF rooted THEN s
    ELSE AddEventWalk(With([s.p EXCEPT !.listWalkDir = n], s.es), n = 1, step)

(* Variant: the walk goes on only while there are directions.              *)
OnCreatureWalkForgets(s, step) ==
    LET t == TakeStep(s, step)
    IN  IF t.p.eventWalk = 0 \/ t.p.listWalkDir = 0 THEN t
        ELSE AddEventWalk(With([t.p EXCEPT !.eventWalk = 0], t.es), FALSE, step)

OnCreatureWalk(s, step) ==
    LET t == TakeStep(s, step)
    IN  IF t.p.eventWalk = 0 THEN t
        ELSE AddEventWalk(With([t.p EXCEPT !.eventWalk = 0], t.es), FALSE, step)

SetSpeed(s, stopped, step) ==
    LET t == With([s.p EXCEPT !.stopped = stopped], s.es)
    IN  IF stopped
        THEN LET u == StopEventWalk(t) IN With([u.p EXCEPT !.cancelNextWalk = TRUE], u.es)
        ELSE IF s.p.stopped /\ s.p.listWalkDir > 0 THEN AddEventWalk(t, FALSE, step)
        ELSE t

-----------------------------------------------------------------------------
(* The events that may be handed over while the next handler runs.         *)
HandOvers ==
    {(events \ late) \union {[e EXCEPT !.handed = TRUE] : e \in late} :
        late \in SUBSET {e \in events : e.ticks = 0 /\ ~e.handed}}

Becomes(s) == w' = s.p /\ events' = s.es

(* A task runs when no event has been put before it.                       *)
TaskRuns == \A e \in events : ~e.handed
Room == Cardinality(events) < MaxEvents

(* A packet with a step.                                                   *)
PlayerMove ==
    /\ TaskRuns /\ Room
    /\ \E es \in HandOvers, rooted \in BOOLEAN, step \in Steps :
         Becomes(StartAutoWalk(SetNextWalkActionTask(With(w, es), NoAction), 1, rooted, step))
    /\ UNCHANGED <<posted, dying>>

(* A path from a packet, or from the task that an action has posted.       *)
AutoWalk(n) ==
    /\ TaskRuns /\ Room
    /\ \E es \in HandOvers, rooted \in BOOLEAN, step \in Steps :
         Becomes(StartAutoWalk(With(w, es), n, rooted, step))
    /\ UNCHANGED dying

PlayerAutoWalk(n) == AutoWalk(n) /\ UNCHANGED posted

PostedAutoWalk(n) == /\ posted[n] > 0
                     /\ AutoWalk(n)
                     /\ posted' = [posted EXCEPT ![n] = @ - 1]

PlayerStopAutoWalk ==
    /\ TaskRuns
    /\ \E es \in HandOvers : Becomes(With([w EXCEPT !.cancelNextWalk = TRUE], es))
    /\ UNCHANGED <<posted, dying>>

InUse(es) == {e.does : e \in es} \union {w.walkTask}

(* What the player wants to use is too far away: a path there is posted    *)
(* and the action set aside until the walk is complete.                    *)
TooFar(es, n, action) ==
    /\ action \notin InUse(es)
    /\ posted[n] < MaxPosted
    /\ posted' = [posted EXCEPT ![n] = @ + 1]
    /\ Becomes(SetNextWalkActionTask(With(w, es), action))
    /\ UNCHANGED dying

PlayerUsesFar(n, action) ==
    /\ TaskRuns
    /\ \E es \in HandOvers : TooFar(es, n, action)

(* The first event in the dispatcher's list, or one that is handed over    *)
(* when there is nothing to run.                                           *)
MayRun(e) == e.handed \/ (e.ticks = 0 /\ TaskRuns)
After(e, es) == es \ {e, [e EXCEPT !.handed = TRUE]}

(* Game::checkCreatureWalk, for a creature that lives.                     *)
CheckCreatureWalk(e) ==
    /\ e.does = "walk" /\ MayRun(e)
    /\ \E es \in HandOvers, step \in Steps :
         LET s == With(w, After(e, es))
         IN  Becomes(IF dying THEN s ELSE OnCreatureWalk(s, step))
    /\ UNCHANGED <<posted, dying>>

(* The action runs: it is done, or what it is about is too far away again. *)
RunAction(e) ==
    /\ e.does \in Actions /\ MayRun(e)
    /\ \E es \in HandOvers :
         \/ Becomes(With(w, After(e, es))) /\ UNCHANGED <<posted, dying>>
         \/ \E n \in 1 .. MaxDirs, action \in Actions : TooFar(After(e, es), n, action)

(* Another creature, a spell or a script moves the player.                 *)
Moved ==
    /\ TaskRuns
    /\ \E es \in HandOvers, step \in Steps : Becomes(OnCreatureMove(With(w, es), step))
    /\ UNCHANGED <<posted, dying>>

ChangeSpeed(stopped) ==
    /\ TaskRuns /\ Room
    /\ \E es \in HandOvers, step \in Steps : Becomes(SetSpeed(With(w, es), stopped, step))
    /\ UNCHANGED <<posted, dying>>

(* The player chooses somebody to follow; the path comes with              *)
(* goToFollowCreature, unless an action is waiting for the player.         *)
SetFollowCreature ==
    /\ TaskRuns
    /\ w.listWalkDir > 0
    /\ \E es \in HandOvers :
         Becomes(OnWalkAborted(With([w EXCEPT !.listWalkDir = 0], es)))
    /\ UNCHANGED <<posted, dying>>

(* getPathTo puts its path, empty where the player is there already, into  *)
(* listWalkDir itself: it stays there also when no walk begins.            *)
GoToFollowCreature ==
    /\ TaskRuns /\ Room
    /\ w.walkTask = NoAction
    /\ \E es \in HandOvers, rooted \in BOOLEAN, step \in Steps :
         LET Path(n) == With([w EXCEPT !.listWalkDir = n], es)
         IN  \/ Becomes(Path(0))
             \/ \E n \in 0 .. MaxDirs : Becomes(StartAutoWalk(Path(n), n, rooted, step))
    /\ UNCHANGED <<posted, dying>>

(* A blow takes the last of the health.                                    *)
Die == /\ TaskRuns
       /\ ~dying
       /\ dying' = TRUE
       /\ \E es \in HandOvers : Becomes(With(w, es))
       /\ UNCHANGED posted

(* Killed in an arena, where nothing is lost: the player is well again and *)
(* in the temple, which is not next to the arena.                          *)
ExecuteDeath ==
    /\ TaskRuns
    /\ dying
    /\ dying' = FALSE
    /\ \E es \in HandOvers : Becomes(OnCreatureMove(With(w, es), "teleport"))
    /\ UNCHANGED posted

Tick == /\ w' = [w EXCEPT !.since = IF @ < LongestDelay THEN @ + 1 ELSE @]
        /\ events' = {[e EXCEPT !.ticks = IF @ > 0 THEN @ - 1 ELSE 0] : e \in events}
        /\ UNCHANGED <<posted, dying>>

WalkNext == \/ PlayerMove \/ PlayerStopAutoWalk
            \/ \E n \in 1 .. MaxDirs : \/ PlayerAutoWalk(n) \/ PostedAutoWalk(n)
                                       \/ \E action \in Actions : PlayerUsesFar(n, action)
            \/ \E e \in events : CheckCreatureWalk(e) \/ RunAction(e)
            \/ Moved \/ \E stopped \in BOOLEAN : ChangeSpeed(stopped)
            \/ SetFollowCreature \/ GoToFollowCreature
            \/ Die \/ ExecuteDeath \/ Tick

WalkSpec == WalkInit /\ [][WalkNext]_walkVars

-----------------------------------------------------------------------------
(* addEventWalk does nothing while eventWalk is set, so a player whose     *)
(* eventWalk is left set with no event to come could never walk again.     *)
(* Stopped and stale events, teleports while a step is taken and the death *)
(* in an arena, when an event is lost, do not lead there.                  *)
NeverStuck ==
    w.eventWalk # 0 /\ ~dying =>
        \E e \in events : e.id = w.eventWalk /\ e.does = "walk"

(* The newest request replaces the action that was waiting.  Every action  *)
(* whose event can still be stopped is therefore the one that              *)
(* walkTaskEvent names, there is none while another waits for the walk to  *)
(* end, and no SchedulerTask is both with the player and the scheduler.    *)
ActionReplaceable ==
    \A e \in events : e.does \in Actions =>
        /\ ~e.handed => e.id = w.walkTaskEvent /\ w.walkTask = NoAction
        /\ e.does # w.walkTask

(* What the comment in onCreatureMove says: a change of floors has an      *)
(* extra cost.                                                             *)
FloorChangeCosts == w.changedFloor => w.lastStepCost = 2
=============================================================================
