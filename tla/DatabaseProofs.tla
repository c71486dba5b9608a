--------------------------- MODULE DatabaseProofs ---------------------------
(***************************************************************************)
(* Theorems about DatabaseTasks, for any number of queries, producers and  *)
(* saves.                                                                  *)
(***************************************************************************)
EXTENDS DatabaseTasks, TLAPS

(* How many of the accepted queries have been taken out of the list.       *)
Taken == Len(submitted) - Len(tasks)

NoRepeats(s) == \A i, j \in DOMAIN s : s[i] = s[j] => i = j

(* The list is what addTask accepted without a prefix.                     *)
QueueIsSuffix == /\ Taken \in Nat
                 /\ \A i \in 1 .. Len(tasks) : tasks[i] = submitted[Taken + i]

(* The prefix has been executed or is in hand, and nothing else is.        *)
PrefixTaken ==
    /\ \A i \in 1 .. Taken : \/ Has(executed, submitted[i])
                             \/ \E w \in Workers : InFlight(w, submitted[i])
    /\ \A w \in Workers : pc[w] = "execute" =>
          /\ \E i \in 1 .. Taken : task[w] = submitted[i]
          /\ ~Has(executed, task[w])
    /\ \A k \in DOMAIN executed : \E i \in 1 .. Taken : executed[k] = submitted[i]

(* The two threads never have the same query in hand.                      *)
HandsApart == \A v, w \in Workers :
                 pc[v] = "execute" /\ pc[w] = "execute" /\ task[v] = task[w] => v = w

(* What a flush owes was accepted.                                         *)
OwedAccepted == \A q \in owed : Has(submitted, q)

(* The inductive invariant.  ExactlyOnce and OvertakenOnlyInFlight follow  *)
(* from it and not from themselves: that a query taken now is a new one to *)
(* the database needs to know that the list is a suffix of what was        *)
(* accepted, without repetitions.                                          *)
Inv == /\ TypeOK
       /\ NoRepeats(submitted) /\ NoRepeats(executed)
       /\ QueueIsSuffix /\ PrefixTaken /\ HandsApart
       /\ OwedAccepted /\ NothingLeftBehind

LEMMA AppendFacts ==
  ASSUME NEW S, NEW s \in Seq(S), NEW e \in S
  PROVE  /\ Append(s, e) \in Seq(S)
         /\ Len(Append(s, e)) = Len(s) + 1 /\ Len(s) \in Nat
         /\ DOMAIN s = 1 .. Len(s) /\ DOMAIN Append(s, e) = 1 .. Len(s) + 1
         /\ \A i \in 1 .. Len(s) : Append(s, e)[i] = s[i]
         /\ Append(s, e)[Len(s) + 1] = e
  OBVIOUS

LEMMA HasAppend ==
  ASSUME NEW S, NEW s \in Seq(S), NEW e \in S, NEW q
  PROVE  Has(Append(s, e), q) <=> Has(s, q) \/ q = e
<1>1. /\ DOMAIN s = 1 .. Len(s) /\ DOMAIN Append(s, e) = 1 .. Len(s) + 1 /\ Len(s) \in Nat
      /\ \A i \in 1 .. Len(s) : Append(s, e)[i] = s[i]
      /\ Append(s, e)[Len(s) + 1] = e
  BY AppendFacts
<1>2. ASSUME NEW i \in 1 .. Len(s) + 1 PROVE i \in 1 .. Len(s) \/ i = Len(s) + 1
  BY <1>1
<1>3. \A i \in 1 .. Len(s) : i \in 1 .. Len(s) + 1
  BY <1>1
<1>4. Len(s) + 1 \in 1 .. Len(s) + 1
  BY <1>1
<1> QED BY <1>1, <1>2, <1>3, <1>4 DEF Has

LEMMA NoRepeatsAppend ==
  ASSUME NEW S, NEW s \in Seq(S), NEW e \in S, NoRepeats(s), ~Has(s, e)
  PROVE  NoRepeats(Append(s, e))
<1>1. /\ DOMAIN s = 1 .. Len(s) /\ DOMAIN Append(s, e) = 1 .. Len(s) + 1 /\ Len(s) \in Nat
      /\ \A i \in 1 .. Len(s) : Append(s, e)[i] = s[i]
      /\ Append(s, e)[Len(s) + 1] = e
  BY AppendFacts
<1>2. \A i \in 1 .. Len(s) + 1 : i \in 1 .. Len(s) \/ i = Len(s) + 1
  BY <1>1
<1> QED BY <1>1, <1>2 DEF NoRepeats, Has

(* The parts of the invariant about the lists and the hands.               *)
Bookkeeping == /\ NoRepeats(submitted) /\ NoRepeats(executed)
               /\ QueueIsSuffix /\ PrefixTaken /\ HandsApart

(* Steps that move no query.                                               *)
LEMMA QuietStep ==
  ASSUME Inv, UNCHANGED <<tasks, submitted, executed>>,
         \A w \in Workers : /\ pc'[w] = "execute" <=> pc[w] = "execute"
                            /\ pc[w] = "execute" => task'[w] = task[w]
  PROVE  Bookkeeping'
<1>1. QueueIsSuffix' /\ NoRepeats(submitted)' /\ NoRepeats(executed)' /\ Taken' = Taken
  BY DEF Inv, QueueIsSuffix, NoRepeats, Taken
<1>2. PrefixTaken'
  <2>1. \A q : Has(executed, q)' <=> Has(executed, q)
    BY DEF Has
  <2>2. \A w \in Workers : \A q : InFlight(w, q)' <=> InFlight(w, q)
    BY DEF InFlight
  <2>3. PrefixTaken
    BY DEF Inv
  <2> QED BY <1>1, <2>1, <2>2, <2>3 DEF PrefixTaken, Has, InFlight
<1>3. HandsApart'
  BY DEF Inv, HandsApart
<1> QED BY <1>1, <1>2, <1>3 DEF Bookkeeping

(* A worker takes the query at the front of the list.                      *)
LEMMA PopFrontStep ==
  ASSUME Inv, NEW w \in Workers, PopFront(w), pc[w] # "execute",
         UNCHANGED <<submitted, executed>>
  PROVE  /\ Bookkeeping' /\ Head(tasks) \in Queries /\ tasks' \in Seq(Queries)
         /\ task' \in [Workers -> Queries \union {NoQuery}]
<1> DEFINE n == Taken
           q == Head(tasks)
<1>0. /\ tasks \in Seq(Queries) /\ submitted \in Seq(Queries) /\ executed \in Seq(Queries)
      /\ task \in [Workers -> Queries \union {NoQuery}] /\ DOMAIN pc = Workers
  BY DEF Inv, TypeOK
<1>1. /\ tasks # <<>> /\ tasks' = Tail(tasks) /\ task' = [task EXCEPT ![w] = q]
      /\ pc' = [pc EXCEPT ![w] = "execute"]
  BY DEF PopFront
<1>2. /\ q = tasks[1] /\ q \in Queries /\ tasks' \in Seq(Queries)
      /\ Len(tasks) \in Nat /\ Len(tasks') = Len(tasks) - 1 /\ Len(tasks) >= 1
      /\ \A i \in 1 .. Len(tasks) - 1 : tasks'[i] = tasks[i + 1]
  BY <1>0, <1>1
<1>3. n \in Nat /\ Len(submitted) \in Nat /\ Taken' = n + 1
      /\ DOMAIN submitted = 1 .. Len(submitted) /\ n + 1 <= Len(submitted)
  BY <1>0, <1>2 DEF Inv, QueueIsSuffix, Taken
<1>4. q = submitted[n + 1]
  BY <1>2, <1>3 DEF Inv, QueueIsSuffix
<1>5. /\ task' \in [Workers -> Queries \union {NoQuery}]
      /\ pc'[w] = "execute" /\ task'[w] = q
      /\ \A v \in Workers \ {w} : pc'[v] = pc[v] /\ task'[v] = task[v]
  BY <1>0, <1>1, <1>2
<1>6. QueueIsSuffix'
  <2>1. ASSUME NEW i \in 1 .. Len(tasks) - 1
        PROVE  tasks'[i] = submitted[n + 1 + i]
    <3>1. i + 1 \in 1 .. Len(tasks) /\ n + (i + 1) = n + 1 + i
      BY <1>2, <1>3
    <3>2. tasks[i + 1] = submitted[n + (i + 1)]
      BY <3>1 DEF Inv, QueueIsSuffix
    <3> QED BY <1>2, <3>1, <3>2
  <2> QED BY <1>2, <1>3, <2>1 DEF QueueIsSuffix
<1> HIDE DEF n, q
<1>7. \A i \in 1 .. n : submitted[i] # q
  <2>1. \A i \in 1 .. n : i \in DOMAIN submitted /\ n + 1 \in DOMAIN submitted /\ i # n + 1
    BY <1>3
  <2> QED BY <1>4, <2>1 DEF Inv, NoRepeats
<1>8. ~Has(executed, q) /\ \A v \in Workers : pc[v] = "execute" => task[v] # q
  BY <1>7 DEF Inv, PrefixTaken, Has, n
<1>9. PrefixTaken'
  <2>1. \A i \in 1 .. n + 1 : i \in 1 .. n \/ i = n + 1
    BY <1>3
  <2>2. (\A i \in 1 .. n : i \in 1 .. n + 1) /\ n + 1 \in 1 .. n + 1
    BY <1>3
  <2>3. \A r : Has(executed, r)' <=> Has(executed, r)
    BY DEF Has
  <2>4. \A i \in 1 .. n + 1 : \/ Has(executed, submitted[i])'
                              \/ \E v \in Workers : pc'[v] = "execute" /\ task'[v] = submitted[i]
    <3> SUFFICES ASSUME NEW i \in 1 .. n + 1, ~Has(executed, submitted[i])
                 PROVE  \E v \in Workers : pc'[v] = "execute" /\ task'[v] = submitted[i]
      BY <2>3
    <3>1. CASE i = n + 1
      BY <1>4, <1>5, <3>1
    <3>2. CASE i \in 1 .. n
      BY <1>5, <3>2 DEF Inv, PrefixTaken, InFlight, n
    <3> QED BY <2>1, <3>1, <3>2
  <2>5. \A v \in Workers : pc'[v] = "execute" =>
          /\ \E i \in 1 .. n + 1 : task'[v] = submitted[i]
          /\ ~Has(executed, task'[v])
    <3> TAKE v \in Workers
    <3>1. CASE v = w
      BY <1>4, <1>5, <1>8, <2>2, <3>1
    <3>2. CASE v # w
      BY <1>5, <2>2, <3>2 DEF Inv, PrefixTaken, n
    <3> QED BY <3>1, <3>2
  <2>6. \A k \in DOMAIN executed : \E i \in 1 .. n + 1 : executed[k] = submitted[i]
    BY <2>2 DEF Inv, PrefixTaken, n
  <2> QED BY <1>3, <2>3, <2>4, <2>5, <2>6 DEF PrefixTaken, InFlight, Has
<1>10. HandsApart'
  BY <1>5, <1>8 DEF Inv, HandsApart
<1>11. NoRepeats(submitted)' /\ NoRepeats(executed)'
  BY DEF Inv, NoRepeats
<1> QED BY <1>2, <1>5, <1>6, <1>9, <1>10, <1>11 DEF Bookkeeping, q

(* A worker runs the query it has in hand.                                 *)
LEMMA ExecuteStep ==
  ASSUME Inv, NEW w \in Workers, Execute(w)
  PROVE  Bookkeeping' /\ executed' \in Seq(Queries)
<1> DEFINE q == task[w]
<1>1. /\ executed \in Seq(Queries) /\ submitted \in Seq(Queries) /\ tasks \in Seq(Queries)
      /\ DOMAIN pc = Workers
  BY DEF Inv, TypeOK
<1>2. /\ pc[w] = "execute" /\ executed' = Append(executed, q)
      /\ pc' = [pc EXCEPT ![w] = "callback"] /\ UNCHANGED <<tasks, task, submitted>>
  BY DEF Execute
<1>3. /\ pc'[w] # "execute" /\ \A v \in Workers \ {w} : pc'[v] = pc[v]
      /\ Taken' = Taken
  BY <1>1, <1>2 DEF Taken
<1>4. PICK m \in 1 .. Taken : q = submitted[m]
  BY <1>2 DEF Inv, PrefixTaken
<1>5. q \in Queries /\ ~Has(executed, q)
  <2>1. m \in DOMAIN submitted
    BY <1>1, <1>4 DEF Inv, QueueIsSuffix, Taken
  <2> QED BY <1>1, <1>2, <1>4, <2>1 DEF Inv, PrefixTaken
<1>6. executed' \in Seq(Queries) /\ NoRepeats(executed)' /\ NoRepeats(submitted)'
  <2>1. NoRepeats(executed')
    BY <1>1, <1>2, <1>5, NoRepeatsAppend DEF Inv
  <2>2. executed' \in Seq(Queries)
    BY <1>1, <1>2, <1>5, AppendFacts
  <2> QED BY <1>2, <2>1, <2>2 DEF Inv, NoRepeats
<1>7. \A r : Has(executed', r) <=> Has(executed, r) \/ r = q
  BY <1>1, <1>2, <1>5, HasAppend
<1>8. QueueIsSuffix' /\ HandsApart'
  BY <1>2, <1>3 DEF Inv, QueueIsSuffix, HandsApart
<1> HIDE DEF q
<1>9. PrefixTaken'
  <2>1. \A i \in 1 .. Taken :
           \/ Has(executed', submitted[i])
           \/ \E v \in Workers : pc'[v] = "execute" /\ task[v] = submitted[i]
    <3> SUFFICES ASSUME NEW i \in 1 .. Taken, ~Has(executed', submitted[i])
                 PROVE  \E v \in Workers : pc'[v] = "execute" /\ task[v] = submitted[i]
      OBVIOUS
    <3>1. ~Has(executed, submitted[i]) /\ submitted[i] # q
      BY <1>7
    <3>2. PICK v \in Workers : pc[v] = "execute" /\ task[v] = submitted[i]
      BY <3>1 DEF Inv, PrefixTaken, InFlight
    <3>3. v # w
      BY <3>1, <3>2 DEF q
    <3> QED BY <1>3, <3>2, <3>3
  <2>2. \A v \in Workers : pc'[v] = "execute" =>
          /\ \E i \in 1 .. Taken : task[v] = submitted[i]
          /\ ~Has(executed', task[v])
    <3> SUFFICES ASSUME NEW v \in Workers, pc'[v] = "execute"
                 PROVE  /\ \E i \in 1 .. Taken : task[v] = submitted[i]
                        /\ ~Has(executed', task[v])
      OBVIOUS
    <3>1. v # w /\ pc[v] = "execute"
      BY <1>3
    <3>2. task[v] # q
      BY <1>2, <3>1 DEF Inv, HandsApart, q
    <3> QED BY <1>7, <3>1, <3>2 DEF Inv, PrefixTaken
  <2>3. \A k \in DOMAIN executed' : \E i \in 1 .. Taken : executed'[k] = submitted[i]
    <3> SUFFICES ASSUME NEW k \in DOMAIN executed'
                 PROVE  \E i \in 1 .. Taken : executed'[k] = submitted[i]
      OBVIOUS
    <3>1. Has(executed', executed'[k])
      BY DEF Has
    <3>2. CASE executed'[k] = q
      BY <1>4, <3>2
    <3>3. CASE Has(executed, executed'[k])
      BY <3>3 DEF Has, Inv, PrefixTaken
    <3> QED BY <1>7, <3>1, <3>2, <3>3
  <2>4. UNCHANGED <<task, submitted, Taken>>
    BY <1>2, <1>3
  <2>5. \A r : Has(executed, r)' <=> Has(executed', r)
    BY DEF Has
  <2> QED BY <2>1, <2>2, <2>3, <2>4, <2>5 DEF PrefixTaken, InFlight
<1> QED BY <1>6, <1>8, <1>9 DEF Bookkeeping

(* addTask.                                                                *)
LEMMA AddTaskStep ==
  ASSUME Inv, NEW c \in Callers, NEW q \in Queries, AddTask(c, q)
  PROVE  Bookkeeping' /\ tasks' \in Seq(Queries) /\ submitted' \in Seq(Queries)
<1>1. /\ executed \in Seq(Queries) /\ submitted \in Seq(Queries) /\ tasks \in Seq(Queries)
  BY DEF Inv, TypeOK
<1>2. /\ ~Has(submitted, q) /\ tasks' = Append(tasks, q) /\ submitted' = Append(submitted, q)
      /\ UNCHANGED <<pc, task, executed>>
  BY DEF AddTask, PushTask, Has
<1>3. /\ tasks' \in Seq(Queries) /\ submitted' \in Seq(Queries)
      /\ Len(tasks) \in Nat /\ Len(submitted) \in Nat
      /\ Len(tasks') = Len(tasks) + 1 /\ Len(submitted') = Len(submitted) + 1
      /\ \A i \in 1 .. Len(tasks) : tasks'[i] = tasks[i]
      /\ \A i \in 1 .. Len(submitted) : submitted'[i] = submitted[i]
      /\ tasks'[Len(tasks) + 1] = q /\ submitted'[Len(submitted) + 1] = q
  BY <1>1, <1>2, AppendFacts
<1>4. Taken' = Taken /\ Taken \in Nat /\ Taken + Len(tasks) = Len(submitted)
  BY <1>3 DEF Inv, QueueIsSuffix, Taken
<1>5. NoRepeats(submitted)' /\ NoRepeats(executed)'
  <2>1. NoRepeats(submitted')
    BY <1>1, <1>2, NoRepeatsAppend DEF Inv
  <2> QED BY <1>2, <2>1 DEF Inv, NoRepeats
<1>6. QueueIsSuffix'
  <2> SUFFICES ASSUME NEW i \in 1 .. Len(tasks) + 1
               PROVE  tasks'[i] = submitted'[Taken + i]
    BY <1>3, <1>4 DEF QueueIsSuffix
  <2>1. CASE i = Len(tasks) + 1
    <3>1. Taken + i = Len(submitted) + 1
      BY <1>3, <1>4, <2>1
    <3> QED BY <1>3, <2>1, <3>1
  <2>2. CASE i \in 1 .. Len(tasks)
    <3>1. Taken + i \in 1 .. Len(submitted)
      BY <1>3, <1>4, <2>2
    <3>2. tasks[i] = submitted[Taken + i]
      BY <2>2 DEF Inv, QueueIsSuffix
    <3> QED BY <1>3, <2>2, <3>1, <3>2
  <2>3. i \in 1 .. Len(tasks) \/ i = Len(tasks) + 1
    BY <1>3
  <2> QED BY <2>1, <2>2, <2>3
<1>7. \A i \in 1 .. Taken : submitted'[i] = submitted[i]
  <2>1. \A i \in 1 .. Taken : i \in 1 .. Len(submitted)
    BY <1>3, <1>4
  <2> QED BY <1>3, <2>1
<1>8. PrefixTaken'
  <2>1. PrefixTaken
    BY DEF Inv
  <2>2. \A r : Has(executed, r)' <=> Has(executed, r)
    BY <1>2 DEF Has
  <2>3. \A w \in Workers : \A r : InFlight(w, r)' <=> InFlight(w, r)
    BY <1>2 DEF InFlight
  <2> QED BY <1>2, <1>4, <1>7, <2>1, <2>2, <2>3 DEF PrefixTaken
<1>9. HandsApart'
  BY <1>2 DEF Inv, HandsApart
<1> QED BY <1>3, <1>5, <1>6, <1>8, <1>9 DEF Bookkeeping

-----------------------------------------------------------------------------
LEMMA InvInit == Init => Inv
<1> SUFFICES ASSUME Init PROVE Inv
  OBVIOUS
<1> USE DatabaseAssumption DEF Init
<1>1. TypeOK
  <2>1. /\ pc[DbThread] = "test" /\ pc[DispatcherThread] = "idle" /\ DOMAIN pc = Workers
        /\ task \in [Workers -> Queries \union {NoQuery}]
        /\ call \in [Callers -> {"none", "notify"}]
    BY DEF Workers
  <2>2. tasks \in Seq(Queries) /\ submitted \in Seq(Queries) /\ executed \in Seq(Queries)
    OBVIOUS
  <2>3. /\ threadState \in {"RUNNING", "CLOSING", "TERMINATED"}
        /\ accepting \in BOOLEAN /\ closing \in BOOLEAN
        /\ posted \subseteq WithCallback /\ owed \subseteq Queries
    OBVIOUS
  <2>4. flushes \in 0 .. MaxFlushes
    OBVIOUS
  <2> QED BY <2>1, <2>2, <2>3, <2>4 DEF TypeOK, DbPCs, FlushPCs
<1>2. NoRepeats(submitted) /\ NoRepeats(executed) /\ OwedAccepted /\ NothingLeftBehind
  BY DEF NoRepeats, OwedAccepted, NothingLeftBehind
<1>3. Taken = 0 /\ QueueIsSuffix
  BY DEF Taken, QueueIsSuffix
<1>4. PrefixTaken /\ HandsApart
  <2>1. \A w \in Workers : pc[w] # "execute"
    OBVIOUS
  <2>2. \A i \in 1 .. 0 : FALSE
    OBVIOUS
  <2> QED BY <1>3, <2>1, <2>2 DEF PrefixTaken, HandsApart
<1> QED BY <1>1, <1>2, <1>3, <1>4 DEF Inv

(* The steps of the database thread that move no query.                    *)
LEMMA DbQuietInv ==
  ASSUME Inv, LoopTest \/ Wait \/ SpuriousWakeup \/ NothingToTake
  PROVE  Inv'
<1> USE DatabaseAssumption DEF Workers
<1>1. TypeOK /\ OwedAccepted /\ NothingLeftBehind
  BY DEF Inv
<1>2. PICK place \in DbPCs \ {"execute"} : pc' = [pc EXCEPT ![DbThread] = place]
  BY DEF LoopTest, Wait, SpuriousWakeup, NothingToTake, DbPCs
<1>3. /\ pc[DbThread] # "execute"
      /\ UNCHANGED <<threadState, accepting, tasks, task, call, closing, flushes, submitted,
                     executed, posted, owed>>
  BY DEF LoopTest, Wait, SpuriousWakeup, NothingToTake
<1>4. /\ pc'[DbThread] = place /\ pc'[DispatcherThread] = pc[DispatcherThread]
      /\ DOMAIN pc' = Workers
  BY <1>1, <1>2 DEF TypeOK
<1>5. Bookkeeping'
  BY <1>3, <1>4, QuietStep
<1>6. TypeOK'
  BY <1>1, <1>3, <1>4 DEF TypeOK
<1>7. OwedAccepted' /\ NothingLeftBehind'
  BY <1>1, <1>3, <1>4 DEF OwedAccepted, Has, NothingLeftBehind
<1> QED BY <1>5, <1>6, <1>7 DEF Inv, Bookkeeping

(* A query is taken, by either thread.                                     *)
LEMMA TakeInv ==
  ASSUME Inv, Take \/ FlushTake
  PROVE  Inv'
<1> USE DatabaseAssumption DEF Workers
<1>1. TypeOK /\ OwedAccepted /\ NothingLeftBehind
  BY DEF Inv
<1>2. PICK w \in Workers : /\ PopFront(w) /\ pc[w] # "execute"
                           /\ w = DispatcherThread => pc[w] = "flush"
  BY DEF Take, FlushTake
<1>3. UNCHANGED <<threadState, accepting, call, closing, flushes, submitted, executed,
                  posted, owed>>
  BY DEF Take, FlushTake
<1>4. /\ Bookkeeping' /\ tasks' \in Seq(Queries)
      /\ task' \in [Workers -> Queries \union {NoQuery}]
  BY <1>2, <1>3, PopFrontStep
<1>5. /\ pc'[w] = "execute" /\ \A v \in Workers \ {w} : pc'[v] = pc[v]
      /\ DOMAIN pc' = Workers
  BY <1>1, <1>2 DEF PopFront, TypeOK
<1>6. TypeOK'
  BY <1>1, <1>3, <1>4, <1>5 DEF TypeOK, DbPCs, FlushPCs
<1>7. OwedAccepted'
  BY <1>1, <1>3 DEF OwedAccepted, Has
<1>8. NothingLeftBehind'
  <2>1. CASE w = DispatcherThread
    BY <1>5, <2>1 DEF NothingLeftBehind
  <2>2. CASE w = DbThread
    BY <1>1, <1>2, <1>3, <1>5, <2>2 DEF NothingLeftBehind, PopFront
  <2> QED BY <2>1, <2>2
<1> QED BY <1>4, <1>6, <1>7, <1>8 DEF Inv, Bookkeeping

(* A query is executed, and its callback is posted.                        *)
LEMMA RunTaskInv ==
  ASSUME Inv, NEW w \in Workers, Execute(w) \/ Callback(w)
  PROVE  Inv'
<1> USE DatabaseAssumption DEF Workers
<1>1. TypeOK /\ OwedAccepted /\ NothingLeftBehind
  BY DEF Inv
<1>2. CASE Execute(w)
  <2>1. Bookkeeping' /\ executed' \in Seq(Queries)
    BY <1>2, ExecuteStep
  <2>2. /\ pc'[w] = "callback" /\ \A v \in Workers \ {w} : pc'[v] = pc[v]
        /\ DOMAIN pc' = Workers
        /\ UNCHANGED <<threadState, accepting, tasks, task, call, closing, flushes,
                       submitted, posted, owed>>
    BY <1>1, <1>2 DEF Execute, TypeOK
  <2>3. TypeOK'
    BY <1>1, <2>1, <2>2 DEF TypeOK, DbPCs, FlushPCs
  <2>4. OwedAccepted' /\ NothingLeftBehind'
    BY <1>1, <2>2 DEF OwedAccepted, Has, NothingLeftBehind
  <2> QED BY <2>1, <2>3, <2>4 DEF Inv, Bookkeeping
<1>3. CASE Callback(w)
  <2>1. /\ pc[w] = "callback" /\ pc'[w] = IF w = DbThread THEN "test" ELSE "flush"
        /\ \A v \in Workers \ {w} : pc'[v] = pc[v] /\ task'[v] = task[v]
        /\ DOMAIN pc' = Workers /\ task' \in [Workers -> Queries \union {NoQuery}]
        /\ UNCHANGED <<threadState, accepting, tasks, call, closing, flushes, submitted,
                       executed, owed>>
    BY <1>1, <1>3 DEF Callback, TypeOK
  <2>2. posted' \subseteq WithCallback
    BY <1>1, <1>3 DEF Callback, TypeOK
  <2>3. Bookkeeping'
    <3>1. \A v \in Workers : /\ pc'[v] = "execute" <=> pc[v] = "execute"
                             /\ pc[v] = "execute" => task'[v] = task[v]
      BY <2>1
    <3> QED BY <2>1, <3>1, QuietStep
  <2>4. TypeOK'
    BY <1>1, <2>1, <2>2 DEF TypeOK, DbPCs, FlushPCs
  <2>5. OwedAccepted' /\ NothingLeftBehind'
    BY <1>1, <2>1 DEF OwedAccepted, Has, NothingLeftBehind
  <2> QED BY <2>3, <2>4, <2>5 DEF Inv, Bookkeeping
<1> QED BY <1>2, <1>3

(* addTask, and its notify_one after the lock is released.                 *)
LEMMA AddTaskInv ==
  ASSUME Inv, NEW c \in Callers, Notify(c) \/ \E q \in Queries : AddTask(c, q)
  PROVE  Inv'
<1> USE DatabaseAssumption DEF Workers
<1>1. TypeOK /\ OwedAccepted /\ NothingLeftBehind
  BY DEF Inv
<1>2. CASE Notify(c)
  <2>1. /\ pc'[DbThread] = IF pc[DbThread] = "wait" THEN "woken" ELSE pc[DbThread]
        /\ pc'[DispatcherThread] = pc[DispatcherThread] /\ DOMAIN pc' = Workers
        /\ call' \in [Callers -> {"none", "notify"}]
        /\ UNCHANGED <<threadState, accepting, tasks, task, closing, flushes, submitted,
                       executed, posted, owed>>
    BY <1>1, <1>2 DEF Notify, TypeOK
  <2>2. Bookkeeping'
    BY <2>1, QuietStep
  <2>3. TypeOK'
    BY <1>1, <2>1 DEF TypeOK, DbPCs
  <2>4. OwedAccepted' /\ NothingLeftBehind'
    BY <1>1, <2>1 DEF OwedAccepted, Has, NothingLeftBehind
  <2> QED BY <2>2, <2>3, <2>4 DEF Inv, Bookkeeping
<1>3. ASSUME NEW q \in Queries, AddTask(c, q) PROVE Inv'
  <2>1. Bookkeeping' /\ tasks' \in Seq(Queries) /\ submitted' \in Seq(Queries)
    BY <1>3, AddTaskStep
  <2>2. /\ threadState = "RUNNING" /\ submitted' = Append(submitted, q)
        /\ call' \in [Callers -> {"none", "notify"}]
        /\ UNCHANGED <<threadState, accepting, pc, task, closing, flushes, executed, posted,
                       owed>>
    BY <1>1, <1>3 DEF AddTask, PushTask, TypeOK
  <2>3. TypeOK'
    BY <1>1, <2>1, <2>2 DEF TypeOK
  <2>4. OwedAccepted'
    <3>1. \A r : Has(submitted, r) => Has(submitted', r)
      BY <1>1, <2>2, HasAppend DEF TypeOK
    <3>2. \A r : Has(submitted, r)' <=> Has(submitted', r)
      BY DEF Has
    <3> QED BY <1>1, <2>2, <3>1, <3>2 DEF OwedAccepted
  <2>5. NothingLeftBehind'
    BY <2>2 DEF NothingLeftBehind
  <2> QED BY <2>1, <2>3, <2>4, <2>5 DEF Inv, Bookkeeping
<1> QED BY <1>2, <1>3

(* Steps of saving, stopping and shutting down that move no query.         *)
LEMMA FlushInv ==
  ASSUME Inv, BeginFlush \/ EndFlush \/ Stop \/ StopDispatcher \/ Shutdown \/ SignalEnd
  PROVE  Inv'
<1> USE DatabaseAssumption DEF Workers
<1>1. TypeOK /\ OwedAccepted /\ NothingLeftBehind
  BY DEF Inv
<1>2. UNCHANGED <<tasks, task, call, submitted, executed, posted>>
  BY DEF BeginFlush, EndFlush, Stop, StopDispatcher, Shutdown, SignalEnd
<1>3. /\ pc[DispatcherThread] # "execute" /\ pc'[DispatcherThread] # "execute"
      /\ pc'[DispatcherThread] \in FlushPCs /\ DOMAIN pc' = Workers
      /\ pc'[DbThread] = pc[DbThread] \/ (pc[DbThread] = "wait" /\ pc'[DbThread] = "woken")
  BY <1>1 DEF BeginFlush, EndFlush, Stop, StopDispatcher, Shutdown, SignalEnd, TypeOK,
              DispatcherIdle, FlushPCs
<1>4. Bookkeeping'
  BY <1>2, <1>3, QuietStep
<1>5. /\ threadState' \in {"RUNNING", "CLOSING", "TERMINATED"} /\ accepting' \in BOOLEAN
      /\ closing' \in BOOLEAN
  BY <1>1 DEF BeginFlush, EndFlush, Stop, StopDispatcher, Shutdown, SignalEnd, TypeOK
<1>6. flushes' \in 0 .. MaxFlushes
  BY <1>1 DEF BeginFlush, EndFlush, Stop, StopDispatcher, Shutdown, SignalEnd, TypeOK
<1>7. OwedAccepted' /\ owed' \subseteq Queries
  <2>1. owed' \in {owed, {}, ToSet(submitted)}
    BY DEF BeginFlush, EndFlush, Stop, StopDispatcher, Shutdown, SignalEnd
  <2>2. \A q \in ToSet(submitted) : Has(submitted, q) /\ q \in Queries
    BY <1>1 DEF ToSet, Has, TypeOK
  <2> QED BY <1>1, <1>2, <2>1, <2>2 DEF OwedAccepted, Has, TypeOK
<1>8. TypeOK'
  BY <1>1, <1>2, <1>3, <1>5, <1>6, <1>7 DEF TypeOK, DbPCs
<1>9. NothingLeftBehind'
  <2>1. CASE BeginFlush \/ Shutdown
    BY <1>1, <2>1 DEF BeginFlush, Shutdown, TypeOK, NothingLeftBehind
  <2>2. CASE EndFlush
    BY <2>2 DEF EndFlush, NothingLeftBehind
  <2>3. CASE Stop \/ StopDispatcher
    BY <2>3 DEF Stop, StopDispatcher, NothingLeftBehind
  <2>4. CASE SignalEnd
    BY <1>1, <2>4 DEF SignalEnd, NothingLeftBehind
  <2> QED BY <2>1, <2>2, <2>3, <2>4
<1> QED BY <1>4, <1>7, <1>8, <1>9 DEF Inv, Bookkeeping

LEMMA InvNext == Inv /\ [Next]_vars => Inv'
<1> SUFFICES ASSUME Inv, [Next]_vars PROVE Inv'
  OBVIOUS
<1>1. CASE UNCHANGED vars
  <2>1. Bookkeeping'
    BY <1>1, QuietStep DEF vars
  <2>2. TypeOK'
    BY <1>1 DEF vars, Inv, TypeOK
  <2>3. OwedAccepted' /\ NothingLeftBehind'
    BY <1>1 DEF vars, Inv, OwedAccepted, Has, NothingLeftBehind
  <2> QED BY <2>1, <2>2, <2>3 DEF Inv, Bookkeeping
<1>2. CASE Next
  <2>1. CASE DbStep
    BY <2>1, DbQuietInv, TakeInv, RunTaskInv DEF DbStep, Workers
  <2>2. CASE SpuriousWakeup
    BY <2>2, DbQuietInv
  <2>3. CASE DispatcherStep
    BY <2>3, TakeInv, RunTaskInv, FlushInv DEF DispatcherStep, Workers
  <2>4. CASE \E c \in Callers : Notify(c) \/ \E q \in Queries : AddTask(c, q)
    BY <2>4, AddTaskInv
  <2>5. CASE BeginFlush \/ Stop \/ StopDispatcher \/ Shutdown
    BY <2>5, FlushInv
  <2>6. CASE Finished
    BY <1>1, <2>6 DEF Finished
  <2> QED BY <1>2, <2>1, <2>2, <2>3, <2>4, <2>5, <2>6 DEF Next
<1> QED BY <1>1, <1>2

-----------------------------------------------------------------------------
(* The variables of both threads keep their types, and no worker runs a    *)
(* query that is none.                                                     *)
THEOREM TypeCorrect == Spec => []TypeOK
<1>1. Inv => TypeOK
  BY DEF Inv
<1> QED BY <1>1, InvInit, InvNext, PTL DEF Spec, Safety

(* The list, the hands and the database share out the accepted queries.    *)
LEMMA InvExactlyOnce ==
  ASSUME Inv
  PROVE  ExactlyOnce
<1>1. /\ tasks \in Seq(Queries) /\ submitted \in Seq(Queries)
      /\ Len(tasks) \in Nat /\ Len(submitted) \in Nat /\ Taken \in Nat
      /\ Taken + Len(tasks) = Len(submitted)
  BY DEF Inv, TypeOK, QueueIsSuffix, Taken
<1>2. \A i \in DOMAIN executed, j \in DOMAIN executed : executed[i] = executed[j] => i = j
  BY DEF Inv, NoRepeats
<1>3. ASSUME NEW i \in DOMAIN submitted, NEW q, q = submitted[i]
      PROVE  /\ Has(tasks, q) <=> i > Taken
             /\ Has(executed, q) => i <= Taken
             /\ \A w \in Workers : InFlight(w, q) => i <= Taken
  <2>1. i \in 1 .. Len(submitted)
    BY <1>1
  <2>2. \A j \in 1 .. Len(submitted) : submitted[j] = q => j = i
    BY <1>1, <1>3 DEF Inv, NoRepeats
  <2>3. \A j \in 1 .. Taken : j \in 1 .. Len(submitted) /\ j <= Taken
    BY <1>1
  <2>4. ASSUME i > Taken PROVE Has(tasks, q)
    <3>1. i - Taken \in 1 .. Len(tasks) /\ Taken + (i - Taken) = i
      BY <1>1, <2>1, <2>4
    <3>2. tasks[i - Taken] = submitted[Taken + (i - Taken)]
      BY <3>1 DEF Inv, QueueIsSuffix
    <3> QED BY <1>1, <1>3, <3>1, <3>2 DEF Has
  <2>5. ASSUME Has(tasks, q) PROVE i > Taken
    <3>1. PICK k \in 1 .. Len(tasks) : tasks[k] = q
      BY <1>1, <2>5 DEF Has
    <3>2. Taken + k \in 1 .. Len(submitted) /\ Taken + k > Taken
      BY <1>1
    <3>3. submitted[Taken + k] = q
      BY <3>1 DEF Inv, QueueIsSuffix
    <3> QED BY <2>2, <3>2, <3>3
  <2>6. Has(executed, q) => i <= Taken
    BY <2>2, <2>3 DEF Inv, PrefixTaken, Has
  <2>7. \A w \in Workers : InFlight(w, q) => i <= Taken
    BY <2>2, <2>3 DEF Inv, PrefixTaken, InFlight
  <2> QED BY <2>4, <2>5, <2>6, <2>7
<1>4. ASSUME NEW i \in DOMAIN submitted
      PROVE  LET q == submitted[i]
                 places == {w \in Workers : InFlight(w, q)}
                       \union (IF Has(tasks, q) THEN {"tasks"} ELSE {})
                       \union (IF Has(executed, q) THEN {"executed"} ELSE {})
             IN  \E p \in places : places = {p}
  <2> DEFINE q == submitted[i]
             hands == {w \in Workers : InFlight(w, q)}
             places == hands
                       \union (IF Has(tasks, q) THEN {"tasks"} ELSE {})
                       \union (IF Has(executed, q) THEN {"executed"} ELSE {})
  <2>1. i \in Nat /\ (i > Taken <=> ~(i <= Taken))
    BY <1>1
  <2>2. /\ Has(tasks, q) <=> i > Taken
        /\ Has(executed, q) => i <= Taken
        /\ hands # {} => i <= Taken
    BY <1>3
  <2>3. CASE i > Taken
    <3>1. Has(tasks, q) /\ ~Has(executed, q) /\ hands = {}
      BY <2>1, <2>2, <2>3
    <3>2. places = {"tasks"}
      BY <3>1
    <3> QED BY <3>2
  <2>4. CASE i <= Taken
    <3>1. ~Has(tasks, q)
      BY <2>1, <2>2, <2>4
    <3>2. i \in 1 .. Taken
      BY <1>1, <2>4
    <3>3. Has(executed, q) \/ \E w \in Workers : InFlight(w, q)
      BY <3>2 DEF Inv, PrefixTaken
    <3>4. Has(executed, q) => hands = {}
      BY DEF Inv, PrefixTaken, InFlight
    <3>5. CASE Has(executed, q)
      <4>1. places = {"executed"}
        BY <3>1, <3>4, <3>5
      <4> QED BY <4>1
    <3>6. CASE ~Has(executed, q)
      <4>1. PICK w \in Workers : InFlight(w, q)
        BY <3>3, <3>6
      <4>2. hands = {w}
        BY <4>1 DEF Inv, HandsApart, InFlight
      <4>3. places = {w}
        BY <3>1, <3>6, <4>2
      <4> QED BY <4>3
    <3> QED BY <3>5, <3>6
  <2> QED BY <2>1, <2>3, <2>4
<1> QED BY <1>2, <1>4 DEF ExactlyOnce

(* No accepted query is lost or executed twice, however flush and the      *)
(* database thread share the list.                                         *)
THEOREM AlwaysExactlyOnce == Spec => []ExactlyOnce
<1>1. Inv => ExactlyOnce
  BY InvExactlyOnce
<1> QED BY <1>1, InvInit, InvNext, PTL DEF Spec, Safety

(* A query that was overtaken is in the hands of a worker: the list itself *)
(* is served in the order of addTask, by both threads.                     *)
THEOREM OvertakenAlwaysInFlight == Spec => []OvertakenOnlyInFlight
<1>1. ASSUME Inv PROVE OvertakenOnlyInFlight
  <2> SUFFICES ASSUME NEW q \in Queries, NEW r \in Queries,
                      Before(submitted, q, r), Has(executed, r), ~Has(executed, q)
               PROVE  \E w \in Workers : InFlight(w, q)
    BY DEF OvertakenOnlyInFlight
  <2>1. PICK i \in DOMAIN submitted, j \in DOMAIN submitted :
            i < j /\ submitted[i] = q /\ submitted[j] = r
    BY DEF Before
  <2>2. PICK m \in 1 .. Taken : r = submitted[m]
    BY <1>1 DEF Inv, PrefixTaken, Has
  <2>3. /\ DOMAIN submitted = 1 .. Len(submitted) /\ Len(submitted) \in Nat
        /\ Taken \in Nat /\ Taken <= Len(submitted)
    BY <1>1 DEF Inv, TypeOK, QueueIsSuffix, Taken
  <2>4. m \in DOMAIN submitted
    BY <2>3
  <2>5. m = j
    BY <1>1, <2>1, <2>2, <2>4 DEF Inv, NoRepeats
  <2>6. i \in 1 .. Taken
    BY <2>1, <2>3, <2>5
  <2> QED BY <1>1, <2>1, <2>6 DEF Inv, PrefixTaken
<1> QED BY <1>1, InvInit, InvNext, PTL DEF Spec, Safety

(* When flush returns, only the query that the database thread has in hand *)
(* may be left of those accepted before it began.                          *)
THEOREM FlushAlwaysLeavesOnlyInFlight == Spec => FlushLeavesOnlyInFlight
<1>1. ASSUME Inv, EndFlush
      PROVE  \A q \in owed : Has(executed, q) \/ InFlight(DbThread, q)
  <2> SUFFICES ASSUME NEW q \in owed, ~Has(executed, q)
               PROVE  InFlight(DbThread, q)
    OBVIOUS
  <2>1. pc[DispatcherThread] = "flush" /\ tasks = <<>>
    BY <1>1 DEF EndFlush
  <2>2. DOMAIN submitted = 1 .. Taken
    BY <1>1, <2>1 DEF Inv, TypeOK, Taken
  <2>3. PICK i \in 1 .. Taken : submitted[i] = q
    BY <1>1, <2>2 DEF Inv, OwedAccepted, Has
  <2>4. PICK w \in Workers : InFlight(w, q)
    BY <1>1, <2>3 DEF Inv, PrefixTaken
  <2> QED BY <2>1, <2>4 DEF Workers, InFlight
<1>2. Inv /\ [Next]_vars =>
        [EndFlush => \A q \in owed : Has(executed, q) \/ InFlight(DbThread, q)]_vars
  BY <1>1
<1> QED BY <1>2, InvInit, InvNext, PTL DEF Spec, Safety, FlushLeavesOnlyInFlight

(* When shutdown has returned the list is empty, and nobody can add to it. *)
THEOREM ShutdownLeavesNothing == Spec => []NothingLeftBehind
<1>1. Inv => NothingLeftBehind
  BY DEF Inv
<1> QED BY <1>1, InvInit, InvNext, PTL DEF Spec, Safety
=============================================================================
