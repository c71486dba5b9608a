--------------------------- MODULE SessionProofs ----------------------------
(***************************************************************************)
(* Theorems about Session, for any number of connections and players.      *)
(***************************************************************************)
EXTENDS Session, TLAPS

In(s, t) == \E i \in DOMAIN s : s[i] = t

(* What is known of a queue s, the connections c and the protocols r that  *)
(* have received their first message: only a closed connection has its     *)
(* release posted; a protocol logs in once, and if its connection is       *)
(* closed before that, the release comes after the login.                  *)
QueueOrdered(s, c, r) ==
    /\ \A i \in DOMAIN s, p \in Protocols :
          s[i] = Task("release", p) => c[p] \in {"closed", "gone"}
    /\ \A i \in DOMAIN s, p \in Protocols : s[i] = Task("login", p) =>
          /\ p \in r
          /\ c[p] = "open" \/ \E j \in DOMAIN s : j > i /\ s[j] = Task("release", p)
          /\ \A j \in DOMAIN s : s[j] = s[i] => j = i

(* A protocol that has not logged in yet has no player, expects none, and  *)
(* is not flushed; one that expects a player has none.                     *)
Fresh ==
    \A p \in Protocols :
        /\ conn[p] = "new" => p \notin receivedFirst
        /\ p \notin receivedFirst \/ In(queue, Task("login", p)) =>
              /\ player[p] = NoObject /\ eventConnect[p] = NoObject
              /\ p \notin acceptPackets /\ buffered[p] = 0
        /\ eventConnect[p] # NoObject => player[p] = NoObject

(* Packets are accepted on an open connection only with a player, and the  *)
(* connection whose packet is being parsed is open: close has to wait.     *)
Accepting ==
    /\ \A p \in acceptPackets : conn[p] = "open" => player[p] # NoObject
    /\ parsing # NoProtocol => conn[parsing] = "open" /\ parsing \in acceptPackets

(* A protocol is in the list of the pool once.                             *)
BufferedOnce ==
    \A p \in Protocols : /\ buffered[p] \in {0, 1}
                         /\ buffered[p] = 1 => conn[p] = "open" \/ In(queue, Task("release", p))

PoolWakes == (\E p \in Protocols : buffered[p] # 0) => sendAlls > 0

PointersAgree == \A p \in Protocols, o \in Objects : player[p] = o <=> client[o] = p

(* The inductive invariant.  The properties do not carry themselves: that  *)
(* a login finds the protocol without a player, that release does not take *)
(* the player from under parsePacket, and that a protocol put into the     *)
(* pool still has its release to come all rest on the order of the queue.  *)
Inv == /\ TypeOK /\ QueueOrdered(queue, conn, receivedFirst)
       /\ Fresh /\ Accepting /\ BufferedOnce /\ PoolWakes
       /\ PointersAgree /\ RefsExact

-----------------------------------------------------------------------------
(* The queue.                                                              *)

Ops == {"login", "release", "packet", "logout"}

LEMMA TaskFacts ==
  ASSUME NEW a \in Ops, NEW p \in Protocols
  PROVE  /\ Task(a, p) \in Tasks
         /\ \A b \in Ops, q \in Protocols : Task(a, p) = Task(b, q) => a = b /\ p = q
  BY DEF Task, Tasks, Ops

LEMMA SeqFacts ==
  ASSUME NEW S, NEW s \in Seq(S)
  PROVE  /\ Len(s) \in Nat /\ DOMAIN s = 1 .. Len(s)
         /\ \A e \in S : /\ Append(s, e) \in Seq(S)
                         /\ DOMAIN Append(s, e) = 1 .. Len(s) + 1
                         /\ \A i \in 1 .. Len(s) : Append(s, e)[i] = s[i]
                         /\ Append(s, e)[Len(s) + 1] = e
         /\ s # <<>> => /\ Tail(s) \in Seq(S) /\ Head(s) = s[1]
                        /\ 1 \in DOMAIN s /\ DOMAIN Tail(s) = 1 .. Len(s) - 1
                        /\ \A i \in 1 .. Len(s) - 1 : Tail(s)[i] = s[i + 1]
  OBVIOUS

LEMMA InAppend ==
  ASSUME NEW S, NEW s \in Seq(S), NEW e \in S, NEW t
  PROVE  In(Append(s, e), t) <=> In(s, t) \/ t = e
<1>1. /\ DOMAIN s = 1 .. Len(s) /\ DOMAIN Append(s, e) = 1 .. Len(s) + 1 /\ Len(s) \in Nat
      /\ \A i \in 1 .. Len(s) : Append(s, e)[i] = s[i]
      /\ Append(s, e)[Len(s) + 1] = e
  BY SeqFacts
<1>2. \A i \in 1 .. Len(s) + 1 : i \in 1 .. Len(s) \/ i = Len(s) + 1
  BY <1>1
<1>3. (\A i \in 1 .. Len(s) : i \in 1 .. Len(s) + 1) /\ Len(s) + 1 \in 1 .. Len(s) + 1
  BY <1>1
<1> QED BY <1>1, <1>2, <1>3 DEF In

LEMMA InTail ==
  ASSUME NEW S, NEW s \in Seq(S), s # <<>>, NEW t
  PROVE  In(s, t) <=> t = Head(s) \/ In(Tail(s), t)
<1>1. /\ Len(s) \in Nat /\ DOMAIN s = 1 .. Len(s) /\ Head(s) = s[1] /\ 1 \in DOMAIN s
      /\ DOMAIN Tail(s) = 1 .. Len(s) - 1
      /\ \A i \in 1 .. Len(s) - 1 : Tail(s)[i] = s[i + 1]
  BY SeqFacts
<1>2. ASSUME In(s, t), t # Head(s) PROVE In(Tail(s), t)
  <2>1. PICK i \in 1 .. Len(s) : s[i] = t
    BY <1>1, <1>2 DEF In
  <2>2. i - 1 \in 1 .. Len(s) - 1 /\ (i - 1) + 1 = i
    BY <1>1, <1>2, <2>1
  <2> QED BY <1>1, <2>1, <2>2 DEF In
<1>3. ASSUME In(Tail(s), t) PROVE In(s, t)
  <2>1. PICK i \in 1 .. Len(s) - 1 : Tail(s)[i] = t
    BY <1>1, <1>3 DEF In
  <2>2. i + 1 \in 1 .. Len(s)
    BY <1>1
  <2> QED BY <1>1, <2>1, <2>2 DEF In
<1> QED BY <1>1, <1>2, <1>3 DEF In

(* The dispatcher takes a task; a login is the last one of its protocol    *)
(* and comes before the release.                                           *)
LEMMA OrderedTail ==
  ASSUME NEW s \in Seq(Tasks), s # <<>>, NEW c, NEW r, QueueOrdered(s, c, r)
  PROVE  /\ Tail(s) \in Seq(Tasks) /\ QueueOrdered(Tail(s), c, r)
         /\ \A p \in Protocols : Head(s) = Task("login", p) =>
               /\ p \in r /\ ~In(Tail(s), Task("login", p))
               /\ c[p] = "open" \/ In(Tail(s), Task("release", p))
<1> DEFINE u == Tail(s)
<1>1. /\ Len(s) \in Nat /\ DOMAIN s = 1 .. Len(s) /\ Head(s) = s[1] /\ 1 \in DOMAIN s
      /\ DOMAIN u = 1 .. Len(s) - 1 /\ u \in Seq(Tasks)
      /\ \A i \in 1 .. Len(s) - 1 : u[i] = s[i + 1]
  BY SeqFacts
<1> HIDE DEF u
<1>2. \A i \in DOMAIN u : i \in Nat /\ i + 1 \in DOMAIN s /\ u[i] = s[i + 1] /\ i + 1 # 1
  BY <1>1
<1>3. \A j \in DOMAIN s : j > 1 => j - 1 \in DOMAIN u /\ (j - 1) + 1 = j /\ u[j - 1] = s[j]
  BY <1>1
<1>4. ASSUME NEW i \in DOMAIN u, NEW p \in Protocols, u[i] = Task("login", p)
      PROVE  /\ p \in r
             /\ c[p] = "open" \/ \E j \in DOMAIN u : j > i /\ u[j] = Task("release", p)
             /\ \A j \in DOMAIN u : u[j] = u[i] => j = i
  <2>1. i + 1 \in DOMAIN s /\ s[i + 1] = Task("login", p)
    BY <1>2, <1>4
  <2>2. /\ p \in r
        /\ c[p] = "open" \/ \E j \in DOMAIN s : j > i + 1 /\ s[j] = Task("release", p)
        /\ \A j \in DOMAIN s : s[j] = s[i + 1] => j = i + 1
    BY <2>1 DEF QueueOrdered
  <2>3. ASSUME NEW j \in DOMAIN s, j > i + 1, s[j] = Task("release", p)
        PROVE  \E k \in DOMAIN u : k > i /\ u[k] = Task("release", p)
    <3>1. j > 1 /\ j - 1 > i
      BY <1>1, <1>2, <2>3
    <3> QED BY <1>3, <2>3, <3>1
  <2>4. ASSUME NEW j \in DOMAIN u, u[j] = u[i] PROVE j = i
    <3>1. j + 1 = i + 1
      BY <1>2, <2>1, <2>2, <2>4
    <3> QED BY <1>2, <3>1
  <2> QED BY <2>2, <2>3, <2>4
<1>5. QueueOrdered(u, c, r)
  BY <1>2, <1>4 DEF QueueOrdered
<1>6. ASSUME NEW p \in Protocols, Head(s) = Task("login", p)
      PROVE  /\ p \in r /\ ~In(u, Task("login", p))
             /\ c[p] = "open" \/ In(u, Task("release", p))
  <2>1. 1 \in DOMAIN s /\ s[1] = Task("login", p)
    BY <1>1, <1>6
  <2>2. /\ p \in r
        /\ c[p] = "open" \/ \E j \in DOMAIN s : j > 1 /\ s[j] = Task("release", p)
        /\ \A j \in DOMAIN s : s[j] = s[1] => j = 1
    BY <2>1 DEF QueueOrdered
  <2> QED BY <1>2, <1>3, <2>1, <2>2 DEF In
<1> QED BY <1>1, <1>5, <1>6 DEF u

(* A task that is no login is posted, and a connection changes: it may     *)
(* be closed only together with the release.                               *)
LEMMA OrderedAppend ==
  ASSUME NEW s \in Seq(Tasks), NEW c, NEW d, NEW r, QueueOrdered(s, c, r),
         NEW a \in Ops \ {"login"}, NEW q \in Protocols,
         \A p \in Protocols : c[p] \in {"closed", "gone"} => d[p] \in {"closed", "gone"},
         \A p \in Protocols : c[p] = "open" => d[p] = "open" \/ (p = q /\ a = "release"),
         a = "release" => d[q] \in {"closed", "gone"}
  PROVE  QueueOrdered(Append(s, Task(a, q)), d, r)
<1> DEFINE e == Task(a, q)
           u == Append(s, e)
<1>1. /\ e \in Tasks /\ \A p \in Protocols : e # Task("login", p)
      /\ \A p \in Protocols : e = Task("release", p) => a = "release" /\ p = q
  BY TaskFacts DEF Ops
<1>2. /\ DOMAIN s = 1 .. Len(s) /\ DOMAIN u = 1 .. Len(s) + 1 /\ Len(s) \in Nat
      /\ \A i \in 1 .. Len(s) : u[i] = s[i]
      /\ u[Len(s) + 1] = e
  BY <1>1, SeqFacts
<1> DEFINE n == Len(s) + 1
<1>3. /\ \A i \in DOMAIN u : i \in DOMAIN s \/ i = n
      /\ \A i \in DOMAIN s : i \in DOMAIN u /\ n > i /\ u[i] = s[i]
      /\ n \in DOMAIN u /\ u[n] = e
  BY <1>2
<1> HIDE DEF u, n, e
<1>4. ASSUME NEW i \in DOMAIN u, NEW p \in Protocols, u[i] = Task("release", p)
      PROVE  d[p] \in {"closed", "gone"}
  BY <1>1, <1>3, <1>4 DEF QueueOrdered
<1>5. ASSUME NEW i \in DOMAIN u, NEW p \in Protocols, u[i] = Task("login", p)
      PROVE  /\ p \in r
             /\ d[p] = "open" \/ \E j \in DOMAIN u : j > i /\ u[j] = Task("release", p)
             /\ \A j \in DOMAIN u : u[j] = u[i] => j = i
  <2>1. i \in DOMAIN s /\ s[i] = Task("login", p)
    BY <1>1, <1>3, <1>5
  <2>2. /\ p \in r
        /\ c[p] = "open" \/ \E j \in DOMAIN s : j > i /\ s[j] = Task("release", p)
        /\ \A j \in DOMAIN s : s[j] = s[i] => j = i
    BY <2>1 DEF QueueOrdered
  <2>3. \A j \in DOMAIN u : u[j] = u[i] => j = i
    BY <1>1, <1>3, <1>5, <2>1, <2>2
  <2>4. d[p] = "open" \/ \E j \in DOMAIN u : j > i /\ u[j] = Task("release", p)
    BY <1>3, <2>1, <2>2 DEF e
  <2> QED BY <2>2, <2>3, <2>4
<1> QED BY <1>4, <1>5 DEF QueueOrdered, u, e

(* A connection changes, and is not closed.                                *)
LEMMA OrderedConn ==
  ASSUME NEW s \in Seq(Tasks), NEW c, NEW d, NEW r, QueueOrdered(s, c, r),
         \A p \in Protocols : c[p] \in {"closed", "gone"} => d[p] \in {"closed", "gone"},
         \A p \in Protocols : c[p] = "open" => d[p] = "open"
  PROVE  QueueOrdered(s, d, r)
  BY DEF QueueOrdered

(* The login is posted when the first message has come.                    *)
LEMMA OrderedLogin ==
  ASSUME NEW s \in Seq(Tasks), NEW c, NEW r, QueueOrdered(s, c, r),
         NEW q \in Protocols, q \notin r, c[q] = "open"
  PROVE  QueueOrdered(Append(s, Task("login", q)), c, r \union {q})
<1> DEFINE e == Task("login", q)
           u == Append(s, e)
           n == Len(s) + 1
<1>1. /\ e \in Tasks /\ \A p \in Protocols : e # Task("release", p)
      /\ \A p \in Protocols : e = Task("login", p) => p = q
  BY TaskFacts DEF Ops
<1>2. /\ DOMAIN s = 1 .. Len(s) /\ DOMAIN u = 1 .. Len(s) + 1 /\ Len(s) \in Nat
      /\ \A i \in 1 .. Len(s) : u[i] = s[i]
      /\ u[Len(s) + 1] = e
  BY <1>1, SeqFacts
<1>3. /\ \A i \in DOMAIN u : i \in DOMAIN s \/ i = n
      /\ \A i \in DOMAIN s : i \in DOMAIN u /\ n > i /\ u[i] = s[i]
      /\ n \in DOMAIN u /\ u[n] = e
  BY <1>2
<1> HIDE DEF u, n, e
<1>4. \A i \in DOMAIN s : s[i] # e
  BY DEF QueueOrdered, e
<1>5. ASSUME NEW i \in DOMAIN u, NEW p \in Protocols, u[i] = Task("release", p)
      PROVE  c[p] \in {"closed", "gone"}
  BY <1>1, <1>3, <1>5 DEF QueueOrdered
<1>6. ASSUME NEW i \in DOMAIN u, NEW p \in Protocols, u[i] = Task("login", p)
      PROVE  /\ p \in r \union {q}
             /\ c[p] = "open" \/ \E j \in DOMAIN u : j > i /\ u[j] = Task("release", p)
             /\ \A j \in DOMAIN u : u[j] = u[i] => j = i
  <2>1. CASE i = n
    BY <1>1, <1>3, <1>4, <1>6, <2>1
  <2>2. CASE i \in DOMAIN s
    <3>1. /\ s[i] = Task("login", p) /\ p \in r
          /\ c[p] = "open" \/ \E j \in DOMAIN s : j > i /\ s[j] = Task("release", p)
          /\ \A j \in DOMAIN s : s[j] = s[i] => j = i
      BY <1>3, <1>6, <2>2 DEF QueueOrdered
    <3>2. c[p] = "open" \/ \E j \in DOMAIN u : j > i /\ u[j] = Task("release", p)
      BY <1>3, <3>1
    <3>3. \A j \in DOMAIN u : u[j] = u[i] => j = i
      BY <1>3, <1>4, <2>2, <3>1
    <3> QED BY <3>1, <3>2, <3>3
  <2> QED BY <1>3, <2>1, <2>2
<1> QED BY <1>5, <1>6 DEF QueueOrdered, u, e

-----------------------------------------------------------------------------
(* The network and the queue in one step.                                  *)

(* The queue as a handler goes on with it: all of it, or what is left of   *)
(* it when a task other than a release has been taken.                     *)
RestFits(rest) ==
    /\ rest \in Seq(Tasks) /\ QueueOrdered(rest, conn, receivedFirst)
    /\ \A q \in Protocols :
          /\ In(rest, Task("login", q)) => In(queue, Task("login", q))
          /\ In(queue, Task("release", q)) => In(rest, Task("release", q))

(* A step that posts no login and runs no release: an open connection is   *)
(* closed only if it is not being read from, and its release is posted.    *)
NetworkFits ==
    /\ conn' \in [Protocols -> {"new", "open", "closed", "gone"}]
    /\ closes' \in [Protocols -> Nat] /\ queue' \in Seq(Tasks)
    /\ QueueOrdered(queue', conn', receivedFirst)
    /\ \A q \in Protocols :
          /\ conn'[q] = "new" => conn[q] = "new"
          /\ conn'[q] = "open" => conn[q] \in {"open", "new"}
          /\ conn[q] = "open" => \/ conn'[q] = "open"
                                 \/ parsing # q /\ In(queue', Task("release", q))
          /\ In(queue', Task("login", q)) => In(queue, Task("login", q))
          /\ In(queue, Task("release", q)) => In(queue', Task("release", q))

LEMMA WholeQueueFits ==
  ASSUME Inv PROVE RestFits(queue)
  BY DEF Inv, TypeOK, RestFits

(* The queue when a task has been taken that is no release.                *)
LEMMA TakenFits ==
  ASSUME Inv, NEW a \in Ops \ {"release"}, NEW p \in Protocols, Runs(a, p)
  PROVE  /\ RestFits(Tail(queue))
         /\ a = "login" => /\ p \in receivedFirst /\ ~In(Tail(queue), Task("login", p))
                           /\ In(queue, Task("login", p))
                           /\ conn[p] = "open" \/ In(Tail(queue), Task("release", p))
<1>1. queue \in Seq(Tasks) /\ queue # <<>> /\ Head(queue) = Task(a, p)
      /\ QueueOrdered(queue, conn, receivedFirst)
  BY DEF Inv, TypeOK, Runs
<1>2. /\ Tail(queue) \in Seq(Tasks) /\ QueueOrdered(Tail(queue), conn, receivedFirst)
      /\ Head(queue) = Task("login", p) =>
               /\ p \in receivedFirst /\ ~In(Tail(queue), Task("login", p))
               /\ conn[p] = "open" \/ In(Tail(queue), Task("release", p))
  BY <1>1, OrderedTail
<1>3. \A t : In(queue, t) <=> t = Task(a, p) \/ In(Tail(queue), t)
  BY <1>1, InTail
<1>4. \A q \in Protocols : Task(a, p) # Task("release", q)
  BY TaskFacts DEF Ops
<1> QED BY <1>1, <1>2, <1>3, <1>4 DEF RestFits

(* Connection::close and Protocol::disconnect.                             *)
LEMMA CloseFits ==
  ASSUME Inv, NEW p \in Protocols, NEW rest, RestFits(rest),
         \/ Disconnect(p, rest) \/ KeepConnections(rest)
         \/ conn[p] # "gone" /\ Close(p, rest)
  PROVE  /\ NetworkFits
         /\ \A q \in Protocols :
               /\ In(queue', Task("login", q)) => In(rest, Task("login", q))
               /\ In(rest, Task("release", q)) => In(queue', Task("release", q))
<1>1. /\ conn \in [Protocols -> {"new", "open", "closed", "gone"}]
      /\ closes \in [Protocols -> Nat]
  BY DEF Inv, TypeOK
<1>2. CASE KeepConnections(rest)
  BY <1>1, <1>2 DEF KeepConnections, RestFits, NetworkFits
<1>3. CASE conn[p] # "gone" /\ Close(p, rest)
  <2> DEFINE e == Task("release", p)
  <2>1. /\ parsing # p /\ conn' = [conn EXCEPT ![p] = "closed"]
        /\ closes' = [closes EXCEPT ![p] = @ + 1] /\ queue' = Append(rest, e)
    BY <1>3 DEF Close
  <2>2. e \in Tasks /\ \A q \in Protocols : /\ e # Task("login", q)
                                            /\ e = Task("release", q) => q = p
    BY TaskFacts DEF Ops
  <2>3. /\ conn'[p] = "closed" /\ \A q \in Protocols \ {p} : conn'[q] = conn[q]
        /\ conn' \in [Protocols -> {"new", "open", "closed", "gone"}]
    BY <1>1, <2>1
  <2>4. closes' \in [Protocols -> Nat]
    BY <1>1, <2>1
  <2>5. \A t : In(queue', t) <=> In(rest, t) \/ t = e
    BY <2>1, <2>2, InAppend DEF RestFits
  <2>6. queue' \in Seq(Tasks)
    BY <2>1, <2>2, SeqFacts DEF RestFits
  <2>7. QueueOrdered(queue', conn', receivedFirst)
    <3>1. \A q \in Protocols : conn[q] \in {"closed", "gone"} => conn'[q] \in {"closed", "gone"}
      BY <2>3
    <3>2. \A q \in Protocols : conn[q] = "open" => conn'[q] = "open" \/ q = p
      BY <2>3
    <3>3. "release" \in Ops \ {"login"}
      BY DEF Ops
    <3> QED BY <2>1, <2>3, <3>1, <3>2, <3>3, OrderedAppend DEF RestFits
  <2> HIDE DEF e
  <2>8. \A q \in Protocols :
           /\ In(queue', Task("login", q)) => In(rest, Task("login", q))
           /\ In(rest, Task("release", q)) => In(queue', Task("release", q))
    BY <2>2, <2>5
  <2>9. In(queue', Task("release", p))
    BY <2>5 DEF e
  <2> QED BY <2>1, <2>3, <2>4, <2>6, <2>7, <2>8, <2>9 DEF NetworkFits, RestFits
<1>4. CASE Disconnect(p, rest)
  BY <1>2, <1>3, <1>4 DEF Disconnect
<1> QED BY <1>2, <1>3, <1>4

(* Steps of the network and of the Game that leave the protocols alone.    *)
LEMMA NetworkInv ==
  ASSUME Inv, NetworkFits, UNCHANGED <<receivedFirst, parsing, session, output>>
  PROVE  /\ QueueOrdered(queue, conn, receivedFirst)' /\ Fresh' /\ Accepting' /\ BufferedOnce'
         /\ PoolWakes'
<1> USE DEF session, output
<1>1. QueueOrdered(queue, conn, receivedFirst)'
  BY DEF NetworkFits, QueueOrdered
<1>2. \A q \in Protocols : /\ In(queue, Task("login", q))' <=> In(queue', Task("login", q))
                           /\ In(queue, Task("release", q))' <=> In(queue', Task("release", q))
  BY DEF In, Task
<1>3. Fresh'
  BY <1>2 DEF Inv, Fresh, NetworkFits
<1>4. Accepting'
  <2>1. \A p \in acceptPackets : p \in Protocols /\ conn[p] # "new"
    BY DEF Inv, TypeOK, Fresh
  <2> QED BY <2>1 DEF Inv, TypeOK, Accepting, NetworkFits
<1>5. BufferedOnce'
  BY <1>2 DEF Inv, BufferedOnce, NetworkFits
<1>6. PoolWakes'
  BY DEF Inv, PoolWakes
<1> QED BY <1>1, <1>3, <1>4, <1>5, <1>6

(* The rest of the types.                                                  *)
PlayersTyped ==
    /\ object \in [Objects -> {"unused", "loaded", "online", "removed", "deleted"}]
    /\ client \in [Objects -> Protocols \union {NoProtocol}]
    /\ isConnecting \subseteq Objects
    /\ refs \in [Objects -> Nat]
    /\ checked \subseteq Objects
    /\ toRelease \in [Objects -> Nat]

(* Put together for a step that leaves the protocols alone.                *)
LEMMA GameStepInv ==
  ASSUME Inv, NetworkFits, UNCHANGED <<receivedFirst, parsing, session, output>>,
         PlayersTyped', PointersAgree', RefsExact'
  PROVE  Inv'
<1>1. TypeOK'
  BY DEF Inv, TypeOK, NetworkFits, PlayersTyped, session, output
<1> QED BY <1>1, NetworkInv DEF Inv

(* A step of the network alone.                                            *)
LEMMA NetworkStepInv ==
  ASSUME Inv, NetworkFits, UNCHANGED <<receivedFirst, parsing, session, players, output>>
  PROVE  Inv'
<1>1. PlayersTyped' /\ PointersAgree' /\ RefsExact'
  BY DEF Inv, TypeOK, PlayersTyped, PointersAgree, RefsExact, players, session
<1> QED BY <1>1, GameStepInv

-----------------------------------------------------------------------------
(* The network thread.                                                     *)

LEMMA ConnectionInv ==
  ASSUME Inv, NEW p \in Protocols,
         Accept(p) \/ NetworkCloses(p) \/ ConnectionDestroyed(p)
  PROVE  Inv'
<1>1. /\ conn \in [Protocols -> {"new", "open", "closed", "gone"}]
      /\ closes \in [Protocols -> Nat] /\ queue \in Seq(Tasks)
      /\ QueueOrdered(queue, conn, receivedFirst)
  BY DEF Inv, TypeOK
<1>2. ASSUME NEW state \in {"open", "gone"}, conn' = [conn EXCEPT ![p] = state],
             conn[p] = IF state = "open" THEN "new" ELSE "closed",
             UNCHANGED <<closes, receivedFirst, parsing, queue, session, players, output>>
      PROVE  Inv'
  <2>1. /\ conn'[p] = state /\ \A q \in Protocols \ {p} : conn'[q] = conn[q]
        /\ conn' \in [Protocols -> {"new", "open", "closed", "gone"}]
    BY <1>1, <1>2
  <2>2. QueueOrdered(queue, conn', receivedFirst)
    BY <1>1, <1>2, <2>1, OrderedConn
  <2>3. NetworkFits
    BY <1>1, <1>2, <2>1, <2>2 DEF NetworkFits
  <2> QED BY <1>2, <2>3, NetworkStepInv
<1>3. CASE Accept(p)
  BY <1>2, <1>3 DEF Accept
<1>4. CASE ConnectionDestroyed(p)
  BY <1>2, <1>4 DEF ConnectionDestroyed
<1>5. CASE NetworkCloses(p)
  BY <1>5, WholeQueueFits, CloseFits, NetworkStepInv DEF NetworkCloses
<1> QED BY <1>3, <1>4, <1>5

LEMMA FirstMessageInv ==
  ASSUME Inv, NEW p \in Protocols, OnRecvFirstMessage(p)
  PROVE  Inv'
<1> USE DEF session, players, output
<1>1. /\ TypeOK /\ QueueOrdered(queue, conn, receivedFirst) /\ Fresh /\ Accepting
      /\ BufferedOnce /\ PoolWakes
  BY DEF Inv
<1>2. /\ parsing = NoProtocol /\ conn[p] = "open" /\ p \notin receivedFirst
      /\ receivedFirst' = receivedFirst \union {p}
      /\ \/ KeepConnections(Append(queue, Task("login", p)))
         \/ Close(p, queue)
      /\ UNCHANGED <<parsing, session, players, output>>
  BY DEF OnRecvFirstMessage
<1>3. PointersAgree' /\ RefsExact' /\ PoolWakes'
  BY <1>2 DEF Inv, PointersAgree, RefsExact, PoolWakes
<1>4. \A q \in Protocols : /\ In(queue, Task("login", q))' <=> In(queue', Task("login", q))
                           /\ In(queue, Task("release", q))' <=> In(queue', Task("release", q))
  BY DEF In, Task
<1>5. CASE KeepConnections(Append(queue, Task("login", p)))
  <2> DEFINE e == Task("login", p)
  <2>1. queue' = Append(queue, e) /\ UNCHANGED <<conn, closes>>
    BY <1>5 DEF KeepConnections
  <2>2. e \in Tasks /\ \A q \in Protocols : /\ e # Task("release", q)
                                            /\ e = Task("login", q) => q = p
    BY TaskFacts DEF Ops
  <2>3. QueueOrdered(queue', conn, receivedFirst')
    BY <1>1, <1>2, <2>1, OrderedLogin DEF TypeOK
  <2>4. queue' \in Seq(Tasks) /\ \A t : In(queue', t) <=> In(queue, t) \/ t = e
    BY <1>1, <2>1, <2>2, SeqFacts, InAppend DEF TypeOK
  <2>5. TypeOK'
    BY <1>1, <1>2, <2>1, <2>4 DEF TypeOK
  <2>6. QueueOrdered(queue, conn, receivedFirst)'
    BY <2>1, <2>3 DEF QueueOrdered
  <2> HIDE DEF e
  <2>7. Fresh'
    BY <1>1, <1>2, <1>4, <2>1, <2>2, <2>4 DEF Fresh
  <2>8. Accepting' /\ BufferedOnce'
    BY <1>1, <1>2, <1>4, <2>1, <2>4 DEF Accepting, BufferedOnce
  <2> QED BY <1>3, <2>5, <2>6, <2>7, <2>8 DEF Inv
<1>6. CASE Close(p, queue)
  <2>1. NetworkFits
    BY <1>2, <1>6, WholeQueueFits, CloseFits
  <2>2. TypeOK'
    BY <1>1, <1>2, <2>1 DEF TypeOK, NetworkFits
  <2>3. QueueOrdered(queue, conn, receivedFirst)'
    BY <1>2, <2>1 DEF NetworkFits, QueueOrdered
  <2>4. Fresh'
    BY <1>1, <1>2, <1>4, <2>1 DEF Fresh, NetworkFits
  <2>5. Accepting'
    <3>1. \A q \in acceptPackets : q \in Protocols /\ conn[q] # "new"
      BY <1>1 DEF TypeOK, Fresh
    <3> QED BY <1>1, <1>2, <2>1, <3>1 DEF Accepting, NetworkFits
  <2>6. BufferedOnce'
    BY <1>1, <1>2, <1>4, <2>1 DEF BufferedOnce, NetworkFits
  <2> QED BY <1>3, <2>2, <2>3, <2>4, <2>5, <2>6 DEF Inv
<1> QED BY <1>2, <1>5, <1>6

(* parsePacket, both of its halves.                                        *)
LEMMA ParsePacketInv ==
  ASSUME Inv, NEW p \in Protocols, ParsePacket(p) \/ ParsePacketPosts(p)
  PROVE  Inv'
<1> USE DEF session, players, output
<1>1. /\ TypeOK /\ QueueOrdered(queue, conn, receivedFirst) /\ Fresh /\ Accepting
      /\ BufferedOnce /\ PoolWakes
  BY DEF Inv
<1>2. ASSUME Len(queue) < MaxTasks, parsing' = p, conn[p] = "open", p \in acceptPackets,
             KeepConnections(queue), UNCHANGED <<receivedFirst, session, players, output>>
      PROVE  Inv'
  <2>1. UNCHANGED <<queue, conn, closes>>
    BY <1>2 DEF KeepConnections
  <2>2. TypeOK' /\ Accepting' /\ QueueOrdered(queue, conn, receivedFirst)'
    BY <1>1, <1>2, <2>1 DEF TypeOK, Accepting, QueueOrdered
  <2>3. Fresh' /\ BufferedOnce' /\ PoolWakes'
    BY <1>1, <1>2, <2>1 DEF Fresh, BufferedOnce, PoolWakes, In
  <2>4. PointersAgree' /\ RefsExact'
    BY <1>2 DEF Inv, PointersAgree, RefsExact
  <2> QED BY <2>2, <2>3, <2>4 DEF Inv
<1>3. ASSUME conn[p] = "open", Close(p, queue),
             UNCHANGED <<receivedFirst, parsing, session, players, output>>
      PROVE  Inv'
  BY <1>3, WholeQueueFits, CloseFits, NetworkStepInv
<1>4. CASE ParsePacket(p)
  BY <1>2, <1>3, <1>4 DEF ParsePacket
<1>5. CASE ParsePacketPosts(p)
  <2> DEFINE e == Task("packet", p)
  <2>1. /\ parsing' = NoProtocol /\ queue' = Append(queue, e)
        /\ UNCHANGED <<conn, closes, receivedFirst, session, players, output>>
    BY <1>5 DEF ParsePacketPosts
  <2>2. e \in Tasks /\ \A q \in Protocols : e # Task("release", q) /\ e # Task("login", q)
    BY TaskFacts DEF Ops
  <2>3. queue' \in Seq(Tasks) /\ \A t : In(queue', t) <=> In(queue, t) \/ t = e
    BY <1>1, <2>1, <2>2, SeqFacts, InAppend DEF TypeOK
  <2>4. QueueOrdered(queue', conn, receivedFirst)
    <3>1. "packet" \in Ops \ {"login"} /\ "packet" # "release"
      BY DEF Ops
    <3> QED BY <1>1, <2>1, <3>1, OrderedAppend DEF TypeOK
  <2>5. QueueOrdered(queue, conn, receivedFirst)' /\ TypeOK'
    BY <1>1, <2>1, <2>3, <2>4 DEF QueueOrdered, TypeOK
  <2>6. \A q \in Protocols : /\ In(queue, Task("login", q))' <=> In(queue, Task("login", q))
                             /\ In(queue, Task("release", q))' <=> In(queue, Task("release", q))
    <3>1. \A t : In(queue', t) <=> \E i \in DOMAIN queue' : queue'[i] = t
      BY DEF In
    <3>2. \A q \in Protocols : /\ In(queue, Task("login", q))' <=> In(queue', Task("login", q))
                               /\ In(queue, Task("release", q))' <=> In(queue', Task("release", q))
      BY DEF In, Task
    <3> HIDE DEF e
    <3> QED BY <2>2, <2>3, <3>2
  <2>7. Fresh' /\ Accepting' /\ BufferedOnce' /\ PoolWakes'
    BY <1>1, <2>1, <2>6 DEF Fresh, Accepting, BufferedOnce, PoolWakes
  <2>8. PointersAgree' /\ RefsExact'
    BY <2>1 DEF Inv, PointersAgree, RefsExact
  <2> QED BY <2>5, <2>7, <2>8 DEF Inv
<1> QED BY <1>4, <1>5

-----------------------------------------------------------------------------
(* The Game.                                                               *)

(* Game::removeCreature.                                                   *)
LEMMA RemovedFits ==
  ASSUME Inv, NEW o \in Objects, object[o] = "online", Removed(o), UNCHANGED player
  PROVE  PlayersTyped' /\ PointersAgree' /\ RefsExact'
<1>1. TypeOK /\ PointersAgree /\ RefsExact
  BY DEF Inv
<1>2. /\ object' = [object EXCEPT ![o] = "removed"]
      /\ toRelease' = [toRelease EXCEPT ![o] = @ + 1]
      /\ UNCHANGED <<client, isConnecting, refs, checked>>
  BY DEF Removed
<1>3. /\ object'[o] = "removed" /\ toRelease'[o] = toRelease[o] + 1 /\ toRelease[o] \in Nat
      /\ \A x \in Objects \ {o} : object'[x] = object[x] /\ toRelease'[x] = toRelease[x]
  BY <1>1, <1>2 DEF TypeOK
<1>4. PlayersTyped'
  BY <1>1, <1>2 DEF TypeOK, PlayersTyped
<1>5. PointersAgree'
  BY <1>1, <1>2 DEF PointersAgree
<1>6. RefsExact'
  <2> SUFFICES ASSUME NEW x \in Objects
               PROVE  /\ refs[x] = (IF client[x] # NoProtocol THEN 1 ELSE 0)
                                     + (IF object'[x] = "online" THEN 1 ELSE 0)
                                     + (IF x \in checked THEN 1 ELSE 0) + toRelease'[x]
                      /\ refs[x] = 0 <=> object'[x] \in {"unused", "deleted"}
    BY <1>2 DEF RefsExact
  <2>1. CASE x = o
    BY <1>1, <1>3, <2>1 DEF RefsExact
  <2>2. CASE x # o
    BY <1>1, <1>3, <2>2 DEF RefsExact
  <2> QED BY <2>1, <2>2
<1> QED BY <1>4, <1>5, <1>6

(* Game::checkCreatures and cleanup.                                       *)
LEMMA CheckFits ==
  ASSUME Inv, NEW leaving \in SUBSET Objects, \A o \in leaving : object[o] = "online",
         CheckCreatures(leaving), UNCHANGED player
  PROVE  PlayersTyped' /\ PointersAgree' /\ RefsExact'
<1> DEFINE left == {o \in checked : object[o] # "online"}
           dropped(o) == toRelease[o] + (IF o \in left THEN 1 ELSE 0)
                                      + (IF o \in leaving THEN 1 ELSE 0)
<1>1. TypeOK /\ PointersAgree /\ RefsExact
  BY DEF Inv
<1>2. /\ checked' = checked \ left
      /\ toRelease' = [o \in Objects |-> 0]
      /\ refs' = [o \in Objects |-> refs[o] - dropped(o)]
      /\ object' = [o \in Objects |->
                      IF dropped(o) > 0 /\ refs[o] = dropped(o) THEN "deleted"
                      ELSE IF o \in leaving THEN "removed"
                      ELSE object[o]]
      /\ UNCHANGED <<client, isConnecting>>
  BY DEF CheckCreatures
<1>3. ASSUME NEW o \in Objects
      PROVE  /\ refs'[o] \in Nat
             /\ refs'[o] = (IF client[o] # NoProtocol THEN 1 ELSE 0)
                             + (IF object'[o] = "online" THEN 1 ELSE 0)
                             + (IF o \in checked' THEN 1 ELSE 0) + toRelease'[o]
             /\ refs'[o] = 0 <=> object'[o] \in {"unused", "deleted"}
  <2>1. /\ toRelease[o] \in Nat /\ refs[o] \in Nat /\ toRelease'[o] = 0
        /\ refs[o] = (IF client[o] # NoProtocol THEN 1 ELSE 0)
                       + (IF object[o] = "online" THEN 1 ELSE 0)
                       + (IF o \in checked THEN 1 ELSE 0) + toRelease[o]
        /\ refs[o] = 0 <=> object[o] \in {"unused", "deleted"}
    BY <1>1, <1>2 DEF TypeOK, RefsExact
  <2>2. PICK d \in Nat : d = dropped(o)
    BY <2>1
  <2>3. /\ refs'[o] = refs[o] - d
        /\ object'[o] = IF d > 0 /\ refs[o] = d THEN "deleted"
                        ELSE IF o \in leaving THEN "removed" ELSE object[o]
        /\ o \in checked' <=> o \in checked /\ object[o] = "online"
    BY <1>2, <2>2
  <2>4. d = toRelease[o] + (IF o \in checked /\ object[o] # "online" THEN 1 ELSE 0)
                         + (IF o \in leaving THEN 1 ELSE 0)
    BY <2>2
  <2>5. o \in leaving => object[o] = "online"
    OBVIOUS
  <2> HIDE DEF dropped, left
  <2>6. PICK n \in Nat, m \in Nat :
            /\ n = IF client[o] # NoProtocol THEN 1 ELSE 0
            /\ m = IF o \in checked' THEN 1 ELSE 0
    OBVIOUS
  <2>7. CASE o \in leaving
    <3>1. object[o] = "online" /\ (o \in checked <=> o \in checked')
      BY <2>3, <2>7
    <3>2. d = toRelease[o] + 1 /\ refs[o] = n + 1 + m + toRelease[o]
      BY <2>1, <2>4, <2>6, <2>7, <3>1
    <3>3. /\ d > 0 /\ refs'[o] = n + m /\ refs'[o] \in Nat
          /\ refs[o] = d <=> n + m = 0
      BY <2>1, <2>3, <3>2
    <3>4. object'[o] = IF n + m = 0 THEN "deleted" ELSE "removed"
      BY <2>3, <2>7, <3>3
    <3>5. object'[o] # "online" /\ (refs'[o] = 0 <=> object'[o] \in {"unused", "deleted"})
      BY <3>3, <3>4
    <3>6. n + 0 + m + 0 = n + m
      OBVIOUS
    <3> QED BY <2>1, <2>6, <3>3, <3>5, <3>6
  <2>8. CASE o \notin leaving
    <3>1. CASE object[o] = "online"
      <4>1. o \in checked <=> o \in checked'
        BY <2>3, <3>1
      <4>2. d = toRelease[o] /\ refs[o] = n + 1 + m + toRelease[o]
        BY <2>1, <2>4, <2>6, <2>8, <3>1, <4>1
      <4>3. refs'[o] = n + 1 + m + 0 /\ refs[o] # d /\ refs'[o] \in Nat /\ refs'[o] # 0
        BY <2>1, <2>3, <4>2
      <4>4. object'[o] = "online"
        BY <2>3, <2>8, <3>1, <4>3
      <4> QED BY <2>1, <2>6, <4>3, <4>4
    <3>2. CASE object[o] # "online"
      <4>1. o \notin checked' /\ m = 0
        BY <2>3, <2>6, <3>2
      <4>2. PICK k \in Nat : k = IF o \in checked THEN 1 ELSE 0
        OBVIOUS
      <4>3. d = toRelease[o] + k /\ refs[o] = n + k + toRelease[o]
        BY <2>1, <2>4, <2>6, <2>8, <3>2, <4>2
      <4>4. /\ refs'[o] = n + 0 + 0 + 0 /\ refs'[o] \in Nat
            /\ refs[o] = d <=> refs'[o] = 0
            /\ ~(d > 0) => refs'[o] = refs[o]
        BY <2>1, <2>3, <4>3
      <4>5. object'[o] = IF d > 0 /\ refs'[o] = 0 THEN "deleted" ELSE object[o]
        BY <2>3, <2>8, <4>4
      <4>6. object'[o] # "online"
        BY <3>2, <4>5
      <4>7. refs'[o] = 0 <=> object'[o] \in {"unused", "deleted"}
        <5>1. CASE d > 0 /\ refs'[o] = 0
          BY <4>5, <5>1
        <5>2. CASE ~(d > 0)
          BY <2>1, <4>4, <4>5, <5>2
        <5>3. CASE refs'[o] # 0
          <6>1. refs[o] # 0
            BY <2>1, <2>2, <2>3, <4>4, <5>3
          <6> QED BY <2>1, <4>5, <5>3, <6>1
        <5> QED BY <5>1, <5>2, <5>3
      <4> QED BY <2>1, <2>6, <4>1, <4>4, <4>6, <4>7
    <3> QED BY <3>1, <3>2
  <2> QED BY <2>7, <2>8
<1>4. PlayersTyped'
  <2>1. refs' \in [Objects -> Nat] /\ toRelease' \in [Objects -> Nat]
    BY <1>2, <1>3
  <2> QED BY <1>1, <1>2, <2>1 DEF TypeOK, PlayersTyped
<1>5. PointersAgree'
  BY <1>1, <1>2 DEF PointersAgree
<1>6. RefsExact'
  BY <1>2, <1>3 DEF RefsExact
<1> QED BY <1>4, <1>5, <1>6

LEMMA GameInv ==
  ASSUME Inv, \/ CheckNobody
              \/ \E o \in Objects : Death(o) \/ Kick(o)
              \/ \E o \in Objects, idle \in BOOLEAN : CheckPlayer(o, idle)
  PROVE  Inv'
<1>1. CASE CheckNobody
  <2>1. NetworkFits
    BY <1>1, WholeQueueFits, CloseFits, SessionAssumption
       DEF CheckNobody, network, NetworkFits, Inv, TypeOK
  <2>2. PlayersTyped' /\ PointersAgree' /\ RefsExact'
    BY <1>1, CheckFits DEF CheckNobody, session
  <2> QED BY <1>1, <2>1, <2>2, GameStepInv DEF CheckNobody, network
<1>2. ASSUME NEW o \in Objects, Death(o) PROVE Inv'
  <2>1. NetworkFits
    BY <1>2 DEF Death, network, NetworkFits, Inv, TypeOK
  <2>2. PlayersTyped' /\ PointersAgree' /\ RefsExact'
    BY <1>2, RemovedFits DEF Death, session
  <2> QED BY <1>2, <2>1, <2>2, GameStepInv DEF Death, network
<1>3. ASSUME NEW o \in Objects, Kick(o) PROVE Inv'
  <2>1. /\ object[o] = "online" /\ UNCHANGED <<receivedFirst, parsing, session, output>>
        /\ player' = player /\ client[o] \in Protocols \union {NoProtocol}
    BY <1>3 DEF Kick, session, Inv, TypeOK
  <2>2. CASE client[o] = NoProtocol
    <3>1. Removed(o) /\ KeepConnections(queue)
      BY <1>3, <2>2 DEF Kick
    <3>2. NetworkFits
      BY <3>1 DEF KeepConnections, NetworkFits, Inv, TypeOK
    <3> QED BY <2>1, <3>1, <3>2, RemovedFits, GameStepInv
  <2>3. CASE client[o] # NoProtocol
    <3>1. client[o] \in Protocols /\ player[client[o]] = o
      BY <2>1, <2>3 DEF Inv, PointersAgree
    <3>2. Removed(o) /\ Disconnect(client[o], queue)
      BY <1>3, <2>1, <2>3, <3>1 DEF Kick, LeaveGame
    <3>3. NetworkFits
      BY <3>1, <3>2, WholeQueueFits, CloseFits
    <3> QED BY <2>1, <3>2, <3>3, RemovedFits, GameStepInv
  <2> QED BY <2>2, <2>3
<1>4. ASSUME NEW o \in Objects, NEW idle \in BOOLEAN, CheckPlayer(o, idle) PROVE Inv'
  <2>1. /\ object[o] = "online" /\ UNCHANGED <<receivedFirst, parsing, session, output>>
        /\ player' = player /\ client[o] \in Protocols \union {NoProtocol}
        /\ CheckCreatures({o})
    BY <1>4 DEF CheckPlayer, LeavesOnThink, IdleForLong, LostOnPing, session, Inv, TypeOK
  <2>2. NetworkFits
    <3>1. CASE client[o] = NoProtocol
      BY <1>4, <3>1 DEF CheckPlayer, KeepConnections, NetworkFits, Inv, TypeOK
    <3>2. CASE client[o] # NoProtocol
      BY <1>4, <2>1, <3>2, WholeQueueFits, CloseFits DEF CheckPlayer
    <3> QED BY <3>1, <3>2
  <2>3. PlayersTyped' /\ PointersAgree' /\ RefsExact'
    <3>1. {o} \in SUBSET Objects /\ \A x \in {o} : object[x] = "online"
      BY <2>1
    <3> QED BY <2>1, <3>1, CheckFits
  <2> QED BY <2>1, <2>2, <2>3, GameStepInv
<1> QED BY <1>1, <1>2, <1>3, <1>4

-----------------------------------------------------------------------------
(* The tasks of ProtocolGame that leave the protocols alone.               *)

LEMMA PacketTaskInv ==
  ASSUME Inv, NEW p \in Protocols, ParsePacketFromDispatcher(p)
  PROVE  Inv'
<1> DEFINE rest == Tail(queue)
           e == Task("logout", p)
<1>1. Runs("packet", p) /\ UNCHANGED <<network, session, players, output>>
      /\ (queue' = rest \/ queue' = Append(rest, e))
  BY DEF ParsePacketFromDispatcher
<1>2. RestFits(rest)
  <2>1. "packet" \in Ops \ {"release"}
    BY DEF Ops
  <2> QED BY <1>1, <2>1, TakenFits
<1> HIDE DEF rest
<1>3. e \in Tasks /\ \A q \in Protocols : e # Task("release", q) /\ e # Task("login", q)
  BY TaskFacts DEF Ops
<1>4. CASE queue' = rest
  <2>1. NetworkFits
    BY <1>1, <1>2, <1>4 DEF NetworkFits, RestFits, network, Inv, TypeOK
  <2> QED BY <1>1, <2>1, NetworkStepInv DEF network
<1>5. CASE queue' = Append(rest, e)
  <2>1. queue' \in Seq(Tasks) /\ \A t : In(queue', t) <=> In(rest, t) \/ t = e
    BY <1>2, <1>3, <1>5, SeqFacts, InAppend DEF RestFits
  <2>2. QueueOrdered(queue', conn, receivedFirst)
    <3>1. "logout" \in Ops \ {"login"} /\ "logout" # "release"
      BY DEF Ops
    <3> QED BY <1>2, <1>5, <3>1, OrderedAppend DEF RestFits
  <2> HIDE DEF e
  <2>3. NetworkFits
    BY <1>1, <1>2, <1>3, <2>1, <2>2 DEF NetworkFits, RestFits, network, Inv, TypeOK
  <2> QED BY <1>1, <2>3, NetworkStepInv DEF network
<1> QED BY <1>1, <1>4, <1>5

LEMMA LogoutInv ==
  ASSUME Inv, NEW p \in Protocols, Logout(p)
  PROVE  Inv'
<1> DEFINE rest == Tail(queue)
<1>1. /\ Runs("logout", p) /\ UNCHANGED <<receivedFirst, parsing, session, output>>
      /\ \/ KeepConnections(rest) /\ UNCHANGED players
         \/ player[p] # NoObject /\ LeaveGame(p, rest)
  BY DEF Logout
<1>2. RestFits(rest)
  <2>1. "logout" \in Ops \ {"release"}
    BY DEF Ops
  <2> QED BY <1>1, <2>1, TakenFits
<1> HIDE DEF rest
<1>3. CASE KeepConnections(rest) /\ UNCHANGED players
  BY <1>1, <1>2, <1>3, CloseFits, NetworkStepInv
<1>4. CASE player[p] # NoObject /\ LeaveGame(p, rest)
  <2>1. player[p] \in Objects /\ Disconnect(p, rest) /\ player' = player
    BY <1>1, <1>4 DEF LeaveGame, Inv, TypeOK, session
  <2>2. NetworkFits
    BY <1>2, <2>1, CloseFits
  <2>3. CASE object[player[p]] = "online"
    BY <1>1, <1>4, <2>1, <2>2, <2>3, RemovedFits, GameStepInv DEF LeaveGame
  <2>4. CASE object[player[p]] # "online"
    BY <1>1, <1>4, <2>2, <2>4, NetworkStepInv DEF LeaveGame
  <2> QED BY <2>3, <2>4
<1> QED BY <1>1, <1>3, <1>4

LEMMA LoginAlreadyInInv ==
  ASSUME Inv, NEW p \in Protocols, LoginAlreadyIn(p)
  PROVE  Inv'
<1>1. RestFits(Tail(queue))
  <2>1. "login" \in Ops \ {"release"}
    BY DEF Ops
  <2> QED BY <2>1, TakenFits DEF LoginAlreadyIn
<1> QED BY <1>1, CloseFits, NetworkStepInv DEF LoginAlreadyIn

-----------------------------------------------------------------------------
(* Sessions.                                                               *)

(* A step that gives one protocol a player, or the prospect of one, and    *)
(* may put it into the pool: its login is being run or has been.           *)
LEMMA SessionInv ==
  ASSUME Inv, NetworkFits, NEW p \in Protocols, UNCHANGED <<receivedFirst, parsing>>,
         p \in receivedFirst, ~In(queue', Task("login", p)),
         NEW x \in Objects \union {NoObject}, NEW y \in Objects \union {NoObject},
         player' = [player EXCEPT ![p] = x], eventConnect' = [eventConnect EXCEPT ![p] = y],
         y # NoObject => x = NoObject, player[p] # NoObject => x # NoObject,
         \/ acceptPackets' = acceptPackets
         \/ acceptPackets' = acceptPackets \union {p} /\ x # NoObject,
         \/ UNCHANGED output
         \/ /\ AddProtocolToAutosend(p) /\ buffered[p] = 0
            /\ conn'[p] = "open" \/ In(queue', Task("release", p)),
         PlayersTyped', PointersAgree', RefsExact'
  PROVE  Inv'
<1>1. /\ TypeOK /\ Fresh /\ Accepting /\ BufferedOnce /\ PoolWakes
  BY DEF Inv
<1>2. /\ player' \in [Protocols -> Objects \union {NoObject}] /\ player'[p] = x
      /\ eventConnect' \in [Protocols -> Objects \union {NoObject}] /\ eventConnect'[p] = y
      /\ \A q \in Protocols \ {p} : player'[q] = player[q] /\ eventConnect'[q] = eventConnect[q]
  BY <1>1 DEF TypeOK
<1>3. /\ buffered \in [Protocols -> Nat] /\ sendAlls \in Nat
  BY <1>1 DEF TypeOK
<1>4. /\ buffered' \in [Protocols -> Nat] /\ sendAlls' \in Nat
      /\ \A q \in Protocols \ {p} : buffered'[q] = buffered[q]
      /\ \/ buffered'[p] = buffered[p]
         \/ buffered'[p] = 1 /\ (conn'[p] = "open" \/ In(queue', Task("release", p)))
  <2>1. CASE UNCHANGED output
    BY <1>3, <2>1 DEF output
  <2>2. CASE ~UNCHANGED output
    <3>1. /\ sendAlls' = IF Empty THEN sendAlls + 1 ELSE sendAlls
          /\ buffered' = [buffered EXCEPT ![p] = buffered[p] + 1] /\ buffered[p] = 0
          /\ conn'[p] = "open" \/ In(queue', Task("release", p))
      BY <2>2 DEF AddProtocolToAutosend
    <3>2. sendAlls' \in Nat
      BY <1>3, <3>1
    <3>3. buffered' = [buffered EXCEPT ![p] = 1]
      BY <3>1
    <3> QED BY <1>3, <3>1, <3>2, <3>3
  <2> QED BY <2>1, <2>2
<1>5. PoolWakes'
  <2>1. CASE UNCHANGED output
    BY <1>1, <2>1 DEF output, PoolWakes
  <2>2. CASE ~UNCHANGED output
    <3>1. sendAlls' = IF Empty THEN sendAlls + 1 ELSE sendAlls
      BY <2>2 DEF AddProtocolToAutosend
    <3>2. ~Empty => sendAlls > 0
      BY <1>1 DEF Empty, PoolWakes
    <3>3. sendAlls' > 0
      BY <1>3, <3>1, <3>2
    <3> QED BY <3>3 DEF PoolWakes
  <2> QED BY <2>1, <2>2
<1>6. \A q \in Protocols : /\ In(queue, Task("login", q))' <=> In(queue', Task("login", q))
                           /\ In(queue, Task("release", q))' <=> In(queue', Task("release", q))
  BY DEF In, Task
<1>7. TypeOK'
  BY <1>1, <1>2, <1>4 DEF TypeOK, PlayersTyped, NetworkFits
<1>8. QueueOrdered(queue, conn, receivedFirst)'
  BY DEF NetworkFits, QueueOrdered
<1>9. Fresh'
  <2> SUFFICES ASSUME NEW q \in Protocols
               PROVE  /\ conn'[q] = "new" => q \notin receivedFirst
                      /\ q \notin receivedFirst \/ In(queue', Task("login", q)) =>
                            /\ player'[q] = NoObject /\ eventConnect'[q] = NoObject
                            /\ q \notin acceptPackets' /\ buffered'[q] = 0
                      /\ eventConnect'[q] # NoObject => player'[q] = NoObject
    BY <1>6 DEF Fresh
  <2>1. conn'[q] = "new" => q \notin receivedFirst
    BY <1>1 DEF Fresh, NetworkFits
  <2>2. CASE q = p
    BY <1>2, <2>1, <2>2
  <2>3. CASE q # p
    BY <1>1, <1>2, <1>4, <2>1, <2>3 DEF Fresh, NetworkFits
  <2> QED BY <2>2, <2>3
<1>10. Accepting'
  <2>1. \A q \in acceptPackets : q \in Protocols /\ conn[q] # "new"
    BY <1>1 DEF TypeOK, Fresh
  <2>2. ASSUME NEW q \in acceptPackets', conn'[q] = "open" PROVE player'[q] # NoObject
    <3>1. CASE q \in acceptPackets
      <4>1. conn[q] = "open" /\ player[q] # NoObject /\ q \in Protocols
        BY <1>1, <2>1, <2>2, <3>1 DEF Accepting, NetworkFits
      <4> QED BY <1>2, <4>1
    <3>2. CASE q \notin acceptPackets
      BY <1>2, <2>2, <3>2
    <3> QED BY <3>1, <3>2
  <2>3. parsing # NoProtocol => conn'[parsing] = "open" /\ parsing \in acceptPackets'
    BY <1>1, <2>1 DEF Accepting, NetworkFits
  <2> QED BY <2>2, <2>3 DEF Accepting
<1>11. BufferedOnce'
  BY <1>1, <1>4, <1>6 DEF BufferedOnce, NetworkFits
<1> QED BY <1>5, <1>7, <1>8, <1>9, <1>10, <1>11 DEF Inv

(* A new Player object, refused, placed or kicked at once.                 *)
LEMMA NewPlayerFits ==
  ASSUME Inv, NEW p \in Protocols, NEW o \in Objects, player[p] = NoObject,
         NEW stage, NEW count, NewPlayer(p, o, stage, count),
         \/ stage = "loaded" /\ count = 1 /\ UNCHANGED <<checked, toRelease>>
         \/ stage = "online" /\ count = 3 /\ checked' = checked \union {o} /\ UNCHANGED toRelease
         \/ /\ stage = "removed" /\ count = 3 /\ checked' = checked \union {o}
            /\ toRelease' = [toRelease EXCEPT ![o] = @ + 1]
  PROVE  PlayersTyped' /\ PointersAgree' /\ RefsExact'
<1> USE SessionAssumption
<1>1. TypeOK /\ PointersAgree /\ RefsExact
  BY DEF Inv
<1>2. /\ object[o] = "unused"
      /\ object' = [object EXCEPT ![o] = stage]
      /\ client' = [client EXCEPT ![o] = p]
      /\ player' = [player EXCEPT ![p] = o]
      /\ refs' = [refs EXCEPT ![o] = count]
      /\ UNCHANGED <<eventConnect, isConnecting>>
  BY DEF NewPlayer
<1>3. /\ object'[o] = stage /\ client'[o] = p /\ refs'[o] = count /\ player'[p] = o
      /\ \A x \in Objects \ {o} : /\ object'[x] = object[x] /\ client'[x] = client[x]
                                  /\ refs'[x] = refs[x]
      /\ \A q \in Protocols \ {p} : player'[q] = player[q]
  BY <1>1, <1>2 DEF TypeOK
<1>4. client[o] = NoProtocol /\ o \notin checked /\ toRelease[o] = 0
  <2>1. /\ refs[o] = 0 /\ toRelease[o] \in Nat
        /\ refs[o] = (IF client[o] # NoProtocol THEN 1 ELSE 0)
                       + (IF object[o] = "online" THEN 1 ELSE 0)
                       + (IF o \in checked THEN 1 ELSE 0) + toRelease[o]
    BY <1>1, <1>2 DEF TypeOK, RefsExact
  <2> QED BY <2>1
<1>5. PointersAgree'
  BY <1>1, <1>3, <1>4 DEF PointersAgree
<1>6. /\ toRelease' \in [Objects -> Nat]
      /\ toRelease'[o] = IF stage = "removed" THEN 1 ELSE 0
      /\ \A z \in Objects \ {o} : toRelease'[z] = toRelease[z]
  <2>1. CASE stage = "removed"
    <3>1. toRelease' = [toRelease EXCEPT ![o] = 1]
      BY <1>4, <2>1
    <3> QED BY <1>1, <2>1, <3>1 DEF TypeOK
  <2>2. CASE stage # "removed"
    BY <1>1, <1>4, <2>2 DEF TypeOK
  <2> QED BY <2>1, <2>2
<1>7. PlayersTyped'
  <2>1. refs' \in [Objects -> Nat]
    BY <1>1, <1>2 DEF TypeOK
  <2> QED BY <1>1, <1>2, <1>6, <2>1 DEF TypeOK, PlayersTyped
<1>8. ASSUME NEW z \in Objects
      PROVE  /\ refs'[z] = (IF client'[z] # NoProtocol THEN 1 ELSE 0)
                             + (IF object'[z] = "online" THEN 1 ELSE 0)
                             + (IF z \in checked' THEN 1 ELSE 0) + toRelease'[z]
             /\ refs'[z] = 0 <=> object'[z] \in {"unused", "deleted"}
  <2>1. CASE z # o
    <3>1. z \in checked' <=> z \in checked
      BY <2>1
    <3> QED BY <1>1, <1>3, <1>6, <2>1, <3>1 DEF RefsExact
  <2>2. CASE z = o
    <3>1. client'[z] # NoProtocol
      BY <1>3, <2>2
    <3>2. CASE stage = "loaded"
      BY <1>3, <1>4, <1>6, <2>2, <3>1, <3>2
    <3>3. CASE stage = "online"
      BY <1>3, <1>6, <2>2, <3>1, <3>3
    <3>4. CASE stage = "removed"
      BY <1>3, <1>6, <2>2, <3>1, <3>4
    <3> QED BY <3>2, <3>3, <3>4
  <2> QED BY <2>1, <2>2
<1>9. RefsExact'
  BY <1>8 DEF RefsExact
<1> QED BY <1>5, <1>7, <1>9

(* ProtocolGame::connect takes over a player who has lost its client.      *)
LEMMA AttachFits ==
  ASSUME Inv, NEW p \in Protocols, NEW o \in Objects, player[p] = NoObject,
         object[o] = "online", client[o] = NoProtocol, Attach(p, o),
         UNCHANGED <<object, checked, toRelease>>
  PROVE  /\ PlayersTyped' /\ PointersAgree' /\ RefsExact'
         /\ \E x \in {o, NoObject} :
               /\ player' = [player EXCEPT ![p] = x]
               /\ \/ acceptPackets' = acceptPackets
                  \/ acceptPackets' = acceptPackets \union {p} /\ x # NoObject
<1> USE SessionAssumption
<1>1. TypeOK /\ PointersAgree /\ RefsExact
  BY DEF Inv
<1>2. CASE conn[p] = "gone"
  <2>1. UNCHANGED <<player, client, isConnecting, refs, acceptPackets>>
    BY <1>2 DEF Attach
  <2>2. player' = [player EXCEPT ![p] = NoObject]
    BY <1>1, <2>1 DEF TypeOK
  <2> QED BY <1>1, <2>1, <2>2 DEF TypeOK, PlayersTyped, PointersAgree, RefsExact
<1>3. CASE conn[p] # "gone"
  <2>1. /\ player' = [player EXCEPT ![p] = o]
        /\ client' = [client EXCEPT ![o] = p]
        /\ refs' = [refs EXCEPT ![o] = @ + 1]
        /\ isConnecting' = isConnecting \ {o}
        /\ acceptPackets' = acceptPackets \union {p}
    BY <1>3 DEF Attach
  <2>2. /\ player'[p] = o /\ client'[o] = p /\ refs'[o] = refs[o] + 1 /\ refs[o] \in Nat
        /\ \A q \in Protocols \ {p} : player'[q] = player[q]
        /\ \A x \in Objects \ {o} : client'[x] = client[x] /\ refs'[x] = refs[x]
    BY <1>1, <2>1 DEF TypeOK
  <2>3. PlayersTyped'
    BY <1>1, <2>1 DEF TypeOK, PlayersTyped
  <2>4. PointersAgree'
    BY <1>1, <2>2 DEF PointersAgree
  <2>5. RefsExact'
    <3> SUFFICES ASSUME NEW z \in Objects
                 PROVE  /\ refs'[z] = (IF client'[z] # NoProtocol THEN 1 ELSE 0)
                                        + (IF object[z] = "online" THEN 1 ELSE 0)
                                        + (IF z \in checked THEN 1 ELSE 0) + toRelease[z]
                        /\ refs'[z] = 0 <=> object[z] \in {"unused", "deleted"}
      BY DEF RefsExact
    <3>1. CASE z # o
      BY <1>1, <2>2, <3>1 DEF RefsExact
    <3>2. CASE z = o
      <4>1. toRelease[o] \in Nat /\ client'[o] # NoProtocol
        BY <1>1, <2>2 DEF TypeOK
      <4>2. refs[o] = 0 + 1 + (IF o \in checked THEN 1 ELSE 0) + toRelease[o]
        BY <1>1 DEF RefsExact
      <4>3. /\ refs'[o] = 1 + 1 + (IF o \in checked THEN 1 ELSE 0) + toRelease[o]
            /\ refs'[o] # 0
        BY <2>2, <4>1, <4>2
      <4> QED BY <3>2, <4>1, <4>3
    <3> QED BY <3>1, <3>2
  <2> QED BY <2>1, <2>3, <2>4, <2>5
<1> QED BY <1>2, <1>3

(* What a login finds: the protocol has not been used before, and its      *)
(* release, if it is needed already, comes later.                          *)
LEMMA LoginFinds ==
  ASSUME Inv, NEW p \in Protocols, Runs("login", p)
  PROVE  /\ RestFits(Tail(queue)) /\ p \in receivedFirst
         /\ ~In(Tail(queue), Task("login", p))
         /\ conn[p] = "open" \/ In(Tail(queue), Task("release", p))
         /\ player[p] = NoObject /\ eventConnect[p] = NoObject /\ buffered[p] = 0
         /\ player = [player EXCEPT ![p] = NoObject]
         /\ eventConnect = [eventConnect EXCEPT ![p] = NoObject]
<1>1. "login" \in Ops \ {"release"}
  BY DEF Ops
<1>2. /\ RestFits(Tail(queue)) /\ p \in receivedFirst
      /\ ~In(Tail(queue), Task("login", p)) /\ In(queue, Task("login", p))
      /\ conn[p] = "open" \/ In(Tail(queue), Task("release", p))
  BY <1>1, TakenFits
<1>3. player[p] = NoObject /\ eventConnect[p] = NoObject /\ buffered[p] = 0
  BY <1>2 DEF Inv, Fresh
<1>4. /\ player = [player EXCEPT ![p] = NoObject]
      /\ eventConnect = [eventConnect EXCEPT ![p] = NoObject]
  BY <1>3 DEF Inv, TypeOK
<1> QED BY <1>2, <1>3, <1>4

(* ProtocolGame::login with a Player object of its own.                    *)
LEMMA LoginCreatesInv ==
  ASSUME Inv, NEW p \in Protocols, LoginRefused(p) \/ LoginPlaced(p) \/ LoginKicked(p)
  PROVE  Inv'
<1> USE SessionAssumption
<1>1. Runs("login", p) /\ UNCHANGED <<receivedFirst, parsing>>
  BY DEF LoginRefused, LoginPlaced, LoginKicked
<1>2. /\ RestFits(Tail(queue)) /\ p \in receivedFirst
      /\ ~In(Tail(queue), Task("login", p))
      /\ conn[p] = "open" \/ In(Tail(queue), Task("release", p))
      /\ player[p] = NoObject /\ buffered[p] = 0
      /\ eventConnect = [eventConnect EXCEPT ![p] = NoObject]
  BY <1>1, LoginFinds
<1>3. Disconnect(p, Tail(queue)) \/ KeepConnections(Tail(queue))
  BY DEF LoginRefused, LoginPlaced, LoginKicked
<1>4. /\ NetworkFits /\ ~In(queue', Task("login", p))
      /\ conn'[p] = "open" \/ In(queue', Task("release", p))
  <2>1. /\ NetworkFits
        /\ In(queue', Task("login", p)) => In(Tail(queue), Task("login", p))
        /\ In(Tail(queue), Task("release", p)) => In(queue', Task("release", p))
    BY <1>2, <1>3, CloseFits
  <2> QED BY <1>2, <2>1 DEF NetworkFits
<1>5. PICK o \in Objects, stage \in {"loaded", "online", "removed"}, count \in {1, 3} :
         /\ NewPlayer(p, o, stage, count)
         /\ \/ stage = "loaded" /\ count = 1 /\ UNCHANGED <<checked, toRelease>>
            \/ /\ stage = "online" /\ count = 3 /\ checked' = checked \union {o}
               /\ UNCHANGED toRelease
            \/ /\ stage = "removed" /\ count = 3 /\ checked' = checked \union {o}
               /\ toRelease' = [toRelease EXCEPT ![o] = @ + 1]
  BY DEF LoginRefused, LoginPlaced, LoginKicked
<1>6. PlayersTyped' /\ PointersAgree' /\ RefsExact'
  BY <1>2, <1>5, NewPlayerFits
<1>7. /\ player' = [player EXCEPT ![p] = o] /\ o # NoObject
      /\ eventConnect' = [eventConnect EXCEPT ![p] = NoObject]
  BY <1>2, <1>5 DEF NewPlayer
<1>8. \/ acceptPackets' = acceptPackets /\ UNCHANGED output
      \/ acceptPackets' = acceptPackets \union {p} /\ AddProtocolToAutosend(p)
  BY DEF LoginRefused, LoginPlaced, LoginKicked
<1> QED BY <1>1, <1>2, <1>4, <1>6, <1>7, <1>8, SessionInv

(* The character is in the game: its client is disconnected, and an event  *)
(* will connect this protocol.                                             *)
LEMMA LoginReplacesInv ==
  ASSUME Inv, NEW p \in Protocols, LoginReplaces(p)
  PROVE  Inv'
<1> USE SessionAssumption
<1>1. /\ Runs("login", p) /\ AddProtocolToAutosend(p)
      /\ UNCHANGED <<receivedFirst, parsing, player, acceptPackets, object, client,
                     refs, checked, toRelease>>
  BY DEF LoginReplaces
<1>2. PICK o \in Objects :
         /\ client[o] # NoProtocol /\ Disconnect(client[o], Tail(queue))
         /\ isConnecting' = isConnecting \union {o}
         /\ eventConnect' = [eventConnect EXCEPT ![p] = o]
  BY DEF LoginReplaces
<1>3. /\ RestFits(Tail(queue)) /\ p \in receivedFirst
      /\ ~In(Tail(queue), Task("login", p))
      /\ conn[p] = "open" \/ In(Tail(queue), Task("release", p))
      /\ player[p] = NoObject /\ buffered[p] = 0
      /\ player = [player EXCEPT ![p] = NoObject]
  BY <1>1, LoginFinds
<1>4. client[o] \in Protocols
  BY <1>2 DEF Inv, TypeOK
<1>5. /\ NetworkFits /\ ~In(queue', Task("login", p))
      /\ conn'[p] = "open" \/ In(queue', Task("release", p))
  <2>1. /\ NetworkFits
        /\ In(queue', Task("login", p)) => In(Tail(queue), Task("login", p))
        /\ In(Tail(queue), Task("release", p)) => In(queue', Task("release", p))
    BY <1>2, <1>3, <1>4, CloseFits
  <2> QED BY <1>3, <2>1 DEF NetworkFits
<1>6. PlayersTyped' /\ PointersAgree' /\ RefsExact'
  BY <1>1, <1>2 DEF Inv, TypeOK, PlayersTyped, PointersAgree, RefsExact
<1>7. player' = [player EXCEPT ![p] = NoObject] /\ acceptPackets' = acceptPackets
  BY <1>1, <1>3
<1> QED BY <1>1, <1>2, <1>3, <1>5, <1>6, <1>7, SessionInv

(* The character is in the game without a client.                          *)
LEMMA LoginResumesInv ==
  ASSUME Inv, NEW p \in Protocols, LoginResumes(p)
  PROVE  Inv'
<1> USE SessionAssumption
<1>1. /\ Runs("login", p) /\ AddProtocolToAutosend(p) /\ KeepConnections(Tail(queue))
      /\ UNCHANGED <<receivedFirst, parsing, eventConnect, object, checked, toRelease>>
  BY DEF LoginResumes
<1>2. PICK o \in Objects : object[o] = "online" /\ client[o] = NoProtocol /\ Attach(p, o)
  BY DEF LoginResumes, Found
<1>3. /\ RestFits(Tail(queue)) /\ p \in receivedFirst
      /\ ~In(Tail(queue), Task("login", p))
      /\ conn[p] = "open" \/ In(Tail(queue), Task("release", p))
      /\ player[p] = NoObject /\ buffered[p] = 0
      /\ eventConnect = [eventConnect EXCEPT ![p] = NoObject]
  BY <1>1, LoginFinds
<1>4. /\ NetworkFits /\ ~In(queue', Task("login", p))
      /\ conn'[p] = "open" \/ In(queue', Task("release", p))
  <2>1. /\ NetworkFits
        /\ In(queue', Task("login", p)) => In(Tail(queue), Task("login", p))
        /\ In(Tail(queue), Task("release", p)) => In(queue', Task("release", p))
    BY <1>1, <1>3, CloseFits
  <2> QED BY <1>3, <2>1 DEF NetworkFits
<1>5. /\ PlayersTyped' /\ PointersAgree' /\ RefsExact'
      /\ \E x \in {o, NoObject} :
               /\ player' = [player EXCEPT ![p] = x]
               /\ \/ acceptPackets' = acceptPackets
                  \/ acceptPackets' = acceptPackets \union {p} /\ x # NoObject
  BY <1>1, <1>2, <1>3, AttachFits
<1>6. PICK x \in {o, NoObject} :
               /\ player' = [player EXCEPT ![p] = x]
               /\ \/ acceptPackets' = acceptPackets
                  \/ acceptPackets' = acceptPackets \union {p} /\ x # NoObject
  BY <1>5
<1>7. eventConnect' = [eventConnect EXCEPT ![p] = NoObject]
  BY <1>1, <1>3
<1> QED BY <1>1, <1>3, <1>4, <1>5, <1>6, <1>7, SessionInv

(* The scheduled event that connects a protocol to the player.             *)
LEMMA ConnectInv ==
  ASSUME Inv, NEW p \in Protocols, Connect(p)
  PROVE  Inv'
<1> USE SessionAssumption
<1> DEFINE o == eventConnect[p]
<1>1. /\ o # NoObject /\ eventConnect' = [eventConnect EXCEPT ![p] = NoObject]
      /\ UNCHANGED <<receivedFirst, parsing, object, checked, toRelease, output>>
  BY DEF Connect
<1>2. /\ o \in Objects /\ player[p] = NoObject /\ p \in receivedFirst
      /\ ~In(queue, Task("login", p)) /\ player = [player EXCEPT ![p] = NoObject]
  BY <1>1 DEF Inv, TypeOK, Fresh
<1>3. CASE object[o] # "online" \/ client[o] # NoProtocol
  <2>1. /\ Disconnect(p, queue)
        /\ UNCHANGED <<player, client, isConnecting, refs, acceptPackets>>
    BY <1>3 DEF Connect
  <2>2. NetworkFits
    BY <2>1, WholeQueueFits, CloseFits
  <2>3. PlayersTyped' /\ PointersAgree' /\ RefsExact'
    BY <1>1, <2>1 DEF Inv, TypeOK, PlayersTyped, PointersAgree, RefsExact
  <2>4. player' = [player EXCEPT ![p] = NoObject] /\ ~In(queue', Task("login", p))
    BY <1>2, <2>1, <2>2 DEF NetworkFits
  <2> QED BY <1>1, <1>2, <2>1, <2>2, <2>3, <2>4, SessionInv
<1>4. CASE object[o] = "online" /\ client[o] = NoProtocol
  <2>1. Attach(p, o) /\ KeepConnections(queue)
    BY <1>4 DEF Connect
  <2>2. NetworkFits
    BY <1>2, <2>1, WholeQueueFits, CloseFits
  <2>3. /\ PlayersTyped' /\ PointersAgree' /\ RefsExact'
        /\ \E x \in {o, NoObject} :
                 /\ player' = [player EXCEPT ![p] = x]
                 /\ \/ acceptPackets' = acceptPackets
                    \/ acceptPackets' = acceptPackets \union {p} /\ x # NoObject
    BY <1>1, <1>2, <1>4, <2>1, AttachFits
  <2>4. PICK x \in {o, NoObject} :
                 /\ player' = [player EXCEPT ![p] = x]
                 /\ \/ acceptPackets' = acceptPackets
                    \/ acceptPackets' = acceptPackets \union {p} /\ x # NoObject
    BY <2>3
  <2>5. ~In(queue', Task("login", p))
    BY <1>2, <2>2 DEF NetworkFits
  <2> HIDE DEF o
  <2> QED BY <1>1, <1>2, <2>2, <2>3, <2>4, <2>5, SessionInv
<1> QED BY <1>3, <1>4

(* ProtocolGame::release: the connection is closed, so nobody reads from   *)
(* it any more.                                                            *)
LEMMA ReleaseInv ==
  ASSUME Inv, NEW p \in Protocols, Release(p)
  PROVE  Inv'
<1> USE SessionAssumption
<1>1. /\ TypeOK /\ QueueOrdered(queue, conn, receivedFirst) /\ Fresh /\ Accepting
      /\ BufferedOnce /\ PoolWakes /\ PointersAgree /\ RefsExact
  BY DEF Inv
<1>2. /\ queue # <<>> /\ Head(queue) = Task("release", p) /\ queue' = Tail(queue)
      /\ UNCHANGED <<conn, closes, receivedFirst, parsing>>
      /\ buffered' = [buffered EXCEPT ![p] = IF @ > 0 THEN @ - 1 ELSE 0]
      /\ UNCHANGED sendAlls
  BY DEF Release, Runs, RemoveProtocolFromAutosend, network
<1>3. /\ Tail(queue) \in Seq(Tasks) /\ QueueOrdered(Tail(queue), conn, receivedFirst)
      /\ \A t : In(queue, t) <=> t = Task("release", p) \/ In(Tail(queue), t)
  BY <1>1, <1>2, OrderedTail, InTail DEF TypeOK
<1>4. conn[p] \in {"closed", "gone"} /\ parsing # p
  <2>1. 1 \in DOMAIN queue /\ queue[1] = Task("release", p)
    BY <1>1, <1>2, SeqFacts DEF TypeOK
  <2> QED BY <1>1, <2>1 DEF QueueOrdered, Accepting
<1>5. \A q \in Protocols :
         /\ In(queue, Task("login", q))' => In(queue, Task("login", q))
         /\ q # p /\ In(queue, Task("release", q)) => In(queue, Task("release", q))'
  <2>1. \A q \in Protocols : /\ In(queue, Task("login", q))' <=> In(queue', Task("login", q))
                             /\ In(queue, Task("release", q))' <=> In(queue', Task("release", q))
    BY DEF In, Task
  <2>2. "release" \in Ops /\ \A q \in Protocols : Task("release", p) = Task("release", q) => p = q
    BY TaskFacts DEF Ops
  <2> QED BY <1>2, <1>3, <2>1, <2>2
<1>6. /\ buffered'[p] = 0 /\ \A q \in Protocols \ {p} : buffered'[q] = buffered[q]
      /\ buffered' \in [Protocols -> Nat]
  <2>1. buffered[p] \in {0, 1} /\ buffered \in [Protocols -> Nat]
    BY <1>1 DEF BufferedOnce, TypeOK
  <2>2. (IF buffered[p] > 0 THEN buffered[p] - 1 ELSE 0) = 0
    BY <2>1
  <2>3. buffered' = [buffered EXCEPT ![p] = 0]
    BY <1>2, <2>2
  <2> QED BY <2>1, <2>3
<1>7. /\ player' \in [Protocols -> Objects \union {NoObject}]
      /\ player'[p] \in {player[p], NoObject}
      /\ \A q \in Protocols \ {p} : player'[q] = player[q]
      /\ UNCHANGED <<acceptPackets, eventConnect>>
      /\ PlayersTyped' /\ PointersAgree' /\ RefsExact'
  <2>1. CASE player[p] # NoObject /\ client[player[p]] = p
    <3> DEFINE o == player[p]
    <3>1. /\ client' = [client EXCEPT ![o] = NoProtocol]
          /\ refs' = [refs EXCEPT ![o] = @ - 1]
          /\ object' = [object EXCEPT ![o] = IF refs[o] = 1 THEN "deleted" ELSE @]
          /\ player' = [player EXCEPT ![p] = NoObject]
          /\ UNCHANGED <<acceptPackets, eventConnect, isConnecting, checked, toRelease>>
      BY <2>1 DEF Release, Unreferenced
    <3>2. o \in Objects /\ client[o] = p
      BY <1>1, <2>1 DEF TypeOK
    <3>3. /\ player' \in [Protocols -> Objects \union {NoObject}] /\ player'[p] = NoObject
          /\ \A q \in Protocols \ {p} : player'[q] = player[q]
      BY <1>1, <3>1 DEF TypeOK
    <3> HIDE DEF o
    <3>4. /\ client'[o] = NoProtocol /\ refs'[o] = refs[o] - 1
          /\ object'[o] = IF refs[o] = 1 THEN "deleted" ELSE object[o]
          /\ \A z \in Objects \ {o} : /\ client'[z] = client[z] /\ refs'[z] = refs[z]
                                      /\ object'[z] = object[z]
      BY <1>1, <3>1, <3>2 DEF TypeOK
    <3>5. PICK n \in Nat, m \in Nat :
             /\ n = IF object[o] = "online" THEN 1 ELSE 0
             /\ m = IF o \in checked THEN 1 ELSE 0
      OBVIOUS
    <3>6. /\ refs[o] = 1 + n + m + toRelease[o] /\ toRelease[o] \in Nat
          /\ object[o] \notin {"unused", "deleted"}
      <4>1. /\ refs[o] = (IF client[o] # NoProtocol THEN 1 ELSE 0)
                           + (IF object[o] = "online" THEN 1 ELSE 0)
                           + (IF o \in checked THEN 1 ELSE 0) + toRelease[o]
            /\ refs[o] = 0 <=> object[o] \in {"unused", "deleted"}
            /\ toRelease[o] \in Nat /\ client[o] # NoProtocol
        BY <1>1, <3>2 DEF RefsExact, TypeOK
      <4>2. refs[o] = 1 + n + m + toRelease[o]
        BY <3>5, <4>1
      <4> QED BY <4>1, <4>2
    <3>7. /\ refs'[o] \in Nat /\ refs'[o] = 0 + n + m + toRelease[o]
          /\ refs[o] = 1 <=> refs'[o] = 0
          /\ refs[o] = 1 => n = 0
      BY <3>4, <3>6
    <3>8. object'[o] = "online" <=> object[o] = "online"
      BY <3>4, <3>5, <3>7
    <3>9. refs'[o] = 0 <=> object'[o] \in {"unused", "deleted"}
      BY <3>4, <3>6, <3>7
    <3>10. refs' \in [Objects -> Nat]
      BY <1>1, <3>1, <3>2, <3>4, <3>7 DEF TypeOK
    <3>11. PlayersTyped'
      BY <1>1, <3>1, <3>10 DEF TypeOK, PlayersTyped
    <3>12. PointersAgree'
      <4>1. player[p] = o
        BY DEF o
      <4>2. \A q \in Protocols, z \in Objects : player'[q] = z <=> client'[z] = q
        BY <1>1, <3>2, <3>3, <3>4, <4>1 DEF PointersAgree
      <4> QED BY <4>2 DEF PointersAgree
    <3>13. ASSUME NEW z \in Objects
           PROVE  /\ refs'[z] = (IF client'[z] # NoProtocol THEN 1 ELSE 0)
                                  + (IF object'[z] = "online" THEN 1 ELSE 0)
                                  + (IF z \in checked THEN 1 ELSE 0) + toRelease[z]
                  /\ refs'[z] = 0 <=> object'[z] \in {"unused", "deleted"}
      <4>1. CASE z = o
        BY <3>4, <3>5, <3>7, <3>8, <3>9, <4>1
      <4>2. CASE z # o
        BY <1>1, <3>4, <4>2 DEF RefsExact
      <4> QED BY <4>1, <4>2
    <3>14. RefsExact'
      BY <3>1, <3>13 DEF RefsExact
    <3> QED BY <3>1, <3>3, <3>11, <3>12, <3>14
  <2>2. CASE ~(player[p] # NoObject /\ client[player[p]] = p)
    <3>1. UNCHANGED <<session, players>>
      BY <2>2 DEF Release
    <3> QED BY <1>1, <3>1 DEF session, players, TypeOK, PlayersTyped, PointersAgree, RefsExact
  <2> QED BY <2>1, <2>2
<1>8. TypeOK'
  BY <1>1, <1>2, <1>3, <1>6, <1>7 DEF TypeOK, PlayersTyped
<1>9. QueueOrdered(queue, conn, receivedFirst)'
  BY <1>2, <1>3 DEF QueueOrdered
<1>10. Fresh'
  BY <1>1, <1>2, <1>5, <1>6, <1>7 DEF Fresh
<1>11. Accepting'
  BY <1>1, <1>2, <1>4, <1>7 DEF Accepting, TypeOK
<1>12. BufferedOnce'
  BY <1>1, <1>2, <1>5, <1>6 DEF BufferedOnce
<1>13. PoolWakes'
  BY <1>1, <1>2, <1>6 DEF PoolWakes
<1> QED BY <1>7, <1>8, <1>9, <1>10, <1>11, <1>12, <1>13 DEF Inv

LEMMA SendAllInv ==
  ASSUME Inv, SendAll
  PROVE  Inv'
<1>1. /\ sendAlls > 0 /\ Empty /\ sendAlls' = sendAlls - 1
      /\ UNCHANGED <<network, queue, session, players, buffered>>
  BY DEF SendAll
<1> USE DEF network, session, players
<1>2. sendAlls' \in Nat
  BY <1>1 DEF Inv, TypeOK
<1>3. TypeOK' /\ QueueOrdered(queue, conn, receivedFirst)'
  BY <1>1, <1>2 DEF Inv, TypeOK, QueueOrdered
<1>4. Fresh' /\ Accepting' /\ BufferedOnce'
  BY <1>1 DEF Inv, Fresh, Accepting, BufferedOnce, In
<1>5. PoolWakes'
  BY <1>1 DEF PoolWakes, Empty
<1>6. PointersAgree' /\ RefsExact'
  BY <1>1 DEF Inv, PointersAgree, RefsExact
<1> QED BY <1>3, <1>4, <1>5, <1>6 DEF Inv

-----------------------------------------------------------------------------
LEMMA InvInit == Init => Inv
<1> SUFFICES ASSUME Init PROVE Inv
  OBVIOUS
<1> USE SessionAssumption DEF Init
<1>1. TypeOK
  BY DEF TypeOK
<1>2. /\ DOMAIN queue = {}
      /\ \A p \in Protocols : /\ player[p] = NoObject /\ eventConnect[p] = NoObject
                              /\ buffered[p] = 0
  OBVIOUS
<1>3. QueueOrdered(queue, conn, receivedFirst) /\ Fresh /\ Accepting
  BY <1>2 DEF QueueOrdered, Fresh, Accepting
<1>4. BufferedOnce /\ PoolWakes
  BY <1>2 DEF BufferedOnce, PoolWakes
<1>5. PointersAgree /\ RefsExact
  BY DEF PointersAgree, RefsExact
<1> QED BY <1>1, <1>3, <1>4, <1>5 DEF Inv

LEMMA InvNext == Inv /\ [Next]_vars => Inv'
<1> SUFFICES ASSUME Inv, [Next]_vars PROVE Inv'
  OBVIOUS
<1>1. CASE UNCHANGED vars
  <2>1. NetworkFits
    BY <1>1 DEF vars, NetworkFits, Inv, TypeOK
  <2> QED BY <1>1, <2>1, NetworkStepInv DEF vars, session, players, output
<1>2. ASSUME NEW p \in Protocols, Network(p) PROVE Inv'
  BY <1>2, ConnectionInv, FirstMessageInv, ParsePacketInv DEF Network
<1>3. ASSUME NEW p \in Protocols, RunTask(p) PROVE Inv'
  BY <1>3, LoginCreatesInv, LoginAlreadyInInv, LoginReplacesInv, LoginResumesInv,
     ReleaseInv, PacketTaskInv, LogoutInv DEF RunTask, Login
<1>4. ASSUME NEW p \in Protocols, Connect(p) PROVE Inv'
  BY <1>4, ConnectInv
<1>5. CASE \/ CheckNobody
           \/ \E o \in Objects : Death(o) \/ Kick(o)
           \/ \E o \in Objects, idle \in BOOLEAN : CheckPlayer(o, idle)
  BY <1>5, GameInv
<1>6. CASE SendAll
  BY <1>6, SendAllInv
<1> QED BY <1>1, <1>2, <1>3, <1>4, <1>5, <1>6 DEF Next

(* Every handler leaves the session's state well formed: no reference      *)
(* counter and no entry of the pool becomes negative.                      *)
THEOREM TypeCorrect == Spec => []TypeOK
<1>1. Inv => TypeOK
  BY DEF Inv
<1> QED BY <1>1, InvInit, InvNext, PTL DEF Spec

(* ProtocolGame::player and Player::client point to each other however     *)
(* many connections log the character in and replace one another.          *)
THEOREM SessionsAlwaysAgree == Spec => []SessionsAgree
<1>1. ASSUME Inv PROVE SessionsAgree
  <2>1. PointersAgree /\ RefsExact /\ TypeOK
    BY <1>1 DEF Inv
  <2>2. ASSUME NEW p \in Protocols, player[p] # NoObject
        PROVE  object[player[p]] \notin {"unused", "deleted"}
    <3>1. player[p] \in Objects /\ client[player[p]] = p
      BY <2>1, <2>2 DEF PointersAgree, TypeOK
    <3>2. /\ refs[player[p]] = 1 + (IF object[player[p]] = "online" THEN 1 ELSE 0)
                         + (IF player[p] \in checked THEN 1 ELSE 0) + toRelease[player[p]]
          /\ toRelease[player[p]] \in Nat
      <4>1. p # NoProtocol
        BY SessionAssumption
      <4> QED BY <2>1, <3>1, <4>1 DEF RefsExact, TypeOK
    <3>3. refs[player[p]] # 0
      BY <3>2
    <3> QED BY <2>1, <3>1, <3>3 DEF RefsExact
  <2> QED BY <2>1, <2>2 DEF SessionsAgree, PointersAgree
<1> QED BY <1>1, InvInit, InvNext, PTL DEF Spec

(* The reference counter of a Player is exact, so that the object is       *)
(* deleted when the last reference goes and not before.                    *)
THEOREM RefsAlwaysExact == Spec => []RefsExact
<1>1. Inv => RefsExact
  BY DEF Inv
<1> QED BY <1>1, InvInit, InvNext, PTL DEF Spec

(* The player that parsePacket has tested on the network thread is there   *)
(* when it reads the id: the release that would clear it cannot have been  *)
(* posted while the connection is open and locked.                         *)
THEOREM PlayerAlwaysStable == Spec => []PlayerStableWhileParsing
<1>1. Inv => PlayerStableWhileParsing
  BY DEF Inv, Accepting, PlayerStableWhileParsing
<1> QED BY <1>1, InvInit, InvNext, PTL DEF Spec

(* A protocol in the pool has its connection or its release to come, and   *)
(* the pool its next flush.                                                *)
THEOREM AutosendAlwaysSound == Spec => []AutosendSound
<1>1. ASSUME Inv PROVE AutosendSound
  <2>1. BufferedOnce /\ PoolWakes
    BY <1>1 DEF Inv
  <2>2. ASSUME NEW p \in Protocols, buffered[p] > 0
        PROVE  conn[p] = "open" \/ Posted("release", p)
    <3>1. buffered[p] = 1
      BY <2>1, <2>2 DEF BufferedOnce
    <3> QED BY <2>1, <3>1 DEF BufferedOnce, Posted, In
  <2>3. ~Empty => sendAlls > 0
    BY <2>1 DEF PoolWakes, Empty
  <2> QED BY <2>2, <2>3 DEF AutosendSound
<1> QED BY <1>1, InvInit, InvNext, PTL DEF Spec
=============================================================================
