-------------------------- MODULE ConnectionProofs --------------------------
(***************************************************************************)
(* Theorems about Connection, for any number of calls and timers.          *)
(***************************************************************************)
EXTENDS Connection, TLAPS

(* While the acceptor waits nothing has happened to the object.            *)
Untouched == accepting = "listening" => /\ c.state = "PENDING" /\ ~c.protocol
                                        /\ c.releases = 0 /\ c.queued = 0
                                        /\ c.read = "none" /\ c.write = "none"
                                        /\ ~c.readTimer /\ ~c.writeTimer
                                        /\ timeouts = 0 /\ ~gone

(* A service that sends first is bound before it reads.                    *)
BoundEarly == accepting = "bound" => c.protocol /\ ~gone

(* Whoever closes a connection with a protocol releases the protocol.      *)
ClosedReleases == /\ c.releases > 0 => c.protocol
                  /\ c.state = "DISCONNECTED" /\ c.protocol => c.releases > 0

(* An open connection is reading, which keeps the object alive.            *)
OpenReads == accepting = "done" /\ c.state \notin {"PENDING", "DISCONNECTED"} =>
                 c.read # "none" \/ Closed

(* Nothing is under way any more when the object is destroyed.             *)
GoneQuiet == gone => /\ ~c.managed /\ accepting = "done"
                     /\ c.read = "none" /\ c.write = "none"

(* The inductive invariant.                                                *)
Inv == /\ TypeOK /\ WriteQueueSound
       /\ Untouched /\ BoundEarly /\ ClosedReleases /\ OpenReads /\ GoneQuiet

-----------------------------------------------------------------------------
(* What the member functions do to an object, d before and e after it.     *)

(* WriteQueueSound, of a record.                                           *)
QueueSound(d) == /\ d.write # "none" => d.queued > 0
                 /\ d.queued > 0 /\ d.socket => d.write # "none"

(* The life of the connection and its protocol are not touched.            *)
KeepsLife(d, e) == /\ e.state = d.state /\ e.protocol = d.protocol
                   /\ e.releases = d.releases

(* The connection was closed, once or twice, and its protocol released.    *)
Closes(d, e) == /\ e.state = "DISCONNECTED" /\ e.protocol = d.protocol
                /\ IF d.protocol THEN e.releases > d.releases ELSE e.releases = d.releases

(* Closing the socket leaves everything but the socket and the timers.     *)
LEMMA CloseSocketIs ==
  ASSUME NEW d \in Members
  PROVE  /\ CloseSocket(d) \in Members
         /\ ~CloseSocket(d).socket
         /\ CloseSocket(d).state = d.state /\ CloseSocket(d).protocol = d.protocol
         /\ CloseSocket(d).releases = d.releases /\ CloseSocket(d).managed = d.managed
         /\ CloseSocket(d).read = d.read /\ CloseSocket(d).write = d.write
         /\ CloseSocket(d).queued = d.queued
  BY DEF CloseSocket, Members

(* Connection::close: also a second one posts a release, and only a forced *)
(* one, or one with nothing left to send, closes the socket.               *)
LEMMA CloseIs ==
  ASSUME NEW d \in Members, NEW force \in BOOLEAN
  PROVE  /\ Close(d, force) \in Members
         /\ Closes(d, Close(d, force))
         /\ ~Close(d, force).managed
         /\ Close(d, force).read = d.read /\ Close(d, force).write = d.write
         /\ Close(d, force).queued = d.queued
         /\ Close(d, force).socket => d.socket
         /\ force => ~Close(d, force).socket
<1>1. PICK n \in Nat : n = d.releases + (IF d.protocol THEN 1 ELSE 0)
  BY DEF Members
<1> DEFINE e == [d EXCEPT !.managed = FALSE, !.state = "DISCONNECTED", !.releases = n]
<1>2. /\ e \in Members /\ ~e.managed /\ e.state = "DISCONNECTED"
      /\ e.protocol = d.protocol /\ e.releases = n
      /\ e.read = d.read /\ e.write = d.write
      /\ e.queued = d.queued /\ e.socket = d.socket
  BY DEF Members
<1>3. Close(d, force) = IF e.queued = 0 \/ force THEN CloseSocket(e) ELSE e
  BY <1>1 DEF Close, Members
<1>4. d.protocol => n > d.releases
  BY <1>1 DEF Members
<1>5. ~d.protocol => n = d.releases
  BY <1>1 DEF Members
<1> HIDE DEF e
<1> QED BY <1>2, <1>3, <1>4, <1>5, CloseSocketIs DEF Closes

(* A call that starts a read leaves the queue of messages alone: it reads, *)
(* or it has thrown and closed the connection.                             *)
LEMMA StartReadIs ==
  ASSUME NEW d \in Members, NEW what \in {"header", "body"}, NEW throws \in BOOLEAN
  PROVE  /\ StartRead(d, what, throws) \in Members
         /\ StartRead(d, what, throws).write = d.write
         /\ StartRead(d, what, throws).queued = d.queued
         /\ StartRead(d, what, throws).socket => d.socket
         /\ throws => Closes(d, StartRead(d, what, throws))
         /\ ~throws => /\ KeepsLife(d, StartRead(d, what, throws))
                       /\ StartRead(d, what, throws).read = "waiting"
<1> DEFINE e == [d EXCEPT !.readTimer = TRUE]
<1>1. /\ e \in Members /\ KeepsLife(d, e) /\ e.write = d.write
      /\ e.queued = d.queued /\ e.socket = d.socket
  BY DEF Members, KeepsLife
<1>2. "waiting" \in Operation
  BY DEF Operation
<1> HIDE DEF e
<1> DEFINE f == [e EXCEPT !.reading = what, !.read = "waiting"]
<1>3. /\ f \in Members /\ KeepsLife(d, f) /\ f.read = "waiting"
      /\ f.write = d.write /\ f.queued = d.queued /\ f.socket = d.socket
  <2>1. f \in Members
    BY <1>1, <1>2 DEF Members
  <2>2. /\ KeepsLife(e, f) /\ f.read = "waiting"
        /\ f.write = e.write /\ f.queued = e.queued /\ f.socket = e.socket
    BY <1>1 DEF Members, KeepsLife
  <2> QED BY <1>1, <2>1, <2>2 DEF KeepsLife
<1>4. StartRead(d, what, throws) = IF throws THEN Close(e, TRUE) ELSE f
  BY DEF StartRead, e
<1> HIDE DEF f
<1>5. CASE throws
  <2>1. PICK g \in Members : g = Close(e, TRUE)
    BY <1>1, CloseIs
  <2>2. /\ Closes(e, g) /\ g.write = e.write /\ g.queued = e.queued /\ ~g.socket
    BY <1>1, <2>1, CloseIs
  <2>3. Closes(d, g)
    BY <1>1, <2>2 DEF Closes, KeepsLife
  <2> QED BY <1>1, <1>4, <1>5, <2>1, <2>2, <2>3
<1>6. CASE ~throws
  BY <1>3, <1>4, <1>6
<1> QED BY <1>5, <1>6

(* A call that starts a write, for a message in the queue.                 *)
LEMMA InternalSendIs ==
  ASSUME NEW d \in Members, NEW throws \in BOOLEAN, d.queued > 0, d.write = "none"
  PROVE  /\ InternalSend(d, throws) \in Members
         /\ QueueSound(InternalSend(d, throws))
         /\ InternalSend(d, throws).read = d.read
         /\ \/ Closes(d, InternalSend(d, throws))
            \/ KeepsLife(d, InternalSend(d, throws))
<1> DEFINE e == [d EXCEPT !.writeTimer = TRUE]
<1>1. /\ e \in Members /\ KeepsLife(d, e) /\ e.write = d.write
      /\ e.queued = d.queued /\ e.socket = d.socket /\ e.read = d.read
  BY DEF Members, KeepsLife
<1>2. "waiting" \in Operation
  BY DEF Operation
<1> HIDE DEF e
<1> DEFINE f == [e EXCEPT !.write = "waiting"]
<1>3. /\ f \in Members /\ KeepsLife(d, f) /\ f.read = d.read
      /\ f.write = "waiting" /\ f.queued = d.queued
  <2>1. f \in Members
    BY <1>1, <1>2 DEF Members
  <2>2. /\ KeepsLife(e, f) /\ f.read = e.read
        /\ f.write = "waiting" /\ f.queued = e.queued
    BY <1>1 DEF Members, KeepsLife
  <2> QED BY <1>1, <2>1, <2>2 DEF KeepsLife
<1>4. InternalSend(d, throws) = IF throws THEN Close(e, TRUE) ELSE f
  BY DEF InternalSend, e
<1> HIDE DEF f
<1>5. CASE throws
  <2>1. PICK g \in Members : g = Close(e, TRUE)
    BY <1>1, CloseIs
  <2>2. /\ Closes(e, g) /\ g.read = e.read /\ g.write = e.write /\ ~g.socket
    BY <1>1, <2>1, CloseIs
  <2>3. Closes(d, g)
    BY <1>1, <2>2 DEF Closes, KeepsLife
  <2>4. QueueSound(g)
    BY <1>1, <2>2 DEF QueueSound
  <2> QED BY <1>1, <1>4, <1>5, <2>1, <2>2, <2>3, <2>4
<1>6. CASE ~throws
  BY <1>3, <1>4, <1>6 DEF QueueSound
<1> QED BY <1>5, <1>6

(* Connection::send: a write is started only for the first message.        *)
LEMMA SendIs ==
  ASSUME NEW d \in Members, NEW throws \in BOOLEAN, QueueSound(d)
  PROVE  /\ Send(d, throws) \in Members
         /\ QueueSound(Send(d, throws))
         /\ Send(d, throws).read = d.read
         /\ Closes(d, Send(d, throws)) \/ KeepsLife(d, Send(d, throws))
<1>1. PICK n \in Nat : n = d.queued + 1
  BY DEF Members
<1> DEFINE e == [d EXCEPT !.queued = n]
<1>2. /\ e \in Members /\ KeepsLife(d, e) /\ e.write = d.write
      /\ e.queued = n /\ e.socket = d.socket /\ e.read = d.read
  BY DEF Members, KeepsLife
<1>3. Send(d, throws) = IF d.state = "DISCONNECTED" THEN d
                        ELSE IF d.queued = 0 THEN InternalSend(e, throws) ELSE e
  BY <1>1 DEF Send, Members
<1>4. n > 0 /\ d.queued \in Nat
  BY <1>1 DEF Members
<1> HIDE DEF e
<1>5. CASE d.state = "DISCONNECTED"
  BY <1>3, <1>5 DEF KeepsLife
<1>6. CASE d.state # "DISCONNECTED" /\ d.queued = 0
  <2>1. e.queued > 0 /\ e.write = "none"
    BY <1>2, <1>4, <1>6 DEF QueueSound
  <2> QED BY <1>2, <1>3, <1>6, <2>1, InternalSendIs DEF Closes, KeepsLife
<1>7. CASE d.state # "DISCONNECTED" /\ d.queued # 0
  BY <1>2, <1>3, <1>4, <1>7 DEF KeepsLife, QueueSound
<1> QED BY <1>5, <1>6, <1>7

(* Protocol::disconnect closes the connection, with a last message or      *)
(* without.                                                                *)
LEMMA DisconnectIs ==
  ASSUME NEW d \in Members, NEW message \in BOOLEAN, NEW throws \in BOOLEAN,
         QueueSound(d)
  PROVE  /\ Disconnect(d, message, throws) \in Members
         /\ QueueSound(Disconnect(d, message, throws))
         /\ Disconnect(d, message, throws).read = d.read
         /\ Closes(d, Disconnect(d, message, throws))
<1> DEFINE e == IF message THEN Send(d, throws) ELSE d
<1>1. /\ e \in Members /\ QueueSound(e) /\ e.read = d.read
      /\ Closes(d, e) \/ KeepsLife(d, e)
  BY SendIs DEF KeepsLife
<1>2. Disconnect(d, message, throws) = Close(e, FALSE)
  BY DEF Disconnect
<1> HIDE DEF e
<1>3. PICK f \in Members : f = Close(e, FALSE)
  BY <1>1, CloseIs
<1>4. /\ Closes(e, f) /\ f.read = e.read /\ f.write = e.write
      /\ f.queued = e.queued /\ (f.socket => e.socket)
  BY <1>1, <1>3, CloseIs
<1>5. QueueSound(f)
  BY <1>1, <1>4 DEF QueueSound
<1>6. d.releases \in Nat /\ e.releases \in Nat /\ f.releases \in Nat
  BY <1>1 DEF Members
<1>7. Closes(d, f)
  BY <1>1, <1>4, <1>6 DEF Closes, KeepsLife
<1> QED BY <1>1, <1>2, <1>3, <1>4, <1>5, <1>7

-----------------------------------------------------------------------------
(* What a handler may do to the life of a connection: bind it, open it, or *)
(* close it and release the protocol it then has.                          *)
Moves(d, e) ==
    /\ d.protocol => e.protocol
    /\ \/ /\ e.state = d.state /\ e.releases = d.releases
          /\ d.state = "DISCONNECTED" => e.protocol = d.protocol
       \/ /\ d.state # "DISCONNECTED" \/ d.releases > 0
          /\ e.state \in {"STAGE1", "STAGE2", "GAME"}
          /\ e.protocol = d.protocol /\ e.releases = d.releases
       \/ /\ e.state = "DISCONNECTED"
          /\ IF e.protocol THEN e.releases > d.releases ELSE e.releases = d.releases

(* The life that ConnectionLife sees.                                      *)
LEMMA MovesLife ==
  ASSUME Inv, ~gone, ~gone', c' \in Members, Moves(c, c')
  PROVE  [Life!Next]_(Life!lifeVars)
<1> USE DEF Life!lifeVars, Life!Next, Life!Bind, Life!Open, Life!Close, Closed
<1>1. /\ c.releases \in Nat /\ c'.releases \in Nat
      /\ c.protocol \in BOOLEAN /\ c'.protocol \in BOOLEAN
  BY DEF Inv, TypeOK, Members
<1>2. CASE /\ c'.state = c.state /\ c'.releases = c.releases
           /\ c.state = "DISCONNECTED" => c'.protocol = c.protocol
           /\ c.protocol => c'.protocol
  BY <1>1, <1>2 DEF Inv, ClosedReleases
<1>3. CASE /\ c.state # "DISCONNECTED" \/ c.releases > 0
           /\ c'.state \in {"STAGE1", "STAGE2", "GAME"}
           /\ c'.protocol = c.protocol /\ c'.releases = c.releases
  BY <1>1, <1>3
<1>4. CASE /\ c'.state = "DISCONNECTED" /\ (c.protocol => c'.protocol)
           /\ IF c'.protocol THEN c'.releases > c.releases ELSE c'.releases = c.releases
  BY <1>1, <1>4
<1> QED BY <1>2, <1>3, <1>4 DEF Moves

(* A handler of an object that is in use keeps the invariant if it leaves  *)
(* the queue sound, moves the life as it may, and goes on reading unless   *)
(* it closes.                                                              *)
LEMMA HandlerInv ==
  ASSUME Inv, ~gone, gone' = gone, c' \in Members, QueueSound(c'), Moves(c, c'),
         accepting' \in {"bound", "done"}, accepting' = "bound" => c'.protocol,
         timeouts' \in 0 .. MaxTimeouts, calls' \in 0 .. MaxCalls,
         \/ c'.state \in {"PENDING", "DISCONNECTED"} \/ c'.read # "none"
         \/ accepting' = "bound"
         \/ c'.state = c.state /\ c'.read = c.read /\ accepting' = accepting
  PROVE  Inv' /\ [Life!Next]_(Life!lifeVars)
<1>1. [Life!Next]_(Life!lifeVars)
  BY MovesLife
<1>2. TypeOK'
  BY DEF Inv, TypeOK
<1>3. WriteQueueSound'
  BY DEF QueueSound, WriteQueueSound
<1>4. Untouched' /\ BoundEarly' /\ GoneQuiet'
  BY DEF Inv, TypeOK, Untouched, BoundEarly, GoneQuiet, Moves
<1>5. c.releases \in Nat /\ c'.releases \in Nat
  BY DEF Inv, TypeOK, Members
<1>6. ClosedReleases'
  BY <1>5 DEF Inv, ClosedReleases, Moves
<1>7. OpenReads'
  BY <1>5 DEF Inv, OpenReads, Closed, Moves
<1> QED BY <1>1, <1>2, <1>3, <1>4, <1>6, <1>7 DEF Inv

(* A connection that waits in the manager is as ServicePort::accept made   *)
(* it.                                                                     *)
LEMMA InvInit == Init => Inv /\ Life!Init
<1> SUFFICES ASSUME Init PROVE Inv /\ Life!Init
  OBVIOUS
<1>1. "none" \in Operation
  BY DEF Operation
<1>2. TypeOK
  <2>1. c \in Members
    BY <1>1 DEF Init, Members
  <2>2. timeouts \in 0 .. MaxTimeouts /\ calls \in 0 .. MaxCalls
    BY ConnectionAssumption DEF Init
  <2> QED BY <2>1, <2>2 DEF Init, TypeOK
<1>3. /\ WriteQueueSound /\ Untouched /\ BoundEarly /\ ClosedReleases /\ OpenReads
      /\ GoneQuiet /\ Life!Init
  BY DEF Init, WriteQueueSound, Untouched, BoundEarly, ClosedReleases, OpenReads,
         GoneQuiet, Closed, Life!Init
<1> QED BY <1>2, <1>3 DEF Inv

(* Connection::accept opens the connection and reads the first header.     *)
LEMMA AcceptIs ==
  ASSUME NEW d \in Members, NEW throws \in BOOLEAN
  PROVE  /\ Accept(d, throws) \in Members
         /\ QueueSound(d) => QueueSound(Accept(d, throws))
         /\ throws => Closes(d, Accept(d, throws))
         /\ ~throws => /\ Accept(d, throws).read = "waiting"
                       /\ Accept(d, throws).state =
                             IF d.state = "PENDING" THEN "STAGE1" ELSE d.state
                       /\ Accept(d, throws).protocol = d.protocol
                       /\ Accept(d, throws).releases = d.releases
<1>1. PICK st \in {"STAGE1", "STAGE2", "GAME", "DISCONNECTED"} :
             st = IF d.state = "PENDING" THEN "STAGE1" ELSE d.state
  BY DEF Members
<1> DEFINE e == [d EXCEPT !.state = st]
<1>2. /\ e \in Members /\ e.state = st /\ e.protocol = d.protocol
      /\ e.releases = d.releases /\ e.write = d.write /\ e.queued = d.queued
      /\ e.socket = d.socket
  BY DEF Members
<1>3. Accept(d, throws) = StartRead(e, "header", throws)
  BY <1>1 DEF Accept, Members
<1> HIDE DEF e
<1>4. PICK g \in Members : g = StartRead(e, "header", throws)
  BY <1>2, StartReadIs
<1>5. /\ g.write = e.write /\ g.queued = e.queued /\ (g.socket => e.socket)
      /\ throws => Closes(e, g)
      /\ ~throws => KeepsLife(e, g) /\ g.read = "waiting"
  BY <1>2, <1>4, StartReadIs
<1>6. QueueSound(d) => QueueSound(g)
  BY <1>2, <1>5 DEF QueueSound
<1>7. throws => Closes(d, g)
  BY <1>2, <1>5 DEF Closes
<1> QED BY <1>1, <1>2, <1>3, <1>4, <1>5, <1>6, <1>7 DEF KeepsLife

(* ServicePort::onAccept keeps the invariant.                              *)
LEMMA AcceptInv ==
  ASSUME Inv, AcceptRefused \/ AcceptPlain \/ AcceptProtocol \/ AcceptFirst \/ AcceptError
  PROVE  Inv' /\ [Life!Next]_(Life!lifeVars)
<1>1. /\ timeouts \in 0 .. MaxTimeouts /\ calls \in 0 .. MaxCalls /\ c \in Members
      /\ QueueSound(c)
  BY DEF Inv, TypeOK, WriteQueueSound, QueueSound
<1>2. PICK a \in Members : a = Accepted
  BY <1>1 DEF Accepted, Members
<1>3. /\ KeepsLife(c, a) /\ a.read = c.read /\ a.write = c.write /\ a.queued = c.queued
  BY <1>1, <1>2 DEF Accepted, Members, KeepsLife
<1>4. CASE accepting = "listening"
  <2>1. /\ a.state = "PENDING" /\ ~a.protocol /\ a.releases = 0
        /\ a.write = "none" /\ QueueSound(a) /\ ~gone
    BY <1>3, <1>4 DEF Inv, Untouched, KeepsLife, QueueSound
  <2>2. CASE AcceptRefused
    <3>1. c' = Close(a, TRUE) /\ accepting' = "done" /\ UNCHANGED <<timeouts, calls, gone>>
      BY <1>2, <2>2 DEF AcceptRefused
    <3>2. c' \in Members /\ Closes(a, c') /\ QueueSound(c')
      BY <2>1, <3>1, CloseIs DEF QueueSound
    <3>3. Moves(c, c') /\ c'.state = "DISCONNECTED"
      BY <1>3, <2>1, <3>2 DEF Moves, Closes, KeepsLife
    <3> QED BY <1>1, <2>1, <3>1, <3>2, <3>3, HandlerInv
  <2>3. CASE AcceptPlain
    <3>1. PICK throws \in BOOLEAN : c' = Accept(a, throws)
      BY <1>2, <2>3 DEF AcceptPlain
    <3>2. accepting' = "done" /\ UNCHANGED <<timeouts, calls, gone>>
      BY <2>3 DEF AcceptPlain
    <3>3. /\ c' \in Members /\ QueueSound(c')
          /\ throws => Closes(a, c')
          /\ ~throws => /\ c'.read = "waiting" /\ c'.state = "STAGE1"
                        /\ c'.protocol = a.protocol /\ c'.releases = a.releases
      BY <2>1, <3>1, AcceptIs
    <3>4. /\ Moves(c, c')
          /\ c'.state = "DISCONNECTED" \/ c'.read # "none"
      BY <1>3, <2>1, <3>3 DEF Moves, Closes, KeepsLife
    <3> QED BY <1>1, <2>1, <3>2, <3>3, <3>4, HandlerInv
  <2>4. CASE AcceptProtocol
    <3>1. c' = [a EXCEPT !.protocol = TRUE] /\ accepting' = "bound"
          /\ UNCHANGED <<timeouts, calls, gone>>
      BY <1>2, <2>4 DEF AcceptProtocol
    <3>2. /\ c' \in Members /\ c'.protocol /\ c'.state = a.state
          /\ c'.releases = a.releases /\ c'.write = a.write /\ c'.queued = a.queued
          /\ c'.socket = a.socket
      BY <3>1 DEF Members
    <3>3. Moves(c, c') /\ QueueSound(c')
      BY <1>3, <2>1, <3>2 DEF Moves, KeepsLife, QueueSound
    <3> QED BY <1>1, <2>1, <3>1, <3>2, <3>3, HandlerInv
  <2>5. CASE AcceptError
    <3>1. c' = c /\ accepting' = "done" /\ UNCHANGED <<timeouts, calls, gone>>
      BY <2>5 DEF AcceptError
    <3>2. Moves(c, c') /\ c'.state = "PENDING"
      BY <1>3, <2>1, <3>1 DEF Moves, KeepsLife
    <3> QED BY <1>1, <2>1, <3>1, <3>2, HandlerInv
  <2> QED BY <1>4, <2>2, <2>3, <2>4, <2>5 DEF AcceptFirst
<1>5. CASE AcceptFirst
  <2>1. PICK throws \in BOOLEAN : c' = Accept([c EXCEPT !.state = "STAGE2"], throws)
    BY <1>5 DEF AcceptFirst
  <2>2. accepting = "bound" /\ accepting' = "done" /\ UNCHANGED <<timeouts, calls, gone>>
    BY <1>5 DEF AcceptFirst
  <2>3. PICK e \in Members : e = [c EXCEPT !.state = "STAGE2"]
    BY <1>1 DEF Members
  <2>4. /\ e.state = "STAGE2" /\ e.protocol = c.protocol /\ e.releases = c.releases
        /\ QueueSound(e)
    BY <1>1, <2>3 DEF Members, QueueSound
  <2>5. /\ c' \in Members /\ QueueSound(c')
        /\ throws => Closes(e, c')
        /\ ~throws => /\ c'.read = "waiting" /\ c'.state = "STAGE2"
                      /\ c'.protocol = e.protocol /\ c'.releases = e.releases
    BY <2>1, <2>3, <2>4, AcceptIs
  <2>6. c.protocol /\ ~gone /\ (c.state = "DISCONNECTED" => c.releases > 0)
    BY <2>2 DEF Inv, BoundEarly, ClosedReleases
  <2>7. /\ Moves(c, c')
        /\ c'.state = "DISCONNECTED" \/ c'.read # "none"
    BY <2>4, <2>5, <2>6 DEF Moves, Closes
  <2> QED BY <1>1, <2>2, <2>5, <2>6, <2>7, HandlerInv
<1> QED BY <1>4, <1>5 DEF AcceptRefused, AcceptPlain, AcceptProtocol, AcceptError

(* What asio does between the handlers, and the destructor.                *)
LEMMA NetworkInv ==
  ASSUME Inv, ReadCompletes \/ WriteCompletes \/ TimerExpires \/ Destroy \/ CloseAll
  PROVE  Inv' /\ [Life!Next]_(Life!lifeVars)
<1> USE DEF Life!lifeVars
<1>1. /\ timeouts \in 0 .. MaxTimeouts /\ calls \in 0 .. MaxCalls /\ c \in Members
      /\ MaxTimeouts \in Nat
  BY ConnectionAssumption DEF Inv, TypeOK
<1>2. CASE ReadCompletes
  <2>1. PICK r \in {"ok", "failed"} : c' = [c EXCEPT !.read = r]
    BY <1>2 DEF ReadCompletes
  <2>2. c.read = "waiting" /\ UNCHANGED <<accepting, timeouts, calls, gone>>
    BY <1>2 DEF ReadCompletes
  <2>3. r \in Operation /\ r # "none"
    BY DEF Operation
  <2>4. /\ c' \in Members /\ KeepsLife(c, c') /\ c'.read = r /\ c'.managed = c.managed
        /\ c'.write = c.write /\ c'.queued = c.queued /\ c'.socket = c.socket
    BY <1>1, <2>1, <2>3 DEF Members, KeepsLife
  <2> QED
    BY <2>2, <2>3, <2>4
    DEF Inv, TypeOK, WriteQueueSound, Untouched, BoundEarly, ClosedReleases, OpenReads,
        GoneQuiet, Closed, KeepsLife
<1>3. CASE WriteCompletes
  <2>1. PICK r \in {"ok", "failed"} : c' = [c EXCEPT !.write = r]
    BY <1>3 DEF WriteCompletes
  <2>2. c.write = "waiting" /\ UNCHANGED <<accepting, timeouts, calls, gone>>
    BY <1>3 DEF WriteCompletes
  <2>3. r \in Operation /\ r # "none"
    BY DEF Operation
  <2>4. /\ c' \in Members /\ KeepsLife(c, c') /\ c'.read = c.read /\ c'.managed = c.managed
        /\ c'.write = r /\ c'.queued = c.queued /\ c'.socket = c.socket
    BY <1>1, <2>1, <2>3 DEF Members, KeepsLife
  <2> QED
    BY <2>2, <2>3, <2>4
    DEF Inv, TypeOK, WriteQueueSound, Untouched, BoundEarly, ClosedReleases, OpenReads,
        GoneQuiet, Closed, KeepsLife
<1>4. CASE TimerExpires
  <2>1. /\ c' = [c EXCEPT !.readTimer = FALSE] \/ c' = [c EXCEPT !.writeTimer = FALSE]
        /\ c.readTimer \/ c.writeTimer
        /\ timeouts' \in 0 .. MaxTimeouts /\ UNCHANGED <<accepting, calls, gone>>
    BY <1>1, <1>4 DEF TimerExpires
  <2>2. accepting # "listening"
    BY <2>1 DEF Inv, Untouched
  <2>3. /\ c' \in Members /\ KeepsLife(c, c') /\ c'.read = c.read /\ c'.managed = c.managed
        /\ c'.write = c.write /\ c'.queued = c.queued /\ c'.socket = c.socket
    BY <1>1, <2>1 DEF Members, KeepsLife
  <2> QED
    BY <2>1, <2>2, <2>3
    DEF Inv, TypeOK, WriteQueueSound, Untouched, BoundEarly, ClosedReleases, OpenReads,
        GoneQuiet, Closed, KeepsLife
<1>5. CASE CloseAll
  <2>1. /\ c' = [c EXCEPT !.managed = FALSE, !.socket = FALSE]
        /\ UNCHANGED <<accepting, timeouts, calls, gone>>
    BY <1>5 DEF CloseAll
  <2>2. /\ c' \in Members /\ KeepsLife(c, c') /\ c'.read = c.read /\ ~c'.managed
        /\ c'.write = c.write /\ c'.queued = c.queued /\ ~c'.socket
        /\ c'.readTimer = c.readTimer /\ c'.writeTimer = c.writeTimer
    BY <1>1, <2>1 DEF Members, KeepsLife
  <2> QED
    BY <2>1, <2>2
    DEF Inv, TypeOK, WriteQueueSound, Untouched, BoundEarly, ClosedReleases, OpenReads,
        GoneQuiet, Closed, KeepsLife
<1>6. CASE Destroy
  <2>1. PICK e \in Members : e = CloseSocket(c)
    BY <1>1, CloseSocketIs
  <2>2. /\ ~gone /\ ~c.managed /\ accepting = "done" /\ c.read = "none" /\ c.write = "none"
        /\ gone' = TRUE /\ c' = [e EXCEPT !.readTimer = FALSE, !.writeTimer = FALSE]
        /\ UNCHANGED <<accepting, timeouts, calls>>
    BY <1>6, <2>1 DEF Destroy
  <2>3. /\ c' \in Members /\ KeepsLife(e, c') /\ c'.read = e.read /\ c'.managed = e.managed
        /\ c'.write = e.write /\ c'.queued = e.queued /\ c'.socket = e.socket
    BY <2>2 DEF Members, KeepsLife
  <2>4. /\ KeepsLife(c, c') /\ c'.read = "none" /\ ~c'.managed
        /\ c'.write = "none" /\ c'.queued = c.queued /\ ~c'.socket
    BY <1>1, <2>1, <2>2, <2>3, CloseSocketIs DEF KeepsLife
  <2>5. Inv'
    BY <2>2, <2>3, <2>4
    DEF Inv, TypeOK, WriteQueueSound, Untouched, BoundEarly, ClosedReleases, OpenReads,
        GoneQuiet, Closed, KeepsLife
  <2>6. Closed \/ c.state = "PENDING"
    BY <2>2 DEF Inv, OpenReads, Closed
  <2>7. Life!Destroy
    BY <2>2, <2>4, <2>6 DEF Life!Destroy, KeepsLife
  <2> QED BY <2>5, <2>7 DEF Life!Next
<1> QED BY <1>2, <1>3, <1>4, <1>5, <1>6

(* A header with a possible size is followed by its body.                  *)
LEMMA ReadSizeIs ==
  ASSUME NEW d \in Members, NEW possible \in BOOLEAN, NEW throws \in BOOLEAN, QueueSound(d)
  PROVE  /\ ReadSize(d, possible, throws) \in Members
         /\ QueueSound(ReadSize(d, possible, throws))
         /\ \/ Closes(d, ReadSize(d, possible, throws))
            \/ /\ ReadSize(d, possible, throws).read = "waiting"
               /\ \/ ReadSize(d, possible, throws).state = d.state
                  \/ d.state = "STAGE2" /\ ReadSize(d, possible, throws).state = "GAME"
               /\ ReadSize(d, possible, throws).protocol = d.protocol
               /\ ReadSize(d, possible, throws).releases = d.releases
<1>1. PICK st \in {"PENDING", "STAGE1", "STAGE2", "GAME", "DISCONNECTED"} :
             st = IF d.name = "done" /\ d.state = "STAGE2" THEN "GAME" ELSE d.state
  BY DEF Members
<1> DEFINE e == [d EXCEPT !.state = st]
<1>2. /\ e \in Members /\ e.state = st /\ e.protocol = d.protocol
      /\ e.releases = d.releases /\ e.write = d.write /\ e.queued = d.queued
      /\ e.socket = d.socket
  BY DEF Members
<1>3. ReadSize(d, possible, throws) =
        IF possible THEN StartRead(e, "body", throws) ELSE Close(e, TRUE)
  BY <1>1 DEF ReadSize, Members
<1> HIDE DEF e
<1>4. CASE possible
  <2>1. PICK g \in Members : g = StartRead(e, "body", throws)
    BY <1>2, StartReadIs
  <2>2. /\ g.write = e.write /\ g.queued = e.queued /\ (g.socket => e.socket)
        /\ throws => Closes(e, g)
        /\ ~throws => KeepsLife(e, g) /\ g.read = "waiting"
    BY <1>2, <2>1, StartReadIs
  <2>3. QueueSound(g)
    BY <1>2, <2>2 DEF QueueSound
  <2>4. throws => Closes(d, g)
    BY <1>2, <2>2 DEF Closes
  <2>5. ~throws => /\ g.read = "waiting" /\ g.protocol = d.protocol
                   /\ g.releases = d.releases /\ g.state = st
    BY <1>2, <2>2 DEF KeepsLife
  <2> QED BY <1>1, <1>3, <1>4, <2>1, <2>3, <2>4, <2>5
<1>5. CASE ~possible
  <2>1. PICK g \in Members : g = Close(e, TRUE)
    BY <1>2, CloseIs
  <2>2. Closes(e, g) /\ g.write = e.write /\ g.queued = e.queued /\ ~g.socket
    BY <1>2, <2>1, CloseIs
  <2>3. Closes(d, g) /\ QueueSound(g)
    BY <1>2, <2>2 DEF Closes, QueueSound
  <2> QED BY <1>3, <1>5, <2>1, <2>3
<1> QED BY <1>4, <1>5

(* What every handler of a read begins with.                               *)
LEMMA ReadHandled ==
  ASSUME Inv, c.read \in {"ok", "failed"}
  PROVE  /\ c \in Members /\ QueueSound(c) /\ ~gone /\ accepting \in {"bound", "done"}
         /\ accepting = "bound" => c.protocol
         /\ timeouts \in 0 .. MaxTimeouts /\ calls \in 0 .. MaxCalls
         /\ [c EXCEPT !.read = "none", !.readTimer = FALSE] \in Members
         /\ KeepsLife(c, [c EXCEPT !.read = "none", !.readTimer = FALSE])
         /\ QueueSound([c EXCEPT !.read = "none", !.readTimer = FALSE])
<1>1. c \in Members /\ QueueSound(c)
  BY DEF Inv, TypeOK, WriteQueueSound, QueueSound
<1>2. "none" \in Operation
  BY DEF Operation
<1>3. PICK d : d = [c EXCEPT !.read = "none", !.readTimer = FALSE]
  OBVIOUS
<1>4. d \in Members
  BY <1>1, <1>2, <1>3 DEF Members
<1>5. KeepsLife(c, d) /\ d.write = c.write /\ d.queued = c.queued /\ d.socket = c.socket
  BY <1>1, <1>3 DEF Members, KeepsLife
<1>6. QueueSound(d)
  BY <1>1, <1>5 DEF QueueSound
<1>7. /\ ~gone /\ accepting \in {"bound", "done"} /\ (accepting = "bound" => c.protocol)
      /\ timeouts \in 0 .. MaxTimeouts /\ calls \in 0 .. MaxCalls
  BY DEF Inv, TypeOK, Untouched, BoundEarly, GoneQuiet
<1> QED BY <1>1, <1>3, <1>4, <1>5, <1>6, <1>7

(* Connection::parseHeader keeps the invariant.                            *)
LEMMA ParseHeaderInv ==
  ASSUME Inv, ParseHeader
  PROVE  Inv' /\ [Life!Next]_(Life!lifeVars)
<1> DEFINE d == [c EXCEPT !.read = "none", !.readTimer = FALSE]
<1>1. c.read \in {"ok", "failed"} /\ UNCHANGED <<accepting, timeouts, calls, gone>>
  BY DEF ParseHeader
<1>2. /\ c \in Members /\ QueueSound(c) /\ ~gone /\ accepting \in {"bound", "done"}
      /\ accepting = "bound" => c.protocol
      /\ timeouts \in 0 .. MaxTimeouts /\ calls \in 0 .. MaxCalls
      /\ d \in Members /\ KeepsLife(c, d) /\ QueueSound(d)
  BY <1>1, ReadHandled
<1>3. ASSUME c' \in Members, QueueSound(c'), Moves(c, c'),
             c'.state \in {"PENDING", "DISCONNECTED"} \/ c'.read # "none"
      PROVE  Inv' /\ [Life!Next]_(Life!lifeVars)
  <2>1. accepting' = "bound" => c'.protocol
    BY <1>1, <1>2, <1>3 DEF Moves
  <2> QED BY <1>1, <1>2, <1>3, <2>1, HandlerInv
<1>4. ASSUME NEW e \in Members, KeepsLife(d, e), QueueSound(e), NEW force \in BOOLEAN,
             c' = Close(e, force)
      PROVE  Inv' /\ [Life!Next]_(Life!lifeVars)
  <2>1. /\ c' \in Members /\ Closes(e, c') /\ c'.write = e.write /\ c'.queued = e.queued
        /\ c'.socket => e.socket
    BY <1>4, CloseIs
  <2>2. QueueSound(c') /\ c'.state = "DISCONNECTED"
    BY <1>4, <2>1 DEF QueueSound, Closes
  <2>3. Moves(c, c')
    BY <1>2, <1>4, <2>1 DEF Moves, Closes, KeepsLife
  <2> QED BY <1>3, <2>1, <2>2, <2>3
<1>5. ASSUME NEW e \in Members, KeepsLife(d, e), QueueSound(e), NEW throws \in BOOLEAN,
             c' = Accept(e, throws), c.state # "DISCONNECTED"
      PROVE  Inv' /\ [Life!Next]_(Life!lifeVars)
  <2>1. /\ c' \in Members /\ QueueSound(c')
        /\ throws => Closes(e, c')
        /\ ~throws => /\ c'.read = "waiting" /\ c'.protocol = e.protocol
                      /\ c'.state = IF e.state = "PENDING" THEN "STAGE1" ELSE e.state
                      /\ c'.releases = e.releases
    BY <1>5, AcceptIs
  <2>2. c'.state = "DISCONNECTED" \/ c'.read # "none"
    BY <2>1 DEF Closes
  <2>3. Moves(c, c')
    BY <1>2, <1>5, <2>1 DEF Moves, Closes, KeepsLife
  <2> QED BY <1>3, <2>1, <2>2, <2>3
<1>6. ASSUME NEW e \in Members, KeepsLife(d, e), QueueSound(e), NEW possible \in BOOLEAN,
             NEW throws \in BOOLEAN, c' = ReadSize(e, possible, throws),
             c.state # "DISCONNECTED"
      PROVE  Inv' /\ [Life!Next]_(Life!lifeVars)
  <2>1. /\ c' \in Members /\ QueueSound(c')
        /\ \/ Closes(e, c')
           \/ /\ c'.read = "waiting" /\ c'.protocol = e.protocol
              /\ c'.state = e.state \/ (e.state = "STAGE2" /\ c'.state = "GAME")
              /\ c'.releases = e.releases
    BY <1>6, ReadSizeIs
  <2>2. c'.state = "DISCONNECTED" \/ c'.read # "none"
    BY <2>1 DEF Closes
  <2>3. Moves(c, c')
    BY <1>2, <1>6, <2>1 DEF Moves, Closes, KeepsLife
  <2> QED BY <1>3, <2>1, <2>2, <2>3
<1>7. ASSUME NEW h \in Handshake(d)
      PROVE  h[1] \in Members /\ KeepsLife(d, h[1]) /\ QueueSound(h[1])
  <2> HIDE DEF d
  <2>1. ASSUME NEW n \in {"name", "done"}
        PROVE  LET e == [d EXCEPT !.name = n]
               IN  e \in Members /\ KeepsLife(d, e) /\ QueueSound(e)
    BY <1>2, <2>1 DEF Members, KeepsLife, QueueSound
  <2>2. KeepsLife(d, d)
    BY DEF KeepsLife
  <2> QED BY <1>2, <1>7, <2>1, <2>2 DEF Handshake
<1>8. KeepsLife(d, d)
  BY DEF KeepsLife
<1> HIDE DEF d
<1>9. CASE c.read = "failed" /\ c' = Close(d, TRUE)
  BY <1>2, <1>4, <1>8, <1>9
<1>10. CASE c.read = "ok" /\ c.state = "DISCONNECTED" /\ c' = d
  <2>1. Moves(c, c') /\ c'.state = "DISCONNECTED"
    BY <1>2, <1>10 DEF Moves, KeepsLife
  <2> QED BY <1>2, <1>3, <1>10, <2>1
<1>11. CASE c.read = "ok" /\ c.state # "DISCONNECTED"
  <2>1. CASE c' = Close(d, FALSE)
    BY <1>2, <1>4, <1>8, <2>1
  <2>2. ASSUME NEW possible \in BOOLEAN, NEW throws \in BOOLEAN,
               c' = ReadSize(d, possible, throws)
        PROVE  Inv' /\ [Life!Next]_(Life!lifeVars)
    BY <1>2, <1>6, <1>8, <1>11, <2>2
  <2>3. ASSUME NEW possible \in BOOLEAN, NEW throws \in BOOLEAN, NEW h \in Handshake(d),
               c' = CASE h[2] = "header"   -> Accept(h[1], throws)
                      [] h[2] = "packet"   -> ReadSize(h[1], possible, throws)
                      [] h[2] = "mismatch" -> Close(h[1], TRUE)
        PROVE  Inv' /\ [Life!Next]_(Life!lifeVars)
    <3>1. h[1] \in Members /\ KeepsLife(d, h[1]) /\ QueueSound(h[1])
      BY <1>7
    <3>2. h[2] \in {"header", "packet", "mismatch"}
      BY DEF Handshake
    <3>3. \/ c' = Accept(h[1], throws) \/ c' = ReadSize(h[1], possible, throws)
          \/ c' = Close(h[1], TRUE)
      BY <2>3, <3>2
    <3> QED BY <1>4, <1>5, <1>6, <1>11, <3>1, <3>3
  <2> QED BY <1>11, <2>1, <2>2, <2>3 DEF ParseHeader, d
<1> QED BY <1>9, <1>10, <1>11 DEF ParseHeader, d

(* Connection::parsePacket keeps the invariant, also when the protocol     *)
(* disconnects while it parses and reading goes on afterwards.             *)
LEMMA ParsePacketInv ==
  ASSUME Inv, ParsePacket
  PROVE  Inv' /\ [Life!Next]_(Life!lifeVars)
<1> DEFINE d == [c EXCEPT !.read = "none", !.readTimer = FALSE]
           e == [d EXCEPT !.receivedFirst = TRUE]
           f == [e EXCEPT !.protocol = TRUE]
<1>1. c.read \in {"ok", "failed"} /\ UNCHANGED <<accepting, timeouts, calls, gone>>
  BY DEF ParsePacket
<1>2. /\ c \in Members /\ QueueSound(c) /\ ~gone /\ accepting \in {"bound", "done"}
      /\ accepting = "bound" => c.protocol
      /\ timeouts \in 0 .. MaxTimeouts /\ calls \in 0 .. MaxCalls
      /\ d \in Members /\ KeepsLife(c, d) /\ QueueSound(d)
  BY <1>1, ReadHandled
<1>3. ASSUME c' \in Members, QueueSound(c'), Moves(c, c'),
             c'.state \in {"PENDING", "DISCONNECTED"} \/ c'.read # "none"
      PROVE  Inv' /\ [Life!Next]_(Life!lifeVars)
  <2>1. accepting' = "bound" => c'.protocol
    BY <1>1, <1>2, <1>3 DEF Moves
  <2> QED BY <1>1, <1>2, <1>3, <2>1, HandlerInv
<1>4. ASSUME NEW g \in Members, KeepsLife(c, g), QueueSound(g), c' = Close(g, TRUE)
      PROVE  Inv' /\ [Life!Next]_(Life!lifeVars)
  <2>1. c' \in Members /\ Closes(g, c') /\ ~c'.socket /\ c'.write = g.write
        /\ c'.queued = g.queued
    BY <1>4, CloseIs
  <2>2. QueueSound(c') /\ c'.state = "DISCONNECTED" /\ Moves(c, c')
    BY <1>2, <1>4, <2>1 DEF QueueSound, Closes, Moves, KeepsLife
  <2> QED BY <1>3, <2>1, <2>2
<1>5. \/ c.read = "failed" /\ c' = Close(d, TRUE)
      \/ c.read = "ok" /\ c.state = "DISCONNECTED" /\ c' = d
      \/ /\ c.read = "ok" /\ c.state # "DISCONNECTED"
         /\ \/ c' = Close(e, TRUE)
            \/ \E throws \in BOOLEAN :
                 \/ c' = StartRead(f, "header", throws)
                 \/ \E message, sendThrows \in BOOLEAN :
                      c' = StartRead(Disconnect(f, message, sendThrows), "header", throws)
  BY DEF ParsePacket
<1> HIDE DEF d
<1>6. e \in Members /\ KeepsLife(d, e) /\ QueueSound(e)
  BY <1>2 DEF Members, KeepsLife, QueueSound
<1>7. KeepsLife(c, e)
  BY <1>2, <1>6 DEF KeepsLife
<1> HIDE DEF e
<1>8. /\ f \in Members /\ QueueSound(f) /\ f.protocol = TRUE /\ f.state = e.state
      /\ f.releases = e.releases
  BY <1>6 DEF Members, QueueSound
<1>9. f.state = c.state /\ f.releases = c.releases /\ f.releases \in Nat
  BY <1>7, <1>8 DEF KeepsLife, Members
<1> HIDE DEF f
<1>10. CASE c.read = "ok" /\ c.state = "DISCONNECTED" /\ c' = d
  <2>1. Moves(c, c') /\ c'.state = "DISCONNECTED"
    BY <1>2, <1>10 DEF Moves, KeepsLife
  <2> QED BY <1>2, <1>3, <1>10, <2>1
<1>11. ASSUME c.state # "DISCONNECTED", NEW throws \in BOOLEAN,
              c' = StartRead(f, "header", throws)
       PROVE  Inv' /\ [Life!Next]_(Life!lifeVars)
  <2>1. /\ c' \in Members /\ c'.write = f.write /\ c'.queued = f.queued
        /\ c'.socket => f.socket
        /\ throws => Closes(f, c')
        /\ ~throws => KeepsLife(f, c') /\ c'.read = "waiting"
    BY <1>8, <1>11, StartReadIs
  <2>2. QueueSound(c') /\ (c'.state = "DISCONNECTED" \/ c'.read # "none")
    BY <1>8, <2>1 DEF QueueSound, Closes
  <2>3. Moves(c, c')
    BY <1>8, <1>9, <1>11, <2>1 DEF Moves, Closes, KeepsLife
  <2> QED BY <1>3, <2>1, <2>2, <2>3
<1>12. ASSUME NEW throws \in BOOLEAN, NEW message \in BOOLEAN, NEW sendThrows \in BOOLEAN,
              c' = StartRead(Disconnect(f, message, sendThrows), "header", throws)
       PROVE  Inv' /\ [Life!Next]_(Life!lifeVars)
  <2>1. PICK g \in Members : g = Disconnect(f, message, sendThrows)
    BY <1>8, DisconnectIs
  <2>2. QueueSound(g) /\ Closes(f, g)
    BY <1>8, <2>1, DisconnectIs
  <2>3. /\ c' \in Members /\ c'.write = g.write /\ c'.queued = g.queued
        /\ c'.socket => g.socket
        /\ throws => Closes(g, c')
        /\ ~throws => KeepsLife(g, c')
    BY <1>12, <2>1, StartReadIs
  <2>4. QueueSound(c')
    BY <2>2, <2>3 DEF QueueSound
  <2>5. g.releases \in Nat /\ c'.releases \in Nat
    BY <2>3 DEF Members
  <2>6. c'.state = "DISCONNECTED" /\ c'.protocol /\ c'.releases > c.releases
    BY <1>8, <1>9, <2>2, <2>3, <2>5 DEF Closes, KeepsLife
  <2>7. Moves(c, c')
    BY <2>6 DEF Moves
  <2> QED BY <1>3, <2>3, <2>4, <2>6, <2>7
<1> QED BY <1>2, <1>4, <1>5, <1>6, <1>7, <1>10, <1>11, <1>12

(* Connection::onWriteOperation keeps the invariant: there is a message to *)
(* pop, and another write starts only if there is another message.         *)
LEMMA WriteInv ==
  ASSUME Inv, OnWriteOperation
  PROVE  Inv' /\ [Life!Next]_(Life!lifeVars)
<1>1. /\ c.write \in {"ok", "failed"} /\ UNCHANGED <<accepting, timeouts, calls, gone>>
  BY DEF OnWriteOperation
<1>2. /\ c \in Members /\ QueueSound(c) /\ ~gone /\ accepting \in {"bound", "done"}
      /\ accepting = "bound" => c.protocol
      /\ timeouts \in 0 .. MaxTimeouts /\ calls \in 0 .. MaxCalls
  BY <1>1 DEF Inv, TypeOK, WriteQueueSound, QueueSound, Untouched, BoundEarly, GoneQuiet
<1>3. PICK n \in Nat : n = c.queued - 1
  BY <1>1, <1>2 DEF Members, QueueSound
<1> DEFINE d == [c EXCEPT !.write = "none", !.writeTimer = FALSE, !.queued = n]
<1>4. "none" \in Operation
  BY DEF Operation
<1>5. /\ d \in Members
  BY <1>2, <1>4 DEF Members
<1>6. /\ KeepsLife(c, d) /\ d.read = c.read /\ d.write = "none" /\ d.queued = n
  BY <1>2 DEF Members, KeepsLife
<1>7. \/ c' = Close([d EXCEPT !.queued = 0], TRUE)
      \/ d.queued > 0 /\ \E throws \in BOOLEAN : c' = InternalSend(d, throws)
      \/ d.queued = 0 /\ c' = IF d.state = "DISCONNECTED" THEN CloseSocket(d) ELSE d
  <2>1. [c EXCEPT !.write = "none", !.writeTimer = FALSE, !.queued = @ - 1] = d
    BY <1>2, <1>3 DEF Members
  <2> QED BY <2>1 DEF OnWriteOperation
<1> HIDE DEF d
<1>8. ASSUME c' \in Members, QueueSound(c'), c'.read = c.read,
             Closes(d, c') \/ KeepsLife(d, c')
      PROVE  Inv' /\ [Life!Next]_(Life!lifeVars)
  <2>1. /\ Moves(c, c')
        /\ c'.state = "DISCONNECTED" \/ c'.state = c.state
    BY <1>2, <1>6, <1>8 DEF Moves, Closes, KeepsLife
  <2>2. accepting' = "bound" => c'.protocol
    BY <1>1, <1>2, <2>1 DEF Moves
  <2> QED BY <1>1, <1>2, <1>8, <2>1, <2>2, HandlerInv
<1>9. CASE c' = Close([d EXCEPT !.queued = 0], TRUE)
  <2>1. PICK e : e = [d EXCEPT !.queued = 0]
    OBVIOUS
  <2>2. /\ e \in Members /\ KeepsLife(d, e) /\ e.read = d.read /\ e.write = d.write
    BY <1>5, <2>1 DEF Members, KeepsLife
  <2>3. /\ c' \in Members /\ Closes(e, c') /\ c'.read = e.read /\ c'.write = e.write
        /\ ~c'.socket
    BY <1>9, <2>1, <2>2, CloseIs
  <2>4. QueueSound(c') /\ Closes(d, c') /\ c'.read = c.read
    BY <1>6, <2>2, <2>3 DEF QueueSound, Closes, KeepsLife
  <2> QED BY <1>8, <2>3, <2>4
<1>10. ASSUME d.queued > 0, NEW throws \in BOOLEAN, c' = InternalSend(d, throws)
       PROVE  Inv' /\ [Life!Next]_(Life!lifeVars)
  BY <1>5, <1>6, <1>8, <1>10, InternalSendIs
<1>11. CASE d.queued = 0 /\ c' = IF d.state = "DISCONNECTED" THEN CloseSocket(d) ELSE d
  <2>1. /\ c' \in Members /\ KeepsLife(d, c') /\ c'.read = d.read /\ c'.write = d.write
        /\ c'.queued = 0
    BY <1>5, <1>11, CloseSocketIs DEF KeepsLife
  <2>2. QueueSound(c')
    BY <1>6, <2>1 DEF QueueSound
  <2> QED BY <1>6, <1>8, <2>1, <2>2
<1> QED BY <1>7, <1>9, <1>10, <1>11

(* Timers that have expired, and the calls of the dispatcher thread.       *)
LEMMA CallInv ==
  ASSUME Inv, HandleTimeout \/ ProtocolSends \/ ProtocolDisconnects
  PROVE  Inv' /\ [Life!Next]_(Life!lifeVars)
<1>1. /\ c \in Members /\ QueueSound(c) /\ accepting \in {"listening", "bound", "done"}
      /\ timeouts \in 0 .. MaxTimeouts /\ calls \in 0 .. MaxCalls
      /\ MaxTimeouts \in Nat /\ MaxCalls \in Nat
      /\ accepting = "bound" => c.protocol
  BY ConnectionAssumption DEF Inv, TypeOK, WriteQueueSound, QueueSound, BoundEarly
<1>2. accepting \in {"bound", "done"}
  <2>1. timeouts > 0 \/ c.protocol
    BY DEF HandleTimeout, ProtocolSends, ProtocolDisconnects
  <2>2. accepting # "listening"
    BY <1>1, <2>1 DEF Inv, Untouched
  <2> QED BY <1>1, <2>2
<1>3. ASSUME ~gone, gone' = gone, c' \in Members, QueueSound(c'), c'.read = c.read,
             Closes(c, c') \/ KeepsLife(c, c'), accepting' = accepting,
             timeouts' \in 0 .. MaxTimeouts, calls' \in 0 .. MaxCalls
      PROVE  Inv' /\ [Life!Next]_(Life!lifeVars)
  <2>1. /\ Moves(c, c')
        /\ c'.state = "DISCONNECTED" \/ c'.state = c.state
    BY <1>3 DEF Moves, Closes, KeepsLife
  <2>2. accepting' = "bound" => c'.protocol
    BY <1>1, <1>3, <2>1 DEF Moves
  <2> QED BY <1>1, <1>2, <1>3, <2>1, <2>2, HandlerInv
<1>4. CASE HandleTimeout
  <2>1. timeouts' \in 0 .. MaxTimeouts /\ UNCHANGED <<accepting, calls, gone>>
    BY <1>1, <1>4 DEF HandleTimeout
  <2>2. CASE gone
    <3>1. c' = c
      BY <1>4, <2>2 DEF HandleTimeout
    <3> QED BY <1>2, <2>1, <3>1 DEF Inv, TypeOK, WriteQueueSound, Untouched, BoundEarly,
               ClosedReleases, OpenReads, GoneQuiet, Closed, Life!lifeVars
  <2>3. CASE ~gone
    <3>1. c' = Close(c, TRUE)
      BY <1>4, <2>3 DEF HandleTimeout
    <3>2. /\ c' \in Members /\ Closes(c, c') /\ c'.read = c.read /\ c'.write = c.write
          /\ c'.queued = c.queued /\ ~c'.socket
      BY <1>1, <3>1, CloseIs
    <3>3. QueueSound(c')
      BY <1>1, <3>2 DEF QueueSound
    <3> QED BY <1>1, <1>3, <2>1, <2>3, <3>2, <3>3
  <2> QED BY <2>2, <2>3
<1>5. CASE ProtocolSends
  <2>1. PICK throws \in BOOLEAN : c' = Send(c, throws)
    BY <1>5 DEF ProtocolSends
  <2>2. ~gone /\ calls' \in 0 .. MaxCalls /\ UNCHANGED <<accepting, timeouts, gone>>
    BY <1>1, <1>5 DEF ProtocolSends
  <2> QED BY <1>1, <1>3, <2>1, <2>2, SendIs
<1>6. CASE ProtocolDisconnects
  <2>1. PICK message \in BOOLEAN, throws \in BOOLEAN : c' = Disconnect(c, message, throws)
    BY <1>6 DEF ProtocolDisconnects
  <2>2. ~gone /\ calls' \in 0 .. MaxCalls /\ UNCHANGED <<accepting, timeouts, gone>>
    BY <1>1, <1>6 DEF ProtocolDisconnects
  <2> QED BY <1>1, <1>3, <2>1, <2>2, DisconnectIs
<1> QED BY <1>4, <1>5, <1>6

-----------------------------------------------------------------------------
(* Every step keeps the invariant and is a step of ConnectionLife or one   *)
(* that it does not see.                                                   *)
LEMMA InvNext == Inv /\ [Next]_vars => Inv' /\ [Life!Next]_(Life!lifeVars)
<1> SUFFICES ASSUME Inv, [Next]_vars PROVE Inv' /\ [Life!Next]_(Life!lifeVars)
  OBVIOUS
<1>1. CASE UNCHANGED vars
  <2>1. Inv'
    BY <1>1 DEF vars, Inv, TypeOK, WriteQueueSound, Untouched, BoundEarly, ClosedReleases,
                OpenReads, GoneQuiet, Closed
  <2>2. UNCHANGED Life!lifeVars
    BY <1>1 DEF vars, Life!lifeVars, Closed
  <2> QED BY <2>1, <2>2
<1>2. CASE Next
  BY <1>2, AcceptInv, NetworkInv, ParseHeaderInv, ParsePacketInv, WriteInv, CallInv
  DEF Next, Handlers
<1> QED BY <1>1, <1>2

(* The members of a Connection keep their types; no counter of messages or *)
(* releases becomes negative.                                              *)
THEOREM TypeCorrect == Spec => []TypeOK
<1>1. Inv => TypeOK
  BY DEF Inv
<1> QED BY <1>1, InvInit, InvNext, PTL DEF Spec

(* onWriteOperation always finds the message it has sent at the front of   *)
(* messageQueue, and a socket with messages left has a write under way,    *)
(* whatever closes, throws or times out in between.                        *)
THEOREM WriteQueueAlwaysSound == Spec => []WriteQueueSound
<1>1. Inv => WriteQueueSound
  BY DEF Inv
<1> QED BY <1>1, InvInit, InvNext, PTL DEF Spec

(* The connection implements ConnectionLife: whoever closes it posts the   *)
(* release of its protocol, it never opens again, and the object is not    *)
(* destroyed while it is open.                                             *)
THEOREM ConnectionImplementsLife == Spec => ImplementsLife
<1> QED BY InvInit, InvNext, PTL DEF Spec, ImplementsLife, Life!Spec
=============================================================================
