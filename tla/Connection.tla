----------------------------- MODULE Connection -----------------------------
(***************************************************************************)
(* One Connection object, from ServicePort::accept to its destructor.  The *)
(* network thread runs its completion handlers; the dispatcher thread      *)
(* calls send and close; both hold connectionLock while they do, so a      *)
(* handler is one step.  The one exception, accept(protocol), writes two   *)
(* members before it locks and is split.                                   *)
(*                                                                         *)
(* The object is kept alive by the manager's set and by the handlers of    *)
(* the read and the write that are under way, never by a timer.  An        *)
(* operation completes in one step and its handler runs in a later one: a  *)
(* handler may run after the socket was closed although its operation had  *)
(* succeeded, and a timer that has expired can no longer be cancelled.     *)
(***************************************************************************)
EXTENDS Naturals

CONSTANTS MaxCalls,     \* calls of send and close by the dispatcher thread
          MaxTimeouts   \* expired timers whose handlers have not run

ASSUME ConnectionAssumption == MaxCalls \in Nat /\ MaxTimeouts \in Nat

VARIABLES c,           \* the members of the object
          accepting,   \* where ServicePort::onAccept is with it
          timeouts,    \* queued calls of handleTimeout, not aborted
          calls,       \* calls made so far by the dispatcher thread
          gone         \* the object has been destroyed

vars == <<c, accepting, timeouts, calls, gone>>

Operation == {"none", "waiting", "ok", "failed"}

(* What the members hold.                                                  *)
Members == [state: {"PENDING", "STAGE1", "STAGE2", "GAME", "DISCONNECTED"},
            protocol: BOOLEAN, receivedFirst: BOOLEAN,
            name: {"none", "name", "done"},  \* receivedName, receivedLastChar
            managed: BOOLEAN, socket: BOOLEAN,
            reading: {"header", "body"}, read: Operation, write: Operation,
            readTimer: BOOLEAN, writeTimer: BOOLEAN,
            queued: Nat,                     \* size of messageQueue
            releases: Nat]                   \* release tasks posted

TypeOK == /\ c \in Members
          /\ accepting \in {"listening", "bound", "done"}
          /\ timeouts \in 0 .. MaxTimeouts
          /\ calls \in 0 .. MaxCalls
          /\ gone \in BOOLEAN

(* ServicePort::accept creates the object and waits for a client.          *)
Init == /\ c = [state |-> "PENDING", protocol |-> FALSE, receivedFirst |-> FALSE,
                name |-> "none", managed |-> TRUE, socket |-> FALSE,
                reading |-> "header", read |-> "none", write |-> "none",
                readTimer |-> FALSE, writeTimer |-> FALSE,
                queued |-> 0, releases |-> 0]
        /\ accepting = "listening"
        /\ timeouts = 0
        /\ calls = 0
        /\ gone = FALSE

-----------------------------------------------------------------------------
(* What the member functions make of the object.                           *)

CloseSocket(d) ==
    IF d.socket
    THEN [d EXCEPT !.socket = FALSE, !.readTimer = FALSE, !.writeTimer = FALSE]
    ELSE d

(* Variant: a forced close drops the messages that are waiting.            *)
CloseClearing(d, force) ==
    LET e == [d EXCEPT !.managed = FALSE, !.state = "DISCONNECTED",
                       !.queued = IF force THEN 0 ELSE @,
                       !.releases = @ + (IF d.protocol THEN 1 ELSE 0)]
    IN  IF e.queued = 0 \/ force THEN CloseSocket(e) ELSE e

(* Variant: only a close that also closes the socket posts the release.    *)
CloseLateRelease(d, force) ==
    LET e == [d EXCEPT !.managed = FALSE, !.state = "DISCONNECTED"]
    IN  IF e.queued = 0 \/ force
        THEN CloseSocket([e EXCEPT !.releases = @ + (IF d.protocol THEN 1 ELSE 0)])
        ELSE e

Close(d, force) ==
    LET e == [d EXCEPT !.managed = FALSE, !.state = "DISCONNECTED",
                       !.releases = @ + (IF d.protocol THEN 1 ELSE 0)]
    IN  IF e.queued = 0 \/ force THEN CloseSocket(e) ELSE e

(* Starting an operation may throw, which closes the connection.           *)
StartRead(d, what, throws) ==
    LET e == [d EXCEPT !.readTimer = TRUE]
    IN  IF throws THEN Close(e, TRUE)
        ELSE [e EXCEPT !.reading = what, !.read = "waiting"]

(* Variant: the write timer is not started.                                *)
InternalSendUntimed(d, throws) ==
    IF throws THEN Close(d, TRUE) ELSE [d EXCEPT !.write = "waiting"]

InternalSend(d, throws) ==
    LET e == [d EXCEPT !.writeTimer = TRUE]
    IN  IF throws THEN Close(e, TRUE) ELSE [e EXCEPT !.write = "waiting"]

Send(d, throws) ==
    LET e == [d EXCEPT !.queued = @ + 1]
    IN  IF d.state = "DISCONNECTED" THEN d
        ELSE IF d.queued = 0 THEN InternalSend(e, throws)
        ELSE e

Accept(d, throws) ==
    StartRead([d EXCEPT !.state = IF @ = "PENDING" THEN "STAGE1" ELSE @],
              "header", throws)

(* Protocol::disconnect, with or without a last message.                   *)
Disconnect(d, message, throws) ==
    Close(IF message THEN Send(d, throws) ELSE d, FALSE)

-----------------------------------------------------------------------------
(* ServicePort::onAccept, with the socket of a client.                     *)

Accepted == [c EXCEPT !.socket = TRUE]

(* No remote address, or too many connections from it.                     *)
AcceptRefused ==
    /\ accepting = "listening"
    /\ accepting' = "done"
    /\ c' = Close(Accepted, TRUE)
    /\ UNCHANGED <<timeouts, calls, gone>>

AcceptPlain ==
    /\ accepting = "listening"
    /\ accepting' = "done"
    /\ \E throws \in BOOLEAN : c' = Accept(Accepted, throws)
    /\ UNCHANGED <<timeouts, calls, gone>>

(* The service sends first: the protocol is made and onConnect is posted,  *)
(* so that the dispatcher may already send.                                *)
AcceptProtocol ==
    /\ accepting = "listening"
    /\ accepting' = "bound"
    /\ c' = [Accepted EXCEPT !.protocol = TRUE]
    /\ UNCHANGED <<timeouts, calls, gone>>

AcceptFirst ==
    /\ accepting = "bound"
    /\ accepting' = "done"
    /\ \E throws \in BOOLEAN : c' = Accept([c EXCEPT !.state = "STAGE2"], throws)
    /\ UNCHANGED <<timeouts, calls, gone>>

(* The acceptor failed or was closed: the object stays with the manager.   *)
AcceptError ==
    /\ accepting = "listening"
    /\ accepting' = "done"
    /\ UNCHANGED <<c, timeouts, calls, gone>>

-----------------------------------------------------------------------------
(* The network, and boost::asio.                                           *)

ReadCompletes ==
    /\ c.read = "waiting"
    /\ \E r \in {"ok", "failed"} : /\ r = "ok" => c.socket
                                   /\ c' = [c EXCEPT !.read = r]
    /\ UNCHANGED <<accepting, timeouts, calls, gone>>

WriteCompletes ==
    /\ c.write = "waiting"
    /\ \E r \in {"ok", "failed"} : /\ r = "ok" => c.socket
                                   /\ c' = [c EXCEPT !.write = r]
    /\ UNCHANGED <<accepting, timeouts, calls, gone>>

TimerExpires ==
    /\ timeouts < MaxTimeouts
    /\ \/ c.readTimer  /\ c' = [c EXCEPT !.readTimer = FALSE]
       \/ c.writeTimer /\ c' = [c EXCEPT !.writeTimer = FALSE]
    /\ timeouts' = timeouts + 1
    /\ UNCHANGED <<accepting, calls, gone>>

(* The last reference goes: the destructor closes the socket, and the      *)
(* timers go with the object.                                              *)
Destroy ==
    /\ ~gone
    /\ ~c.managed /\ accepting = "done" /\ c.read = "none" /\ c.write = "none"
    /\ gone' = TRUE
    /\ c' = [CloseSocket(c) EXCEPT !.readTimer = FALSE, !.writeTimer = FALSE]
    /\ UNCHANGED <<accepting, timeouts, calls>>

-----------------------------------------------------------------------------
(* The handlers.                                                           *)

(* The name that the client sends first, a character at a time: the object *)
(* after this read, and whether reading goes on with another header.       *)
Handshake(d) ==
    IF d.name = "none"
    THEN {<<[d EXCEPT !.name = "done"], "packet">>,
          <<[d EXCEPT !.name = "name"], "header">>, <<d, "mismatch">>}
    ELSE {<<[d EXCEPT !.name = "done"], "header">>, <<d, "header">>, <<d, "mismatch">>}

(* A header with the size of a packet, which must be a possible one.       *)
ReadSize(d, possible, throws) ==
    LET e == [d EXCEPT !.state = IF d.name = "done" /\ @ = "STAGE2" THEN "GAME" ELSE @]
    IN  IF possible THEN StartRead(e, "body", throws) ELSE Close(e, TRUE)

ParseHeader ==
    /\ c.read \in {"ok", "failed"} /\ c.reading = "header"
    /\ LET d == [c EXCEPT !.read = "none", !.readTimer = FALSE]
       IN  \/ c.read = "failed" /\ c' = Close(d, TRUE)
           \/ c.read = "ok" /\ c.state = "DISCONNECTED" /\ c' = d
           \/ /\ c.read = "ok" /\ c.state # "DISCONNECTED"
              /\ \/ c' = Close(d, FALSE)             \* too many packets
                 \/ \E possible, throws \in BOOLEAN :
                      IF c.name # "done" /\ c.state = "STAGE2"
                      THEN \E h \in Handshake(d) :
                             c' = CASE h[2] = "header"   -> Accept(h[1], throws)
                                    [] h[2] = "packet"   -> ReadSize(h[1], possible, throws)
                                    [] h[2] = "mismatch" -> Close(h[1], TRUE)
                      ELSE c' = ReadSize(d, possible, throws)
    /\ UNCHANGED <<accepting, timeouts, calls, gone>>

(* The first message finds or makes its protocol; any message may make the *)
(* protocol disconnect, and reading goes on even then.                     *)
ParsePacket ==
    /\ c.read \in {"ok", "failed"} /\ c.reading = "body"
    /\ LET d == [c EXCEPT !.read = "none", !.readTimer = FALSE]
       IN  \/ c.read = "failed" /\ c' = Close(d, TRUE)
           \/ c.read = "ok" /\ c.state = "DISCONNECTED" /\ c' = d
           \/ /\ c.read = "ok" /\ c.state # "DISCONNECTED"
              /\ LET e == [d EXCEPT !.receivedFirst = TRUE]
                     f == [e EXCEPT !.protocol = TRUE]
                 IN  \/ ~c.receivedFirst /\ ~c.protocol /\ c' = Close(e, TRUE)
                     \/ \E throws \in BOOLEAN :
                          \/ c' = StartRead(f, "header", throws)
                          \/ \E message, sendThrows \in BOOLEAN :
                               c' = StartRead(Disconnect(f, message, sendThrows),
                                              "header", throws)
    /\ UNCHANGED <<accepting, timeouts, calls, gone>>

OnWriteOperation ==
    /\ c.write \in {"ok", "failed"}
    /\ LET d == [c EXCEPT !.write = "none", !.writeTimer = FALSE, !.queued = @ - 1]
       IN  \/ c.write = "failed" /\ c' = Close([d EXCEPT !.queued = 0], TRUE)
           \/ /\ c.write = "ok" /\ d.queued > 0
              /\ \E throws \in BOOLEAN : c' = InternalSend(d, throws)
           \/ /\ c.write = "ok" /\ d.queued = 0
              /\ c' = IF d.state = "DISCONNECTED" THEN CloseSocket(d) ELSE d
    /\ UNCHANGED <<accepting, timeouts, calls, gone>>

HandleTimeout ==
    /\ timeouts > 0
    /\ timeouts' = timeouts - 1
    /\ c' = IF gone THEN c ELSE Close(c, TRUE)
    /\ UNCHANGED <<accepting, calls, gone>>

-----------------------------------------------------------------------------
(* The dispatcher thread, which has only a weak pointer, and the shutdown. *)

ProtocolSends ==
    /\ ~gone /\ c.protocol /\ calls < MaxCalls
    /\ calls' = calls + 1
    /\ \E throws \in BOOLEAN : c' = Send(c, throws)
    /\ UNCHANGED <<accepting, timeouts, gone>>

ProtocolDisconnects ==
    /\ ~gone /\ c.protocol /\ calls < MaxCalls
    /\ calls' = calls + 1
    /\ \E message, throws \in BOOLEAN : c' = Disconnect(c, message, throws)
    /\ UNCHANGED <<accepting, timeouts, gone>>

(* ConnectionManager::closeAll: neither state nor timers are touched.      *)
CloseAll ==
    /\ c.managed
    /\ c' = [c EXCEPT !.managed = FALSE, !.socket = FALSE]
    /\ UNCHANGED <<accepting, timeouts, calls, gone>>

Handlers == ParseHeader \/ ParsePacket \/ OnWriteOperation \/ HandleTimeout

(* A closed socket ends its operations; on an open one the peer decides.   *)
OperationsEnd == ~c.socket /\ (ReadCompletes \/ WriteCompletes)

Next == \/ AcceptRefused \/ AcceptPlain \/ AcceptProtocol \/ AcceptFirst \/ AcceptError
        \/ ReadCompletes \/ WriteCompletes \/ TimerExpires \/ Destroy
        \/ Handlers
        \/ ProtocolSends \/ ProtocolDisconnects \/ CloseAll

(* The network thread runs the handlers that are ready, asio completes the *)
(* operations of a closed socket, and time passes.                         *)
Fairness == /\ WF_vars(AcceptFirst)
            /\ WF_vars(ParseHeader) /\ WF_vars(ParsePacket)
            /\ WF_vars(OnWriteOperation) /\ WF_vars(HandleTimeout)
            /\ WF_vars(OperationsEnd) /\ WF_vars(TimerExpires) /\ WF_vars(Destroy)

Spec == Init /\ [][Next]_vars /\ Fairness

-----------------------------------------------------------------------------
Closed == c.state = "DISCONNECTED" \/ c.releases > 0

Life == INSTANCE ConnectionLife WITH
            life <- IF gone THEN "gone"
                    ELSE IF Closed THEN "closed"
                    ELSE IF c.state = "PENDING" THEN "new"
                    ELSE "open",
            bound <- c.protocol,
            releases <- c.releases

(* The connection keeps the promise that ConnectionLife states: whoever    *)
(* closes it, in whatever state, posts the release of its protocol, and    *)
(* the object does not go away before.                                     *)
ImplementsLife == Life!Spec

(* While a write is under way its message is at the front of messageQueue, *)
(* so that the pop_front of onWriteOperation has an element to take, and a *)
(* socket that waits for its last messages has a write under way.          *)
WriteQueueSound ==
    /\ c.write # "none" => c.queued > 0
    /\ c.queued > 0 /\ c.socket => c.write # "none"

(* A connection that was closed, even one that lets its last messages out  *)
(* to a peer that has stopped reading, is destroyed in the end.            *)
ClosedConnectionsEnd == Closed ~> gone
=============================================================================
