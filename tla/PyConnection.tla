----------------------------- MODULE PyConnection -----------------------------
(***************************************************************************)
(* class connection of the Python package (scanner.py) and what the stream *)
(* classes status, imu and point_cloud do with one: requests, frames read  *)
(* with a bare recv(), and stop().  One thread uses a connection.          *)
(*                                                                         *)
(* TCP carries parts, not messages: a message is two parts of length       *)
(* prefix and two of body, and both sides may see a message in pieces.     *)
(***************************************************************************)
EXTENDS Naturals, Sequences

CONSTANTS
    Ops,         \* what the application does, see Call
    MayFail,     \* the device may answer with an error
    MayClose,    \* the device may close the connection
    MayTimeout,  \* a socket operation may exceed the timeout of the socket
    SendBuffer,  \* parts that send() accepts before the device reads them
    MaxRequests, \* bound: calls
    MaxEvents    \* bound: events of the device

ASSUME ParamsAssumption ==
    /\ Ops \subseteq {"get", "subscribe", "next", "stop"}
    /\ MayFail \in BOOLEAN /\ MayClose \in BOOLEAN /\ MayTimeout \in BOOLEAN
    /\ SendBuffer \in Nat /\ MaxRequests \in Nat /\ MaxEvents \in Nat

VARIABLES
    pc, call,  \* the thread, and its latest call
    need,      \* n of the current __recv_all()
    data,      \* the parts it has received
    result,    \* how the latest call ended
    open,      \* the socket is open
    calls,
    \* the device and the TCP streams
    toDevice, toClient, streaming, events, closed,
    \* history: messages the device sent, messages the application got,
    \* requests the device answered, and faults that lost part of a message
    sent, returned, answered, timeouts, lostParts

clientVars  == <<pc, call, need, data, result, open, calls>>
deviceVars  == <<toDevice, toClient, streaming, events, closed>>
historyVars == <<sent, returned, answered, timeouts, lostParts>>
vars == <<clientVars, deviceVars, historyVars>>

(* A message has the number of the request that it is or answers; a frame  *)
(* has a number of its own.                                                *)
Message(kind, id) == [kind |-> kind, id |-> id]
NoMessage == Message("none", 0)
Garbage   == Message("garbage", 0)
Failure   == Message("failure", 0)

PrefixParts == 2
BodyParts == 2
Part(m, k) == [of |-> m, part |-> k]
Prefix(m) == <<Part(m, 1), Part(m, 2)>>
Body(m)   == <<Part(m, 3), Part(m, 4)>>
Wire(m)   == Prefix(m) \o Body(m)

Init == /\ pc = "idle" /\ call = Message("none", 0)
        /\ need = 0 /\ data = <<>>
        /\ result = NoMessage /\ open = TRUE /\ calls = 0
        /\ toDevice = <<>> /\ toClient = <<>>
        /\ streaming = FALSE /\ events = 0 /\ closed = FALSE
        /\ sent = <<>> /\ returned = <<>> /\ answered = {}
        /\ timeouts = 0 /\ lostParts = FALSE

-----------------------------------------------------------------------------
(* The call ends; a message that recv() returns or raises is returned.     *)
End(m) == /\ pc' = "idle"
          /\ result' = m

(* The exception leaves __recv_all(), whose local variable held the parts. *)
Fail == /\ End(Failure)
        /\ data' = <<>>
        /\ need' = 0

StartRecv == /\ pc' = "length"
             /\ need' = PrefixParts
             /\ data' = <<>>

(* Request methods ("get") use the connection of the scanner.  A stream    *)
(* has a connection of its own: its constructor subscribes, recv() gets    *)
(* the next frame, and stop() (also called by __del__) closes it.          *)
MayCall(op) ==
    CASE op = "get"       -> call.kind \in {"none", "get"}
      [] op = "subscribe" -> call.kind = "none"
      [] op = "next"      -> /\ open
                             /\ \/ call.kind = "next"
                                \/ call.kind = "subscribe" /\ result.kind = "event"
      [] op = "stop"      -> call.kind \in {"subscribe", "next", "stop"}

Call(op) ==
    /\ pc = "idle" /\ calls < MaxRequests /\ MayCall(op)
    /\ calls' = calls + 1
    /\ call' = Message(op, calls + 1)
    /\ result' = NoMessage
    /\ \/ op = "next" /\ StartRecv
       \/ op = "stop" /\ ~open /\ UNCHANGED <<pc, need, data>>  \* fileno() == -1
       \/ /\ op # "next" /\ open
          /\ pc' = "send" /\ UNCHANGED <<need, data>>
    /\ UNCHANGED <<open, deviceVars, historyVars>>

(* socket.send() returns how many parts it took, at least one; nobody      *)
(* looks at the number.                                                    *)
Accepted(parts) ==
    LET free == SendBuffer - Len(toDevice)
    IN IF Len(parts) <= free THEN Len(parts) ELSE free

SocketSend(parts) ==
    /\ Accepted(parts) > 0
    /\ toDevice' = toDevice \o SubSeq(parts, 1, Accepted(parts))
    /\ lostParts' = (lostParts \/ Accepted(parts) < Len(parts))
    /\ UNCHANGED <<result, timeouts>>

(* The send buffer stays full, or the device has closed the connection     *)
(* (a write may still succeed then).                                       *)
SocketSendFails ==
    /\ \/ /\ SendBuffer = Len(toDevice) /\ MayTimeout
          /\ timeouts' = timeouts + 1
       \/ /\ closed
          /\ UNCHANGED timeouts
    /\ End(Failure)
    /\ lostParts' = (lostParts \/ pc = "send_body")
    /\ UNCHANGED <<toDevice, need, data, open>>

(* send() makes two calls of socket.send(). *)
SendPrefix ==
    /\ pc = "send"
    /\ \/ SocketSend(Prefix(call)) /\ pc' = "send_body" /\ UNCHANGED <<need, data, open>>
       \/ SocketSendFails
    /\ UNCHANGED <<call, calls, toClient, streaming, events, closed,
                   sent, returned, answered>>

(* stop() closes the connection without waiting for the response. *)
SendBody ==
    /\ pc = "send_body"
    /\ \/ /\ SocketSend(Body(call))
          /\ IF call.kind = "stop"
             THEN pc' = "idle" /\ open' = FALSE /\ UNCHANGED <<need, data>>
             ELSE StartRecv /\ UNCHANGED open
       \/ SocketSendFails
    /\ UNCHANGED <<call, calls, toClient, streaming, events, closed,
                   sent, returned, answered>>

Receiving == pc \in {"length", "body"} /\ Len(data) < need

WholeLength == need  \* bug: n is asked for again, not n - len(data)
Missing == need - Len(data)

(* socket.recv() in __recv_all() returns some of the parts that are there. *)
Packet ==
    /\ Receiving
    /\ \E k \in 1 .. Missing :
         /\ k <= Len(toClient)
         /\ data' = data \o SubSeq(toClient, 1, k)
         /\ toClient' = SubSeq(toClient, k + 1, Len(toClient))
    /\ UNCHANGED <<pc, call, need, result, open, calls, toDevice, streaming, events,
                   closed, historyVars>>

SocketTimeout ==
    /\ MayTimeout /\ Receiving /\ toClient = <<>> /\ ~closed
    /\ timeouts' = timeouts + 1
    /\ lostParts' = (lostParts \/ data # <<>> \/ pc = "body")
    /\ Fail
    /\ UNCHANGED <<call, open, calls, deviceVars, sent, returned, answered>>

EmptyPacketIgnored ==  \* bug: b'' is appended and recv() called again
    Receiving /\ toClient = <<>> /\ closed /\ UNCHANGED vars

EmptyPacket ==
    /\ Receiving /\ toClient = <<>> /\ closed
    /\ Fail
    /\ UNCHANGED <<call, open, calls, deviceVars, historyVars>>

(* struct.unpack() of the four bytes, whatever they are. *)
Lengths(parts) == IF parts = Prefix(parts[1].of)
                  THEN {BodyParts} ELSE 0 .. BodyParts + 1
Length ==
    /\ pc = "length" /\ ~Receiving
    /\ pc' = "body"
    /\ need' \in Lengths(data)
    /\ data' = <<>>
    /\ UNCHANGED <<call, result, open, calls, deviceVars, historyVars>>

(* ParseFromString() of the body, whatever it is: a message, an error that *)
(* is raised, an undecodable message, or one that happens to be decodable. *)
Parsed(parts) == IF parts # <<>> /\ parts = Body(parts[1].of)
                 THEN {parts[1].of} ELSE {Garbage, Failure}
Parse ==
    /\ pc = "body" /\ ~Receiving
    /\ \E m \in Parsed(data) :
         /\ End(m)
         /\ returned' = IF m = Failure THEN returned ELSE Append(returned, m)
    /\ data' = <<>> /\ need' = 0
    /\ UNCHANGED <<call, open, calls, deviceVars, sent, answered, timeouts, lostParts>>

-----------------------------------------------------------------------------
(* The device. *)

DeviceSend(m) == /\ toClient' = toClient \o Wire(m)
                 /\ sent' = Append(sent, m)

(* A whole request is there: it is answered, and may start a stream. *)
DeviceAnswer ==
    /\ ~closed /\ Len(toDevice) >= 4
    /\ LET q == toDevice[1].of IN
         /\ SubSeq(toDevice, 1, 4) = Wire(q)
         /\ \/ /\ DeviceSend(Message(IF q.kind = "subscribe" THEN "event" ELSE "reply", q.id))
               /\ streaming' = (streaming \/ q.kind = "subscribe")
            \/ /\ MayFail
               /\ DeviceSend(Message("error", q.id))
               /\ UNCHANGED streaming
         /\ answered' = answered \union {q.id}
    /\ toDevice' = SubSeq(toDevice, 5, Len(toDevice))
    /\ UNCHANGED <<clientVars, events, closed, returned, timeouts, lostParts>>

DeviceEvent ==
    /\ ~closed /\ streaming /\ events < MaxEvents
    /\ events' = events + 1
    /\ DeviceSend(Message("frame", events + 1))
    /\ UNCHANGED <<clientVars, toDevice, streaming, closed, returned, answered, timeouts,
                   lostParts>>

(* The device may close, and does when it cannot make sense of a request.  *)
DeviceClose ==
    /\ ~closed
    /\ \/ MayClose
       \/ Len(toDevice) >= 4 /\ SubSeq(toDevice, 1, 4) # Wire(toDevice[1].of)
    /\ closed' = TRUE
    /\ UNCHANGED <<clientVars, toDevice, toClient, streaming, events, historyVars>>

(* The application wants nothing any more. *)
Finished == /\ pc = "idle" /\ (calls = MaxRequests \/ \A op \in Ops : ~MayCall(op))
            /\ UNCHANGED vars

ClientStep == SendPrefix \/ SendBody \/ Packet \/ SocketTimeout \/ EmptyPacket
              \/ Length \/ Parse
Next == \/ \E op \in Ops : Call(op)
        \/ ClientStep
        \/ DeviceAnswer \/ DeviceEvent \/ DeviceClose
        \/ Finished

(* The thread runs, and a timeout of the socket eventually expires. *)
Spec == Init /\ [][Next]_vars /\ WF_vars(ClientStep)
-----------------------------------------------------------------------------
Kinds == {"none", "get", "subscribe", "next", "stop", "reply", "event", "error", "frame",
          "garbage", "failure"}
Messages == [kind : Kinds, id : Nat]
Parts == [of : Messages, part : 1 .. PrefixParts + BodyParts]

(* Types; __recv_all() never holds more than it asked for. *)
TypeOK ==
    /\ pc \in {"idle", "send", "send_body", "length", "body"}
    /\ call \in Messages /\ result \in Messages
    /\ need \in 0 .. BodyParts + 1 /\ data \in Seq(Parts) /\ Len(data) <= need
    /\ open \in BOOLEAN /\ calls \in Nat
    /\ toDevice \in Seq(Parts) /\ toClient \in Seq(Parts)
    /\ streaming \in BOOLEAN /\ events \in Nat /\ closed \in BOOLEAN
    /\ sent \in Seq(Messages) /\ returned \in Seq(Messages)
    /\ answered \subseteq Nat /\ timeouts \in Nat /\ lostParts \in BOOLEAN

(* Whatever timed out, as long as no message lost a part: the application  *)
(* gets the messages that the device sent, each once and in that order.    *)
NothingSkipped ==
    ~lostParts => /\ Len(returned) <= Len(sent)
                  /\ returned = SubSeq(sent, 1, Len(returned))

(* Every call ends, even if the device falls silent in mid-message. *)
CallsReturn == pc # "idle" ~> pc = "idle"

Channel == INSTANCE RequestChannel WITH
    Clients <- {"app"},
    request <- [c \in {"app"} |-> call.id],
    busy    <- IF pc = "idle" THEN {} ELSE {"app"},
    outcome <- [c \in {"app"} |->
                  IF result.kind \in {"none", "failure"} THEN {} ELSE {result.id}]

(* Reassembling every message from pieces, the connection is a channel     *)
(* that answers a request at most once, with its own answer ("Each response*)
(* has the same name as the request", connection.proto:194), as far as the *)
(* code can keep it: until a timeout or a partial send().  What comes after*)
(* a subscription, frames and stop(), is not a request.                    *)
ImplementsChannel ==
    /\ Channel!Init
    /\ [][timeouts' = 0 /\ ~lostParts' /\ call'.kind \in {"get", "subscribe"}
          => [Channel!Next]_Channel!vars]_vars
=============================================================================
