------------------------------ MODULE PyRawStream ------------------------------
(***************************************************************************)
(* stream/raw.py of the Python package: a stream of raw bytes, with or     *)
(* without a file that they are written to.  stop() unsubscribes and       *)
(* receives what is left, through the same recv_bytes() that checks the    *)
(* flag of CTRL-C, which all raw streams of the process share, and that    *)
(* calls stop() if it is set.                                              *)
(*                                                                         *)
(* log is all that the device sends: raw bytes (or none: "empty"), with    *)
(* the footer as the last, the event end_of_stream, error responses.  What *)
(* TCP and the framing do to them is the subject of PyConnection.          *)
(***************************************************************************)
EXTENDS Naturals, Sequences

CONSTANTS
    MayReset,       \* the connection may be reset
    MayEnd,         \* the device may end the stream by itself
    MaxChunks,      \* bound: messages before the end of the stream
    MaxStops,       \* bound: the application calls stop() on an open stream
    MaxInterrupts   \* bound: presses of CTRL-C

ASSUME RawAssumption ==
    /\ MayReset \in BOOLEAN /\ MayEnd \in BOOLEAN
    /\ MaxChunks \in Nat /\ MaxStops \in Nat /\ MaxInterrupts \in Nat

VARIABLES
    terminate,  \* the flag of raw.py
    interrupts, \* presses of CTRL-C
    pc,         \* where the thread is
    base,       \* the call that the application made, or "del" for __del__
    depth,      \* calls of stop() on the stack
    sock,       \* the socket is open
    file,       \* "none", "open" or "closed" by stop()
    written,    \* what was written to the file
    read,       \* number of messages received
    \* history: what recv_bytes() returned, the raw_file of the stop() that the
    \* application called, the outcome of the last call, how often stop() began
    got, rest, result, stops,
    \* the device: its state, what it sent, unsubscribe requests under way;
    \* the connection was reset
    server, log, requests, reset

flagVars == <<terminate, interrupts>>
dataVars == <<written, got, rest>>
callVars == <<pc, depth, result>>
deviceVars == <<server, log, requests, reset>>
vars == <<flagVars, callVars, base, sock, file, dataVars, read, stops, deviceVars>>

Init ==
    /\ terminate = FALSE /\ interrupts = 0
    /\ pc = "none" /\ base = "recv" /\ depth = 0 /\ result = "none"
    /\ sock = TRUE /\ file = "none"
    /\ written = <<>> /\ got = <<>> /\ rest = <<>> /\ read = 0 /\ stops = 0
    /\ server = "idle" /\ log = <<>> /\ requests = 0 /\ reset = FALSE
-----------------------------------------------------------------------------
(* The application's call ends with outcome r; after __del__ the object is *)
(* gone, and with it the connection.                                       *)
End(b, r) ==
    /\ pc' = IF b = "del" THEN "dead" ELSE "ready"
    /\ result' = r
    /\ depth' = 0

(* The constructor opens the file and sends the subscription. *)
Construct(f) ==
    /\ pc = "none"
    /\ pc' = "subscribing" /\ file' = f /\ server' = "asked"
    /\ UNCHANGED <<flagVars, base, depth, result, sock, dataVars, read, stops,
                   log, requests, reset>>

(* Its response is not looked at. *)
Subscribed ==
    /\ pc = "subscribing" /\ server \notin {"asked", "refused"}
    /\ pc' = "ready"
    /\ UNCHANGED <<flagVars, base, depth, result, sock, file, dataVars, read, stops,
                   deviceVars>>

(* stop() on an open socket: it sends the request and enters the loop      *)
(* around recv_bytes().                                                    *)
Unsubscribe ==
    /\ requests' = requests + 1 /\ stops' = stops + 1
    /\ depth' = depth + 1
    /\ pc' = "check"
    /\ UNCHANGED result

(* If the subscription is refused or not answered, the constructor raises, *)
(* and __del__ finds a connection to stop.                                 *)
SubscribeFails ==
    /\ pc = "subscribing" /\ (server \in {"asked", "refused"} \/ reset)
    /\ base' = "del"
    /\ \/ Unsubscribe
       \/ reset /\ End("del", "failed") /\ UNCHANGED <<requests, stops>>
    /\ UNCHANGED <<flagVars, sock, file, dataVars, read, server, log, reset>>

RecvBytes ==
    /\ pc = "ready"
    /\ pc' = "check" /\ base' = "recv"
    /\ UNCHANGED <<flagVars, depth, result, sock, file, dataVars, read, stops, deviceVars>>

(* stop(), by the application or by __del__; sending may fail on a reset   *)
(* connection, which stop() does not catch.                                *)
Stop(b) ==
    /\ pc = "ready" /\ (stops < MaxStops \/ b = "del")
    /\ base' = b /\ rest' = <<>>
    /\ \/ sock /\ Unsubscribe
       \/ sock /\ reset /\ End(b, "failed") /\ UNCHANGED <<requests, stops>>
       \/ ~sock /\ End(b, "nothing") /\ UNCHANGED <<requests, stops>>
    /\ UNCHANGED <<flagVars, sock, file, written, got, read, server, log, reset>>

(* recv_bytes() looks at the flag. *)
Check ==
    /\ pc = "check"
    /\ IF terminate \/ sock
       THEN pc' = (IF terminate THEN "caught" ELSE "recv") /\ UNCHANGED <<depth, result>>
       ELSE End(base, "failed")
    /\ UNCHANGED <<flagVars, base, sock, file, dataVars, read, stops, deviceVars>>

FileLeftOpen == file  \* bug: the file is not closed
FileAfterStop == IF file = "open" THEN "closed" ELSE file

(* recv_bytes() raises ConnectionError, at which the innermost stop()      *)
(* leaves its loop.  If it was called by recv_bytes(), that raises, and    *)
(* the exception leaves every stop() around it.                            *)
ConnectionError ==
    IF depth = 0 THEN End(base, "ended") /\ UNCHANGED <<file, sock>>
    ELSE /\ file' = FileAfterStop /\ sock' = FALSE
         /\ End(base, IF depth = 1 /\ base # "recv" THEN "bytes" ELSE "interrupted")

OtherError == End(base, "failed") /\ UNCHANGED <<file, sock>>

(* recv_bytes() clears the flag and stops the stream.  Sending may fail on *)
(* a reset connection.                                                     *)
Caught ==
    /\ pc = "caught"
    /\ terminate' = FALSE
    /\ \/ sock /\ Unsubscribe /\ UNCHANGED <<sock, file>>
       \/ sock /\ reset /\ ConnectionError /\ UNCHANGED <<requests, stops>>
       \/ ~sock /\ End(base, "interrupted") /\ UNCHANGED <<requests, stops, sock, file>>
    /\ UNCHANGED <<interrupts, base, dataVars, read, server, log, reset>>

DroppedWhileStopping(m) ==  \* bug: what stop() receives is not written
    IF depth = 0 THEN Append(written, m) ELSE written
Dumped(m) == Append(written, m)

OnlyLast(m) == <<m>>  \* bug: = instead of +=
Accumulated(m) == Append(rest, m)

Payload(m) ==
    /\ written' = IF file = "open" THEN Dumped(m) ELSE written
    /\ IF depth = 0
       THEN got' = Append(got, m) /\ End(base, "chunk") /\ UNCHANGED rest
       ELSE rest' = Accumulated(m) /\ pc' = "check" /\ UNCHANGED <<got, result, depth>>

(* recv_bytes() receives a message. *)
Receive ==
    /\ pc = "recv" /\ read < Len(log)
    /\ read' = read + 1
    /\ LET m == log[read + 1] IN
       \/ m.kind = "end" /\ ConnectionError /\ UNCHANGED dataVars
       \/ m.kind = "error" /\ OtherError /\ UNCHANGED dataVars
       \/ m.kind \notin {"end", "error"} /\ Payload(m) /\ UNCHANGED <<file, sock>>
    /\ UNCHANGED <<flagVars, base, stops, deviceVars>>

NoTimeout == FALSE  \* bug: the socket has no timeout
TimedOut == read = Len(log)

AnyError == ConnectionError  \* bug: every exception ends the loop
TimeoutError == OtherError

(* Nothing arrives in time, or the device has closed the connection. *)
RecvTimeout ==
    /\ pc = "recv" /\ TimedOut
    /\ TimeoutError
    /\ UNCHANGED <<flagVars, base, dataVars, read, stops, deviceVars>>

(* ConnectionResetError is a ConnectionError. *)
RecvReset ==
    /\ pc = "recv" /\ reset
    /\ ConnectionError
    /\ UNCHANGED <<flagVars, base, dataVars, read, stops, deviceVars>>

(* CTRL-C; the handler runs between two steps of a thread. *)
Interrupt ==
    /\ interrupts < MaxInterrupts
    /\ terminate' = TRUE /\ interrupts' = interrupts + 1
    /\ UNCHANGED <<callVars, base, sock, file, dataVars, read, stops, deviceVars>>

(* A raw stream of another thread takes the flag. *)
OtherStream ==
    /\ terminate /\ terminate' = FALSE
    /\ UNCHANGED <<interrupts, callVars, base, sock, file, dataVars, read, stops, deviceVars>>
-----------------------------------------------------------------------------
(* The device, as the code expects it: after the subscription it sends     *)
(* bytes; after an unsubscribe request, to which it may respond, the       *)
(* footer and end_of_stream; a further request may get an error.           *)
Msg(kind) == [kind |-> kind, n |-> Len(log) + 1]

DeviceStep(ms) ==
    /\ log' = log \o ms
    /\ UNCHANGED <<flagVars, callVars, base, sock, file, dataVars, read, stops>>

DeviceSubscribe ==
    /\ server = "asked"
    /\ server' \in {"streaming", "refused"}
    /\ DeviceStep(<<>>) /\ UNCHANGED <<requests, reset>>

DeviceSend ==
    /\ server \in {"streaming", "ending"} /\ Len(log) < MaxChunks
    /\ DeviceStep(<<Msg("chunk")>>) /\ UNCHANGED <<server, requests, reset>>

DeviceUnsubscribe ==
    /\ requests > 0 /\ server # "asked"
    /\ requests' = requests - 1
    /\ server' = IF server = "streaming" THEN "ending" ELSE server
    /\ \/ DeviceStep(<<>>)
       \/ DeviceStep(<<Msg(IF server \in {"streaming", "ending"} THEN "empty" ELSE "error")>>)
    /\ UNCHANGED reset

DeviceEnd ==
    /\ server \in {"ending"} \cup IF MayEnd THEN {"streaming"} ELSE {}
    /\ server' = "ended"
    /\ DeviceStep(<<Msg("footer"), [kind |-> "end", n |-> Len(log) + 2]>>)
    /\ UNCHANGED <<requests, reset>>

DeviceReset ==
    /\ MayReset /\ pc # "none" /\ reset' = TRUE
    /\ DeviceStep(<<>>) /\ UNCHANGED <<server, requests>>

ClientStep == \/ Subscribed \/ SubscribeFails \/ Check \/ Caught
              \/ Receive \/ RecvTimeout \/ RecvReset
Call == \/ \E f \in {"none", "open"} : Construct(f)
        \/ RecvBytes \/ Stop("stop") \/ Stop("del")
Device == \/ DeviceSubscribe \/ DeviceSend \/ DeviceUnsubscribe \/ DeviceEnd \/ DeviceReset

Next == ClientStep \/ Call \/ Interrupt \/ OtherStream \/ Device

(* The thread goes on while it is in a call: the socket has a timeout. *)
Spec == Init /\ [][Next]_vars
FairSpec == Spec /\ WF_vars(ClientStep)
-----------------------------------------------------------------------------
Kinds    == {"chunk", "empty", "footer", "end", "error"}
Messages == [kind : Kinds, n : Nat]

(* stop() is on the stack only during a call, always during stop() or      *)
(* __del__; a closed socket leaves no open file and no stop().             *)
StackOK ==
    /\ pc \in {"none", "subscribing", "ready", "dead"} => depth = 0
    /\ pc \in {"check", "caught", "recv"} /\ base # "recv" => depth > 0
    /\ ~sock => file # "open" /\ depth = 0

(* Types. *)
TypeOK ==
    /\ terminate \in BOOLEAN /\ interrupts \in Nat
    /\ pc \in {"none", "subscribing", "ready", "check", "caught", "recv", "dead"}
    /\ base \in {"recv", "stop", "del"} /\ depth \in Nat
    /\ result \in {"none", "chunk", "bytes", "nothing", "ended", "interrupted", "failed"}
    /\ sock \in BOOLEAN /\ file \in {"none", "open", "closed"}
    /\ written \in Seq(Messages) /\ got \in Seq(Messages) /\ rest \in Seq(Messages)
    /\ read \in Nat /\ stops \in Nat
    /\ server \in {"idle", "asked", "refused", "streaming", "ending", "ended"}
    /\ log \in Seq(Messages) /\ requests \in Nat /\ reset \in BOOLEAN
    /\ StackOK

(* "which it should write sequentially in a file" (stream/connection.proto *)
(* line 43): whatever calls received them, the bytes are in the file in    *)
(* the order in which the device sent them, without a gap.                 *)
FileIsPrefix ==
    /\ Len(written) <= read /\ read <= Len(log)
    /\ written = SubSeq(log, 1, Len(written))

(* "If stream is closed with CTRL-C it will still write the footer and     *)
(* save the file" (raw.py:66): once stop() has closed a file, or a call    *)
(* has raised because of CTRL-C, however deep stop() was nested, the file  *)
(* has all that the device sent before end_of_stream, the footer included  *)
(* -- unless the connection was reset, which stop() takes for the end.     *)
GracefulStop ==
    ~reset =>
        /\ result = "interrupted" => file # "open"
        /\ file = "closed" => LET n == Len(written) IN
                              n < Len(log) /\ log[n + 1].kind = "end"

(* stop() returns "all remaining bytes accumulated" (raw.py:90): those that*)
(* came just before end_of_stream, and, unless an earlier stop() of the    *)
(* stream failed, all that recv_bytes() has not returned.                  *)
StopReturnsRest ==
    result = "bytes" /\ base = "stop" /\ ~reset =>
        /\ log[read].kind = "end"
        /\ rest = SubSeq(log, read - Len(rest), read - 1)
        /\ stops = 1 => Len(got) + Len(rest) = read - 1

(* Every call returns or raises. *)
CallsReturn == pc \in {"subscribing", "check", "caught", "recv"} ~> pc \in {"ready", "dead"}
=============================================================================
