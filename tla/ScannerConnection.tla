-------------------------- MODULE ScannerConnection --------------------------
(***************************************************************************)
(* One C++ connection to a device (scanner_connection.cpp, connection.cpp) *)
(* and the threads that use it: the application's client threads, each in  *)
(* a request of class scanner, and the thread of async_run_thread().  A    *)
(* connection starts with blocking reads; the first status subscription    *)
(* switches it, for good, to a chain of asynchronous reads.                *)
(*                                                                         *)
(* Whoever calls io_context.run_one() runs the next handler, no matter     *)
(* which call installed it.  A read is one step: the length prefix and the *)
(* body are read by the same chain of two handlers.                        *)
(***************************************************************************)
EXTENDS Naturals, Sequences

CONSTANTS
    Clients,      \* threads of the application
    Nobody,       \* "no thread": the request mutex is free
    Runner,       \* the thread of async_run_thread()
    Outsider,     \* a thread in a call on another connection of the scanner
    Chain,        \* owner of the asynchronous read chain
    StartAsync,   \* the connection already has a status subscription
    HasRunner,    \* async_run_thread() has been called
    SharedContext,\* the scanner has other connections, which share its
                  \* io_context with this one
    Ops,          \* what clients do, see Call
    SubscribesAlone, \* subscribe() is only called while no other call runs
    MayFail,      \* the device may answer with an error
    MayClose,     \* the device may close the connection
    MaxRequests,  \* bound: calls made by all clients together
    MaxEvents,    \* bound: events the device sends
    MaxTimeouts,  \* bound: timers that expire
    MaxForeign    \* bound: handlers of other connections that throw

ASSUME ThreadsAssumption ==
    /\ Nobody \notin Clients /\ Runner \notin Clients /\ Chain \notin Clients
    /\ Outsider \notin Clients /\ Runner # Nobody /\ Runner # Outsider
ASSUME ParamsAssumption ==
    /\ StartAsync \in BOOLEAN /\ HasRunner \in BOOLEAN /\ SharedContext \in BOOLEAN
    /\ HasRunner => StartAsync \/ SharedContext  \* or run() has returned long ago
    /\ SubscribesAlone \in BOOLEAN /\ MayFail \in BOOLEAN /\ MayClose \in BOOLEAN
    /\ Ops \subseteq {"get", "subscribe", "open", "next"}
    /\ MaxRequests \in Nat /\ MaxEvents \in Nat
    /\ MaxTimeouts \in Nat /\ MaxForeign \in Nat

VARIABLES
    \* the connection object
    active,       \* async_read_active
    owner,        \* holder of request_mutex
    slot,         \* async_received
    corrupt,      \* two reads overlapped: input_buffer has lost the framing
    \* the io_context
    reads,        \* outstanding reads on the socket, oldest first
    aborted,      \* a cancelled timer's handler is queued
    process,      \* "running", or "terminated" by an uncaught exception
    foreign,      \* other connections' handlers that threw in a thread of this
    \* the client threads
    pc, call, received, resp, timer, result,
    calls, timeouts,
    \* the device and the TCP stream
    toDevice, toClient, streaming, events, closed,
    \* history: requests the device answered, events the application got
    answered, delivered

connVars   == <<active, owner, slot, corrupt>>
ioVars     == <<reads, aborted, process, foreign>>
clientVars == <<pc, call, received, resp, timer, result, calls, timeouts>>
deviceVars == <<toDevice, toClient, streaming, events, closed>>
histVars   == <<answered, delivered>>
vars == <<connVars, ioVars, clientVars, deviceVars, histVars>>

(* A message of the stream, or how a call ended.  An unsolicited event has *)
(* id 0; the response to a subscribe request is an event that has its id.  *)
Message(kind, id, seq) == [kind |-> kind, id |-> id, seq |-> seq]
NoMessage == Message("none", 0, 0)
Timeout   == Message("timeout", 0, 0)
Unknown   == Message("unknown", 0, 0)
Abort     == Message("abort", 0, 0)
Garbage   == Message("garbage", 0, 0)
Failures  == {"error", "timeout", "unknown", "abort"}

Threads == Clients \union (IF HasRunner THEN {Runner} ELSE {})
                   \union (IF SharedContext THEN {Outsider} ELSE {})
Read(r, id) == [by |-> r, id |-> id]
ChainRead == Read(Chain, 0)

Init ==
    /\ active = StartAsync /\ owner = Nobody
    /\ slot = NoMessage /\ corrupt = FALSE
    /\ reads = IF StartAsync THEN <<ChainRead>> ELSE <<>>
    /\ aborted = StartAsync
    /\ process = "running" /\ foreign = 0
    /\ pc = [c \in Clients |-> "idle"]
    /\ call = [c \in Clients |-> [op |-> "none", id |-> 0]]
    /\ received = [c \in Clients |-> FALSE]
    /\ resp = [c \in Clients |-> NoMessage]
    /\ timer = [c \in Clients |-> "off"]
    /\ result = [c \in Clients |-> NoMessage]
    /\ calls = 0 /\ timeouts = 0
    /\ toDevice = <<>> /\ toClient = <<>>
    /\ streaming = StartAsync /\ events = 0 /\ closed = FALSE
    /\ answered = {} /\ delivered = <<>>

-----------------------------------------------------------------------------
Alive == process = "running"

(* The call of c ends: send_request() leaves the scope of its lock guard.  *)
(* scanner::subscribe() goes on to conn->subscribe() and async_run().      *)
Return(c, m) ==
    /\ pc' = [pc EXCEPT ![c] =
                IF call[c].op = "subscribe" /\ m.kind \notin Failures
                THEN "activate" ELSE "idle"]
    /\ result' = [result EXCEPT ![c] = m]
    /\ owner' = IF owner = c THEN Nobody ELSE owner

DropTimerCancelled(c) ==  \* bug: a timer state that nobody knows
    /\ timer' = [timer EXCEPT ![c] = "cancelled"]
    /\ aborted' = (aborted \/ timer[c] = "armed")

(* Leaving the blocking recv() destroys its timer, which cancels it. *)
DropTimer(c) ==
    /\ timer' = [timer EXCEPT ![c] = "off"]
    /\ aborted' = (aborted \/ timer[c] = "armed")

(* A connection is the scanner's, shared by its threads, or a stream's,    *)
(* used by one thread.                                                     *)
Permitted(c, op) ==
    /\ IF op \in {"open", "next"}
       THEN \A d \in Clients \ {c} : call[d].op = "none"
       ELSE \A d \in Clients : call[d].op \notin {"open", "next"}
    /\ op = "open" => call[c].op = "none"
    /\ op = "next" => \/ call[c].op = "next"
                      \/ call[c].op = "open" /\ result[c].kind \notin Failures
    /\ SubscribesAlone =>
         \A d \in Clients : pc[d] = "idle" \/ "subscribe" \notin {op, call[d].op}

(* A client calls a request method ("get"), scanner::subscribe(), the      *)
(* constructor of a stream ("open"), or recv_frame() of that stream        *)
(* ("next"), which calls recv() without the request mutex.                 *)
Call(c, op) ==
    /\ Alive /\ pc[c] = "idle" /\ calls < MaxRequests /\ Permitted(c, op)
    /\ calls' = calls + 1
    /\ call' = [call EXCEPT ![c] = [op |-> op, id |-> calls + 1]]
    /\ result' = [result EXCEPT ![c] = NoMessage]
    /\ pc' = [pc EXCEPT ![c] = IF op = "next" THEN "recv" ELSE "lock"]
    /\ UNCHANGED <<connVars, ioVars, received, resp, timer, timeouts,
                   deviceVars, histVars>>

AcquireAlways(c) == owner' = c  \* bug: no lock_guard in send_request()

(* lock_guard of request_mutex. *)
Acquire(c) == owner = Nobody /\ owner' = c

Lock(c) ==
    /\ Alive /\ pc[c] = "lock"
    /\ Acquire(c)
    /\ pc' = [pc EXCEPT ![c] = "send"]
    /\ UNCHANGED <<active, slot, corrupt, ioVars, call, received, resp, timer,
                   result, calls, timeouts, deviceVars, histVars>>

(* Once the device has closed, the first write may still succeed. *)
Send(c) ==
    /\ Alive /\ pc[c] = "send"
    /\ \/ /\ toDevice' = Append(toDevice, call[c])
          /\ pc' = [pc EXCEPT ![c] = "recv"]
          /\ UNCHANGED <<owner, result>>
       \/ /\ closed
          /\ Return(c, Unknown)
          /\ UNCHANGED toDevice
    /\ UNCHANGED <<active, slot, corrupt, ioVars, call, received, resp, timer,
                   calls, timeouts, toClient, streaming, events, closed, histVars>>

KeptSlot == slot  \* bug: no async_received.clear_data()
ClearedSlot == NoMessage

(* recv() of a connection that reads asynchronously: poll the slot. *)
RecvAsync(c) ==
    /\ Alive /\ \/ pc[c] = "recv" /\ active
                \/ pc[c] = "check"
    /\ IF slot # NoMessage
       THEN Return(c, slot) /\ slot' = ClearedSlot
       ELSE /\ pc' = [pc EXCEPT ![c] = "block"]
            /\ UNCHANGED <<owner, result, slot>>
    /\ UNCHANGED <<active, corrupt, ioVars, call, received, resp, timer, calls,
                   timeouts, deviceVars, histVars>>

(* recv() of a blocking connection arms a timer and starts a read. *)
RecvSync(c) ==
    /\ Alive /\ pc[c] = "recv" /\ ~active
    /\ pc' = [pc EXCEPT ![c] = "wait"]
    /\ received' = [received EXCEPT ![c] = FALSE]
    /\ resp' = [resp EXCEPT ![c] = NoMessage]
    /\ timer' = [timer EXCEPT ![c] = "armed"]
    /\ reads' = Append(reads, Read(c, call[c].id))
    /\ corrupt' = (corrupt \/ reads # <<>>)
    /\ UNCHANGED <<active, owner, slot, aborted, process, foreign, call, result,
                   calls, timeouts, deviceVars, histVars>>

LoopEndsAlways(c) == TRUE  \* bug: run_one() is called once
LoopEnds(c) == received[c]

(* The loop condition after run_one() returned, and the check of *expired. *)
Test(c) ==
    /\ Alive /\ pc[c] = "test"
    /\ \/ /\ LoopEnds(c) /\ Return(c, resp[c]) /\ DropTimer(c)
          /\ delivered' = IF call[c].op = "next" THEN Append(delivered, resp[c])
                                                 ELSE delivered
       \/ /\ ~LoopEnds(c) /\ timer[c] = "expired"
          /\ Return(c, Timeout) /\ DropTimer(c)
          /\ UNCHANGED delivered
       \/ /\ ~LoopEnds(c) /\ timer[c] # "expired"
          /\ pc' = [pc EXCEPT ![c] = "wait"]
          /\ UNCHANGED <<owner, result, timer, aborted, delivered>>
    /\ UNCHANGED <<active, slot, corrupt, reads, process, foreign, call, received,
                   resp, calls, timeouts, deviceVars, answered>>

(* async_run() after a subscription; nothing guards it against a blocking  *)
(* recv() of another thread.                                               *)
AsyncRun(c) ==
    /\ Alive /\ pc[c] = "activate"
    /\ pc' = [pc EXCEPT ![c] = "idle"]
    /\ active' = TRUE
    /\ reads' = IF active THEN reads ELSE Append(reads, ChainRead)
    /\ corrupt' = (corrupt \/ (~active /\ reads # <<>>))
    /\ UNCHANGED <<owner, slot, aborted, process, foreign, call, received, resp,
                   timer, result, calls, timeouts, deviceVars, histVars>>

-----------------------------------------------------------------------------
(* Handlers, run by a thread that is inside run_one() or run(). *)

InRunOne(t) == \/ t \in Clients /\ pc[t] \in {"block", "wait"}
               \/ t \in {Runner, Outsider}

(* run_one() returns in thread t; run() goes on. *)
Resume(t) ==
    pc' = [c \in Clients |->
             IF c # t THEN pc[c] ELSE IF pc[c] = "block" THEN "check" ELSE "test"]

(* A handler throws in thread t: out of the recv() of a client, out of the *)
(* thread function of the runner, which ends the process, or out of a call *)
(* on another connection.                                                  *)
Throw(t, m) ==
    \/ /\ t \in Clients /\ Return(t, m) /\ DropTimer(t)
       /\ UNCHANGED process
    \/ /\ t \in {Runner, Outsider}
       /\ process' = IF t = Runner THEN "terminated" ELSE process
       /\ UNCHANGED <<pc, result, owner, timer, aborted>>

(* The blocking recv() that installed read r still waits for it. *)
Awaited(r) == /\ r.by \in Clients
              /\ call[r.by].id = r.id /\ pc[r.by] \in {"wait", "test"}

(* Final handler of the blocking recv() that got message m.  An event is   *)
(* returned as if it were the response.  When its recv() has timed out it  *)
(* writes through a dangling reference: nothing or a crash.                *)
SyncHandler(t, m) ==
    LET r == Head(reads) IN
    /\ r.by # Chain
    /\ reads' = Tail(reads)
    /\ \/ /\ Awaited(r) /\ Resume(t)
          /\ received' = [received EXCEPT ![r.by] = TRUE]
          /\ resp' = [resp EXCEPT ![r.by] = m]
          /\ UNCHANGED process
       \/ /\ ~Awaited(r) /\ Resume(t)
          /\ process' \in {"running", "terminated"}
          /\ UNCHANGED <<received, resp>>
    /\ UNCHANGED <<slot, delivered, owner, result, timer, aborted>>

Rearmed == Append(Tail(reads), ChainRead)

(* bug: an event is missed if another message has arrived behind it *)
IsEventAlone(m) == m.kind = "event" /\ Len(toClient) = 1
IsEvent(m) == m.kind = "event"

(* Handler of async_recv(): events go to the callbacks, a response to the  *)
(* slot, and the next read is started.                                     *)
ChainHandler(t, m) ==
    /\ Head(reads).by = Chain
    /\ Resume(t)
    /\ reads' = Rearmed
    /\ IF IsEvent(m) THEN delivered' = Append(delivered, m) /\ UNCHANGED slot
                     ELSE slot' = m /\ UNCHANGED delivered
    /\ UNCHANGED <<received, resp, owner, result, process, timer, aborted>>

(* parse_response() throws an error response before anything else.  Where  *)
(* the handler is that of async_recv(), nothing re-arms the chain.         *)
ThrowingHandler(t, m) ==
    /\ Throw(t, m)
    /\ reads' = Tail(reads)
    /\ UNCHANGED <<received, resp, slot, delivered>>

(* After two reads overlapped, a read may take a message for a length and  *)
(* wait for the rest of what is none.                                      *)
Starved(t) ==
    /\ corrupt
    /\ Resume(t)
    /\ UNCHANGED <<reads, received, resp, slot, delivered, owner, result, process,
                   timer, aborted>>

(* A message arrived.  After two reads overlapped, what a handler sees is  *)
(* not the message: parsing it throws or yields garbage.                   *)
MessageHandler(t) ==
    /\ reads # <<>> /\ toClient # <<>>
    /\ toClient' = Tail(toClient)
    /\ \/ \E m \in IF corrupt THEN {Garbage, Unknown} ELSE {Head(toClient)} :
            IF m.kind \in Failures THEN ThrowingHandler(t, m)
                                   ELSE SyncHandler(t, m) \/ ChainHandler(t, m)
       \/ Starved(t)
    /\ UNCHANGED timeouts

(* The read fails because the device closed the connection. *)
ClosedHandler(t) ==
    /\ reads # <<>> /\ toClient = <<>> /\ closed
    /\ ThrowingHandler(t, IF Head(reads).by = Chain THEN Unknown ELSE Abort)
    /\ UNCHANGED <<toClient, timeouts>>

FiredQuietly(c) == "off"  \* bug: *expired is never set
Fired(c) == IF received[c] THEN "off" ELSE "expired"

(* The deadline timer of the blocking recv() of c fires: *expired is the   *)
(* negation of *received at that moment.                                   *)
TimerHandler(t, c) ==
    /\ timer[c] = "armed" /\ timeouts < MaxTimeouts
    /\ timer' = [timer EXCEPT ![c] = Fired(c)]
    /\ timeouts' = timeouts + 1
    /\ Resume(t)
    /\ UNCHANGED <<reads, toClient, received, resp, slot, delivered,
                   owner, result, process, aborted>>

(* The handler of a timer that timer.cancel() or its destructor aborted. *)
AbortedHandler(t) ==
    /\ aborted
    /\ aborted' = FALSE
    /\ Resume(t)
    /\ UNCHANGED <<reads, toClient, received, resp, slot, delivered,
                   timer, owner, result, process, timeouts>>

RunOne(t) ==
    /\ Alive /\ InRunOne(t)
    /\ \/ MessageHandler(t)
       \/ ClosedHandler(t)
       \/ \E c \in Clients : TimerHandler(t, c)
       \/ AbortedHandler(t)
    /\ UNCHANGED <<active, corrupt, foreign, call, calls, toDevice, streaming,
                   events, closed, answered>>

(* Thread t runs a handler of another connection: run_one() returns, or    *)
(* the handler throws.  The call on this connection is over then, but its  *)
(* answer is still to come, and its read, in blocking mode, stays behind.  *)
OtherHandler(t) ==
    /\ Alive /\ SharedContext /\ InRunOne(t) /\ t # Outsider
    /\ \/ /\ Resume(t)
          /\ UNCHANGED <<owner, result, timer, aborted, process, foreign>>
       \/ /\ foreign < MaxForeign /\ foreign' = foreign + 1
          /\ Throw(t, Unknown)
    /\ UNCHANGED <<active, slot, corrupt, reads, call, received, resp, calls,
                   timeouts, deviceVars, histVars>>

-----------------------------------------------------------------------------
(* The device: answers requests in order, sends events once subscribed.    *)

DeviceAnswer ==
    /\ ~closed /\ toDevice # <<>>
    /\ LET q == Head(toDevice)
           answer == Message(IF q.op = "get" THEN "reply" ELSE "event", q.id, 0)
       IN \/ /\ toClient' = Append(toClient, answer)
             /\ streaming' = (streaming \/ q.op # "get")
          \/ /\ MayFail
             /\ toClient' = Append(toClient, Message("error", q.id, 0))
             /\ UNCHANGED streaming
    /\ toDevice' = Tail(toDevice)
    /\ answered' = answered \union {Head(toDevice).id}
    /\ UNCHANGED <<connVars, ioVars, clientVars, events, closed, delivered>>

DeviceEvent ==
    /\ ~closed /\ streaming /\ events < MaxEvents
    /\ events' = events + 1
    /\ toClient' = Append(toClient, Message("event", 0, events + 1))
    /\ UNCHANGED <<connVars, ioVars, clientVars, toDevice, streaming, closed, histVars>>

DeviceClose ==
    /\ MayClose /\ ~closed
    /\ closed' = TRUE
    /\ UNCHANGED <<connVars, ioVars, clientVars, toDevice, toClient, streaming,
                   events, histVars>>

(* No client wants anything any more, or there is no process. *)
Finished ==
    /\ \/ (\A c \in Clients : pc[c] = "idle") /\ calls = MaxRequests
       \/ ~Alive
    /\ UNCHANGED vars

ClientStep(c) == \/ Lock(c) \/ Send(c) \/ RecvAsync(c) \/ RecvSync(c)
                 \/ Test(c) \/ AsyncRun(c)

Next ==
    \/ \E c \in Clients : \/ \E op \in Ops : Call(c, op)
                         \/ ClientStep(c)
    \/ \E t \in Threads : RunOne(t) \/ OtherHandler(t)
    \/ DeviceAnswer \/ DeviceEvent \/ DeviceClose
    \/ Finished

(* Threads are scheduled, and a ready handler is run by some thread that   *)
(* waits for one.  Nothing forces a client to call, an event to happen,    *)
(* another connection to be used or to get a message, or the device to     *)
(* close; whether it answers is up to the specification.                   *)
Scheduling == /\ \A c \in Clients : WF_vars(ClientStep(c))
              /\ \A t \in Threads \ {Outsider} : WF_vars(RunOne(t))

Spec == Init /\ [][Next]_vars /\ Scheduling
AnsweringSpec == Spec /\ WF_vars(DeviceAnswer)
-----------------------------------------------------------------------------
Kinds == {"none", "reply", "event", "garbage"} \union Failures
Messages == [kind : Kinds, id : Nat, seq : Nat]
Requests == [op : {"none", "get", "subscribe", "open", "next"}, id : Nat]
Reads == [by : Clients \union {Chain}, id : Nat]
ProgramCounters == {"idle", "lock", "send", "recv", "check", "block", "wait", "test",
                    "activate"}

ConnOK == /\ active \in BOOLEAN /\ corrupt \in BOOLEAN
          /\ owner \in Clients \union {Nobody}
          /\ slot \in Messages
IoOK == /\ reads \in Seq(Reads)
        /\ aborted \in BOOLEAN /\ process \in {"running", "terminated"} /\ foreign \in Nat
ClientsOK == /\ pc \in [Clients -> ProgramCounters] /\ call \in [Clients -> Requests]
             /\ received \in [Clients -> BOOLEAN]
             /\ timer \in [Clients -> {"off", "armed", "expired"}]
             /\ resp \in [Clients -> Messages] /\ result \in [Clients -> Messages]
             /\ calls \in Nat /\ timeouts \in Nat
DeviceOK == /\ toDevice \in Seq(Requests) /\ toClient \in Seq(Messages)
            /\ events \in Nat /\ streaming \in BOOLEAN /\ closed \in BOOLEAN
HistoryOK == answered \subseteq Nat /\ delivered \in Seq(Messages)

TypeOK == ConnOK /\ IoOK /\ ClientsOK /\ DeviceOK /\ HistoryOK

(* "Each response has the same name as the request" (connection.proto:194):*)
(* a request method that gets a message gets the answer to its own request.*)
OwnResponse ==
    \A c \in Clients :
        /\ call[c].op # "next"
        /\ result[c].kind \in {"reply", "event", "error", "garbage"}
        => result[c].id = call[c].id

(* The same, as far as the code can keep it: no recv() was given up, by its*)
(* deadline or by an exception of another connection, before its answer.   *)
Undisturbed == timeouts = 0 /\ foreign = 0
OwnResponseUndisturbed == Undisturbed => OwnResponse

(* The single slot only ever holds the answer that the holder of the       *)
(* request mutex is about to fetch: it is never overwritten, and never     *)
(* left behind for the next request, unless another connection's exception *)
(* ended the call that awaits it.                                          *)
SlotAwaited ==
    ~corrupt /\ foreign = 0 /\ slot # NoMessage =>
        /\ owner # Nobody
        /\ slot.id = call[owner].id
        /\ pc[owner] \in {"recv", "check", "block"}

(* As long as no recv() was given up, there is at most one read on the     *)
(* socket, and a blocking read's handler writes to a recv() that still     *)
(* runs.                                                                   *)
NoStrayRead ==
    Undisturbed => /\ ~corrupt
                   /\ \A i \in DOMAIN reads : reads[i].by # Chain => Awaited(reads[i])

(* Events reach the application completely and in the order the device     *)
(* sent them, whichever threads run the handlers, and, if it reads         *)
(* asynchronously, whatever other connections do.                          *)
Unsolicited(m) == m.kind = "event" /\ m.id = 0
EventsBefore(s, i) == {s[j].seq : j \in {k \in 1 .. i - 1 : Unsolicited(s[k])}}
EventsInOrder ==
    Undisturbed \/ StartAsync =>
        \A i \in DOMAIN delivered : Unsolicited(delivered[i]) =>
            EventsBefore(delivered, i) = 1 .. delivered[i].seq - 1

(* Every call ends, as long as there is a process. *)
CallsReturn == \A c \in Clients : pc[c] # "idle" ~> pc[c] = "idle" \/ ~Alive

(* Every call ends but in an asynchronous connection that is stuck: its    *)
(* chain of reads was ended by an exception, or waits for the rest of what *)
(* two reads have mixed up; the device does not answer; or the response to *)
(* a subscribe request went to the callbacks.                              *)
Stuck == /\ active
         /\ \/ reads = <<>>
            \/ corrupt
            \/ toDevice # <<>>
            \/ owner # Nobody /\ call[owner].op = "subscribe"
CallsReturnUnlessStuck ==
    \A c \in Clients : []<>(pc[c] = "idle" \/ ~Alive) \/ <>[]Stuck

(* A call of the abstract channel ends with no answer, or with one.  The   *)
(* next frame of a stream answers no request.                              *)
Outcome(q, m) == IF q.op = "next" \/ m.kind \in {"none", "timeout", "unknown", "abort"}
                 THEN {} ELSE {m.id}
Channel == INSTANCE RequestChannel WITH
    request <- [c \in Clients |-> call[c].id],
    busy    <- {c \in Clients : pc[c] \notin {"idle", "activate"}},
    outcome <- [c \in Clients |-> Outcome(call[c], result[c])]

(* With all its threads, handlers and the slot, the connection is a channel*)
(* that answers every request at most once, with its own answer ...        *)
ImplementsChannel == Channel!Spec

(* ... until a recv() is given up: by its deadline, or by an exception of  *)
(* another connection.                                                     *)
ChannelUndisturbed ==
    [][Undisturbed' => Channel!Next \/ UNCHANGED Channel!vars]_vars
=============================================================================
