------------------------- MODULE ScannerCalls_proofs -------------------------
(***************************************************************************)
(* Proofs about the calls on a ScannerConnection, for any number of        *)
(* clients, requests and events: until a recv() is given up, by a deadline  *)
(* or by another connection's exception, in blocking mode, through the     *)
(* switch to asynchronous mode, and in that mode.                          *)
(***************************************************************************)
EXTENDS ScannerConnection_proofs, Integers

(* Only the clients of this connection run its handlers. *)
Alone == ~HasRunner /\ ~SharedContext

(* How the connection is used: a device that closes it meets no thread that*)
(* could store an answer in the slot whose caller then throws; and a       *)
(* subscription that switches to asynchronous reads, or a stream, has the  *)
(* connection for itself.                                                  *)
CallsUse ==
    /\ MayClose => Alone
    /\ IF StartAsync THEN Ops \subseteq {"get", "subscribe"} ELSE SubscribesAlone

Reading(c) == pc[c] \in {"recv", "check", "block", "wait", "test"}
Holds(c) == call[c].op # "next" /\ (pc[c] = "send" \/ Reading(c))
Mutex == \A c \in Clients : Holds(c) <=> owner = c

Called ==
    \A c \in Clients :
        /\ call[c].op = "none" => pc[c] = "idle"
        /\ pc[c] # "idle" => call[c].id # 0
        /\ pc[c] = "activate" => call[c].op = "subscribe"
        /\ call[c].op = "next" => pc[c] \in {"idle", "recv", "wait", "test"}

(* A stream has its connection for itself, and so has a subscription that  *)
(* switches the connection to asynchronous reads.                          *)
Exclusive ==
    \A c, d \in Clients : c # d =>
        /\ call[c].op \in {"open", "next"} => call[d].op = "none"
        /\ ~active /\ call[c].op = "subscribe" /\ pc[c] # "idle" => pc[d] = "idle"

Mode ==
    /\ StartAsync => active
    /\ active => StartAsync \/ \E c \in Clients : call[c].op # "none"
    /\ \A c \in Clients :
         IF active THEN pc[c] \notin {"wait", "test"} /\ timer[c] = "off"
                        /\ call[c].op \notin {"open", "next"}
                   ELSE /\ pc[c] \notin {"check", "block"} /\ timer[c] # "expired"
                        /\ timer[c] = "armed" => pc[c] \in {"wait", "test"}
    /\ closed => MayClose

OneRead ==
    /\ ~corrupt
    /\ \/ reads = <<>>
       \/ active /\ reads = <<ChainRead>>
       \/ ~active /\ \E c \in Clients : /\ reads = <<Read(c, call[c].id)>>
                                        /\ pc[c] \in {"wait", "test"} /\ ~received[c]

Awaits(c) == owner = c /\ Reading(c)
NoAnswer == \A i \in 1 .. Len(toClient) : toClient[i].id = 0
RequestGone == closed \/ toDevice = <<>>

RequestInFlight ==
    RequestGone \/ \E c \in Clients : Awaits(c) /\ toDevice = <<call[c]>>
AnswerInFlight ==
    \A i \in 1 .. Len(toClient) :
        IF toClient[i].id = 0
        THEN toClient[i].kind = "event" /\ streaming
        ELSE /\ \E c \in Clients : Awaits(c) /\ toClient[i].id = call[c].id
             /\ RequestGone
             /\ \A j \in 1 .. Len(toClient) : toClient[j].id # 0 => i = j
AnswerInSlot ==
    slot # NoMessage =>
        /\ active /\ \E c \in Clients : Awaits(c) /\ slot.id = call[c].id
                                        /\ (pc[c] = "block" => ~Alone)
        /\ RequestGone /\ NoAnswer
AnswerRead ==
    \A c \in Clients :
        pc[c] \in {"wait", "test"} /\ received[c] =>
            IF call[c].op = "next"
            THEN resp[c].kind = "event" /\ resp[c].id = 0
            ELSE resp[c].id = call[c].id /\ RequestGone /\ NoAnswer
Flight == RequestInFlight /\ AnswerInFlight /\ AnswerInSlot /\ AnswerRead

(* In blocking mode, events follow the response to the subscription. *)
Subscribed(c) ==
    \/ call[c].op = "next"
    \/ call[c].op = "open" /\ pc[c] = "idle"
    \/ call[c].op = "subscribe" /\ pc[c] = "activate"
    \/ /\ call[c].op \in {"open", "subscribe"}
       /\ \/ /\ pc[c] \in {"recv", "wait", "test"}
             /\ toClient # <<>> /\ toClient[1].id = call[c].id /\ toClient[1].kind = "event"
          \/ pc[c] \in {"wait", "test"} /\ received[c] /\ resp[c].kind = "event"
Began == streaming /\ ~active => \E c \in Clients : Subscribed(c)

CallsInv == /\ Called /\ Mutex /\ Exclusive /\ Mode /\ OneRead /\ Flight /\ Began
            /\ OwnResponse
CallsInvUndisturbed == Undisturbed => CallsInv

(* What is left of a sequence after its head. *)
LEMMA TailElements ==
    ASSUME NEW S, NEW s \in Seq(S), s # <<>>
    PROVE  /\ Tail(s) \in Seq(S) /\ Len(Tail(s)) \in Nat
           /\ \A i \in 1 .. Len(Tail(s)) : /\ Tail(s)[i] = s[i + 1]
                                          /\ i + 1 \in 1 .. Len(s)
<1>1. Tail(s) \in Seq(S) /\ Len(s) \in Nat /\ Len(Tail(s)) = Len(s) - 1
  OBVIOUS
<1>2. \A i \in 1 .. Len(s) - 1 : Tail(s)[i] = s[i + 1]
  OBVIOUS
<1> QED
  BY <1>1, <1>2

-----------------------------------------------------------------------------
(* Lemmas on who is where.                                                 *)

(* One thread reads the connection, and it holds the mutex unless it reads *)
(* a stream.                                                               *)
LEMMA OneReader ==
    ASSUME Called, Mutex, Exclusive, NEW c \in Clients, NEW d \in Clients,
           Reading(c) \/ pc[c] = "send", Reading(d) \/ pc[d] = "send"
    PROVE  c = d
<1> SUFFICES ASSUME c # d PROVE FALSE
  OBVIOUS
<1>1. CASE call[c].op = "next" \/ call[d].op = "next"
  BY <1>1 DEF Exclusive, Called, Reading
<1>2. CASE call[c].op # "next" /\ call[d].op # "next"
  BY <1>2 DEF Mutex, Holds
<1> QED
  BY <1>1, <1>2

LEMMA NothingInFlight ==
    ASSUME Flight, \A c \in Clients : ~Awaits(c)
    PROVE  RequestGone /\ NoAnswer /\ slot = NoMessage
BY DEF Flight, RequestInFlight, AnswerInFlight, AnswerInSlot, NoAnswer

LEMMA FlightKept ==
    ASSUME Flight, UNCHANGED <<toDevice, toClient, slot>>,
           closed => closed', streaming => streaming', active => active',
           \A c \in Clients :
              /\ Awaits(c) => Awaits(c)' /\ call'[c] = call[c]
              /\ slot # NoMessage /\ pc'[c] = "block" => pc[c] = "block" \/ ~Alone
              /\ pc'[c] \in {"wait", "test"} /\ received'[c] =>
                   /\ pc[c] \in {"wait", "test"} /\ received[c]
                   /\ resp'[c] = resp[c] /\ call'[c] = call[c]
    PROVE  Flight'
<1>1. RequestInFlight'
  BY DEF Flight, RequestInFlight, RequestGone
<1>2. AnswerInFlight'
  BY DEF Flight, AnswerInFlight, RequestGone
<1>3. AnswerInSlot'
  BY DEF Flight, AnswerInSlot, RequestGone, NoAnswer, NoMessage, Message
<1>4. AnswerRead'
  BY DEF Flight, AnswerRead, RequestGone, NoAnswer
<1> QED
  BY <1>1, <1>2, <1>3, <1>4 DEF Flight

(* Ending a call that is being made. *)
LEMMA ReturnEnds ==
    ASSUME TypeOK, Called, Mutex, Exclusive, NEW c \in Clients, NEW m,
           Reading(c) \/ pc[c] = "send", Return(c, m), UNCHANGED <<call, active>>
    PROVE  /\ Called' /\ Mutex' /\ Exclusive'
           /\ \A d \in Clients : ~Awaits(d)'
           /\ pc'[c] = IF call[c].op = "subscribe" /\ m.kind \notin Failures
                       THEN "activate" ELSE "idle"
           /\ result'[c] = m
           /\ \A d \in Clients \ {c} : pc'[d] = pc[d] /\ result'[d] = result[d]
<1>1. /\ pc \in [Clients -> ProgramCounters] /\ result \in [Clients -> Messages]
      /\ owner \in Clients \union {Nobody} /\ call' = call /\ active' = active
  BY DEF TypeOK, ClientsOK, ConnOK
<1>2. /\ pc'[c] = IF call[c].op = "subscribe" /\ m.kind \notin Failures
                  THEN "activate" ELSE "idle"
      /\ result'[c] = m
      /\ \A d \in Clients \ {c} : pc'[d] = pc[d] /\ result'[d] = result[d]
  BY <1>1 DEF Return
<1>3. owner' = Nobody
  <2>1. CASE owner = c
    BY <2>1 DEF Return
  <2>2. CASE owner # c
    <3>1. \A d \in Clients : ~Holds(d)
      BY <2>2, OneReader DEF Mutex, Holds, Reading
    <3> QED
      BY <1>1, <2>2, <3>1 DEF Return, Mutex
  <2> QED
    BY <2>1, <2>2
<1>4. \A d \in Clients : ~Reading(d)' /\ pc'[d] # "send"
  BY <1>2, OneReader DEF Reading
<1>5. Mutex' /\ \A d \in Clients : ~Awaits(d)'
  BY <1>3, <1>4, ThreadsAssumption DEF Mutex, Holds, Awaits
<1>6. Called'
  BY <1>1, <1>2 DEF Called, Reading
<1>7. Exclusive'
  BY <1>1, <1>2 DEF Exclusive, Reading
<1> QED
  BY <1>2, <1>5, <1>6, <1>7

(* Threads that leave run_one() stay in their calls. *)
LEMMA ResumeMoves ==
    ASSUME TypeOK, Called, Mutex, Exclusive, NEW t \in Threads, InRunOne(t), Resume(t),
           UNCHANGED <<owner, call, active>>
    PROVE  /\ Called' /\ Mutex' /\ Exclusive'
           /\ \A c \in Clients : /\ Awaits(c)' = Awaits(c)
                                 /\ \/ pc'[c] = pc[c]
                                    \/ c = t /\ pc[c] = "block" /\ pc'[c] = "check"
                                    \/ c = t /\ pc[c] = "wait" /\ pc'[c] = "test"
<1>1. pc \in [Clients -> ProgramCounters]
  BY DEF TypeOK, ClientsOK
<1>2. \A c \in Clients : \/ pc'[c] = pc[c]
                         \/ c = t /\ pc[c] = "block" /\ pc'[c] = "check"
                         \/ c = t /\ pc[c] = "wait" /\ pc'[c] = "test"
  BY <1>1, ThreadsAssumption DEF InRunOne, Resume
<1>3. \A c \in Clients : Reading(c)' = Reading(c) /\ Awaits(c)' = Awaits(c)
  BY <1>2 DEF Reading, Awaits
<1>4. Mutex'
  BY <1>2, <1>3 DEF Mutex, Holds
<1>5. Called'
  BY <1>2 DEF Called
<1>6. Exclusive'
  BY <1>2 DEF Exclusive
<1> QED
  BY <1>2, <1>3, <1>4, <1>5, <1>6

(* What Began and the other parts of the invariant need of a step that     *)
(* changes little.                                                         *)
LEMMA BeganKept ==
    ASSUME Began, streaming' = streaming, ~active' => ~active,
           \A c \in Clients : Subscribed(c) => Subscribed(c)'
    PROVE  Began'
BY DEF Began

(* In blocking mode, the device sends no events while nobody subscribed.   *)
LEMMA NotBegun ==
    ASSUME CallsInv, ~active, NEW c \in Clients,
           pc[c] \in {"lock", "send", "recv", "wait", "test"}, call[c].op # "next",
           pc[c] \in {"recv", "wait", "test"} =>
              /\ toClient # <<>> => toClient[1].id # call[c].id \/ toClient[1].kind # "event"
              /\ pc[c] # "recv" => ~received[c]
    PROVE  ~streaming
<1> SUFFICES ASSUME NEW d \in Clients, Subscribed(d) PROVE FALSE
  BY DEF CallsInv, Began
<1>1. d # c
  BY DEF Subscribed
<1>2. call[c].op # "none"
  BY DEF CallsInv, Called
<1> QED
  BY <1>1, <1>2 DEF Subscribed, CallsInv, Exclusive

LEMMA LockKeeps ==
    ASSUME TypeOK, CallsInv, NEW c \in Clients, Lock(c) PROVE CallsInv'
<1>1. /\ pc \in [Clients -> ProgramCounters] /\ owner \in Clients \union {Nobody}
      /\ pc[c] = "lock" /\ pc' = [pc EXCEPT ![c] = "send"] /\ owner = Nobody /\ owner' = c
      /\ UNCHANGED <<active, slot, corrupt, reads, timer, call, received, resp, result,
                     toDevice, toClient, streaming, closed>>
  BY DEF Lock, Acquire, TypeOK, ClientsOK, ConnOK, ioVars, deviceVars
<1>2. \A d \in Clients : ~Holds(d) /\ ~Awaits(d)
  BY <1>1, ThreadsAssumption DEF CallsInv, Mutex, Awaits
<1>3. Called' /\ Exclusive' /\ Mode' /\ OwnResponse'
  BY <1>1 DEF CallsInv, Called, Exclusive, Mode, OwnResponse
<1>4. Mutex'
  BY <1>1, <1>2 DEF CallsInv, Mutex, Holds, Called, Reading
<1>5. OneRead'
  BY <1>1 DEF CallsInv, OneRead
<1>6. Flight'
  BY <1>1, <1>2, FlightKept DEF CallsInv
<1>7. Began'
  BY <1>1, BeganKept DEF CallsInv, Subscribed
<1> QED
  BY <1>3, <1>4, <1>5, <1>6, <1>7 DEF CallsInv

(* Ending a call keeps what is said of single reads, if none is awaited.   *)
LEMMA ReturnKeeps ==
    ASSUME TypeOK, CallsInv, NEW c \in Clients, NEW m \in Messages,
           Reading(c) \/ pc[c] = "send", Return(c, m),
           UNCHANGED <<call, active, closed, corrupt, received, streaming>>,
           \A d \in Clients \ {c} : timer'[d] = timer[d],
           timer'[c] = "off",
           \/ reads' = <<>>
           \/ reads' = reads /\ ~(pc[c] \in {"wait", "test"} /\ ~received[c]),
           m.kind \in {"reply", "event", "error", "garbage"} =>
              call[c].op = "next" \/ m.id = call[c].id,
           slot' = NoMessage, RequestGone', NoAnswer',
           \A i \in 1 .. Len(toClient') : toClient'[i].kind = "event" /\ streaming,
           \A d \in Clients \ {c} : Subscribed(d) => Subscribed(d)',
           ~active /\ Subscribed(c) => Subscribed(c)'
    PROVE  CallsInv'
<1>1. /\ Called' /\ Mutex' /\ Exclusive'
      /\ \A d \in Clients : ~Awaits(d)'
      /\ pc'[c] \in {"idle", "activate"} /\ result'[c] = m
      /\ \A d \in Clients \ {c} : pc'[d] = pc[d] /\ result'[d] = result[d]
      /\ call' = call /\ active' = active
  BY ReturnEnds DEF CallsInv
<1>2. Mode'
  BY <1>1 DEF CallsInv, Mode
<1>3. OneRead'
  BY <1>1 DEF CallsInv, OneRead
<1>4. \A d \in Clients : pc'[d] \notin {"wait", "test"}
  BY <1>1, OneReader DEF CallsInv, Reading
<1>5. Flight'
  BY <1>4 DEF Flight, RequestInFlight, AnswerInFlight, AnswerInSlot, AnswerRead, NoAnswer
<1>6. Began'
  BY <1>1 DEF CallsInv, Began
<1>7. OwnResponse'
  BY <1>1 DEF CallsInv, OwnResponse
<1> QED
  BY <1>1, <1>2, <1>3, <1>5, <1>6, <1>7 DEF CallsInv

LEMMA SendKeeps ==
    ASSUME TypeOK, CallsInv, NEW c \in Clients, Send(c) PROVE CallsInv'
<1>1. /\ pc \in [Clients -> ProgramCounters] /\ toDevice \in Seq(Requests)
      /\ pc[c] = "send" /\ ~Reading(c)
      /\ UNCHANGED <<active, slot, corrupt, reads, timer, call, received, resp,
                     toClient, streaming, closed>>
  BY DEF Send, TypeOK, ClientsOK, DeviceOK, ioVars, Reading
<1>2. \A d \in Clients : ~Awaits(d) /\ (Reading(d) => FALSE)
  BY <1>1, OneReader DEF CallsInv, Awaits
<1>3. RequestGone /\ NoAnswer /\ slot = NoMessage
  BY <1>2, NothingInFlight DEF CallsInv
<1>4. owner = c /\ call[c].op # "next" /\ call[c].op # "none"
  BY <1>1 DEF CallsInv, Mutex, Holds, Called
<1>5. CASE toDevice' = Append(toDevice, call[c]) /\ pc' = [pc EXCEPT ![c] = "recv"]
           /\ UNCHANGED <<owner, result>>
  <2>1. Called' /\ Exclusive' /\ Mode' /\ OwnResponse'
    BY <1>1, <1>4, <1>5 DEF CallsInv, Called, Exclusive, Mode, OwnResponse
  <2>2. Mutex'
    BY <1>1, <1>4, <1>5 DEF CallsInv, Mutex, Holds, Reading
  <2>3. OneRead'
    BY <1>1, <1>5 DEF CallsInv, OneRead
  <2>4. Awaits(c)' /\ RequestInFlight'
    <3>1. Awaits(c)'
      BY <1>1, <1>4, <1>5 DEF Awaits, Reading
    <3>2. closed \/ toDevice' = <<call[c]>>
      <4>1. ASSUME toDevice = <<>> PROVE toDevice' = <<call[c]>>
        BY <1>5, <4>1
      <4> QED
        BY <1>3, <4>1 DEF RequestGone
    <3> QED
      BY <1>1, <3>1, <3>2 DEF RequestInFlight, RequestGone
  <2>5. AnswerInFlight' /\ AnswerInSlot'
    BY <1>1, <1>3 DEF CallsInv, Flight, AnswerInFlight, AnswerInSlot, NoAnswer,
                      NoMessage, Message
  <2>6. AnswerRead'
    BY <1>1, <1>2, <1>5 DEF AnswerRead, Reading
  <2>7. Began'
    BY <1>1, <1>4, <1>5, BeganKept DEF CallsInv, Subscribed
  <2> QED
    BY <2>1, <2>2, <2>3, <2>4, <2>5, <2>6, <2>7 DEF CallsInv, Flight
<1>6. CASE closed /\ Return(c, Unknown) /\ UNCHANGED toDevice
  <2>1. Unknown \in Messages /\ Unknown.kind = "unknown"
    BY MessageType DEF Unknown, Message
  <2>2. \A d \in Clients \ {c} : pc'[d] = pc[d]
    BY <1>1, <1>6 DEF Return
  <2>3. \A d \in Clients \ {c} : Subscribed(d) => Subscribed(d)'
    BY <1>1, <2>2 DEF Subscribed
  <2>4. ~Subscribed(c)
    BY <1>1, <1>4 DEF Subscribed
  <2>5. \A i \in 1 .. Len(toClient') : toClient'[i].kind = "event" /\ streaming
    BY <1>1, <1>3 DEF CallsInv, Flight, AnswerInFlight, NoAnswer
  <2>6. slot' = NoMessage /\ RequestGone' /\ NoAnswer'
    BY <1>1, <1>3, <1>6 DEF RequestGone, NoAnswer
  <2>7. timer'[c] = "off"
    BY <1>1 DEF CallsInv, Mode, TypeOK, ClientsOK
  <2> QED
    BY <1>1, <1>6, <2>1, <2>3, <2>4, <2>5, <2>6, <2>7, ReturnKeeps
<1> QED
  BY <1>5, <1>6 DEF Send

LEMMA RecvAsyncKeeps ==
    ASSUME TypeOK, CallsInv, NEW c \in Clients, RecvAsync(c) PROVE CallsInv'
<1>1. /\ pc \in [Clients -> ProgramCounters] /\ slot \in Messages
      /\ pc[c] \in {"recv", "check"} /\ active /\ Reading(c)
      /\ UNCHANGED <<active, corrupt, reads, timer, call, received, resp, toDevice,
                     toClient, streaming, closed>>
  BY DEF RecvAsync, TypeOK, ClientsOK, ConnOK, ioVars, deviceVars, Reading, CallsInv, Mode
<1>2. CASE slot # NoMessage /\ Return(c, slot) /\ slot' = ClearedSlot
  <2>1. /\ slot.id = call[c].id /\ RequestGone /\ NoAnswer
    BY <1>1, <1>2, OneReader DEF CallsInv, Flight, AnswerInSlot, Awaits
  <2>2. \A d \in Clients \ {c} : pc'[d] = pc[d]
    BY <1>1, <1>2 DEF Return
  <2>3. \A d \in Clients \ {c} : Subscribed(d) => Subscribed(d)'
    BY <1>1, <2>2 DEF Subscribed
  <2>4. \A i \in 1 .. Len(toClient') : toClient'[i].kind = "event" /\ streaming
    BY <1>1, <2>1 DEF CallsInv, Flight, AnswerInFlight, NoAnswer
  <2>5. slot' = NoMessage /\ RequestGone' /\ NoAnswer'
    BY <1>1, <1>2, <2>1 DEF RequestGone, NoAnswer, ClearedSlot
  <2>6. timer'[c] = "off"
    BY <1>1 DEF CallsInv, Mode
  <2> QED
    BY <1>1, <1>2, <2>1, <2>3, <2>4, <2>5, <2>6, ReturnKeeps
<1>3. CASE /\ pc' = [pc EXCEPT ![c] = "block"]
           /\ slot = NoMessage /\ UNCHANGED <<owner, result, slot>>
  <2>1. call[c].op # "next"
    BY <1>1 DEF CallsInv, Mode
  <2>2. Called' /\ Exclusive' /\ Mode' /\ OwnResponse'
    BY <1>1, <1>3, <2>1 DEF CallsInv, Called, Exclusive, Mode, OwnResponse
  <2>3. Mutex' /\ \A d \in Clients : Awaits(d)' = Awaits(d)
    BY <1>1, <1>3 DEF CallsInv, Mutex, Holds, Reading, Awaits
  <2>4. OneRead'
    BY <1>1, <1>3 DEF CallsInv, OneRead
  <2>5. Flight'
    BY <1>1, <1>3, <2>3, FlightKept DEF CallsInv
  <2>6. Began'
    BY <1>1 DEF Began
  <2> QED
    BY <2>2, <2>3, <2>4, <2>5, <2>6 DEF CallsInv
<1> QED
  BY <1>2, <1>3 DEF RecvAsync

(* While a thread reads, its own read is the only one. *)
LEMMA NoOtherRead ==
    ASSUME CallsInv, ~active, NEW c \in Clients, Reading(c)
    PROVE  \/ reads = <<>>
           \/ /\ reads = <<Read(c, call[c].id)>>
              /\ pc[c] \in {"wait", "test"} /\ ~received[c]
BY OneReader DEF CallsInv, OneRead, Reading

LEMMA RecvSyncKeeps ==
    ASSUME TypeOK, CallsInv, NEW c \in Clients, RecvSync(c) PROVE CallsInv'
<1>1. /\ pc \in [Clients -> ProgramCounters] /\ received \in [Clients -> BOOLEAN]
      /\ timer \in [Clients -> {"off", "armed", "expired"}]
      /\ resp \in [Clients -> Messages]
      /\ pc[c] = "recv" /\ pc' = [pc EXCEPT ![c] = "wait"] /\ ~active /\ Reading(c)
      /\ received' = [received EXCEPT ![c] = FALSE]
      /\ resp' = [resp EXCEPT ![c] = NoMessage]
      /\ timer' = [timer EXCEPT ![c] = "armed"]
      /\ reads' = Append(reads, Read(c, call[c].id)) /\ corrupt' = (corrupt \/ reads # <<>>)
      /\ UNCHANGED <<active, owner, slot, call, result, toDevice, toClient, streaming, closed>>
  BY DEF RecvSync, TypeOK, ClientsOK, Reading, deviceVars
<1>2. reads = <<>>
  BY <1>1, NoOtherRead
<1>3. Called' /\ Exclusive' /\ Mode' /\ OwnResponse'
  BY <1>1 DEF CallsInv, Called, Exclusive, Mode, OwnResponse
<1>4. Mutex' /\ \A d \in Clients : Awaits(d)' = Awaits(d)
  BY <1>1 DEF CallsInv, Mutex, Holds, Reading, Awaits
<1>5. OneRead'
  <2>1. reads' = <<Read(c, call[c].id)>>
    BY <1>1, <1>2
  <2> QED
    BY <1>1, <1>2, <2>1 DEF CallsInv, OneRead
<1>6. Flight'
  BY <1>1, <1>4, FlightKept DEF CallsInv
<1>7. Began'
  BY <1>1, BeganKept DEF CallsInv, Subscribed
<1> QED
  BY <1>3, <1>4, <1>5, <1>6, <1>7 DEF CallsInv

LEMMA TestKeeps ==
    ASSUME TypeOK, CallsInv, NEW c \in Clients, Test(c) PROVE CallsInv'
<1>1. /\ pc \in [Clients -> ProgramCounters] /\ resp[c] \in Messages
      /\ timer \in [Clients -> {"off", "armed", "expired"}]
      /\ pc[c] = "test" /\ ~active /\ Reading(c) /\ timer[c] # "expired"
      /\ UNCHANGED <<active, slot, corrupt, reads, call, received, resp, toDevice,
                     toClient, streaming, closed>>
  BY DEF Test, TypeOK, ClientsOK, deviceVars, Reading, CallsInv, Mode
<1>2. slot = NoMessage
  BY <1>1 DEF CallsInv, Flight, AnswerInSlot
<1>3. CASE LoopEnds(c) /\ Return(c, resp[c]) /\ DropTimer(c)
  <2>1. received[c]
    BY <1>3 DEF LoopEnds
  <2>2. /\ RequestGone /\ NoAnswer
        /\ call[c].op = "next" \/ resp[c].id = call[c].id
    <3>1. CASE call[c].op = "next"
      <4>1. \A d \in Clients : ~Awaits(d)
        <5>1. owner # c
          BY <3>1 DEF CallsInv, Mutex, Holds
        <5> QED
          BY <1>1, <5>1, OneReader DEF CallsInv, Awaits
      <4> QED
        BY <3>1, <4>1, NothingInFlight DEF CallsInv
    <3>2. CASE call[c].op # "next"
      BY <1>1, <2>1, <3>2 DEF CallsInv, Flight, AnswerRead
    <3> QED
      BY <3>1, <3>2
  <2>3. pc'[c] = (IF call[c].op = "subscribe" /\ resp[c].kind \notin Failures
                  THEN "activate" ELSE "idle")
        /\ \A d \in Clients \ {c} : pc'[d] = pc[d] /\ timer'[d] = timer[d]
    BY <1>1, <1>3 DEF Return, DropTimer
  <2>4. \A d \in Clients \ {c} : Subscribed(d) => Subscribed(d)'
    BY <1>1, <2>3 DEF Subscribed
  <2>5. Subscribed(c) => Subscribed(c)'
    <3>1. CASE call[c].op = "next"
      BY <1>1, <3>1 DEF Subscribed
    <3>2. ASSUME Subscribed(c), call[c].op # "next"
          PROVE  call[c].op \in {"open", "subscribe"} /\ resp[c].kind = "event"
      <4>1. toClient # <<>> => toClient[1].id = 0
        BY <2>2 DEF NoAnswer, TypeOK, DeviceOK
      <4> QED
        BY <1>1, <3>2, <4>1 DEF Subscribed, CallsInv, Called
    <3> QED
      BY <1>1, <2>3, <3>1, <3>2 DEF Subscribed, Failures
  <2>6. \A i \in 1 .. Len(toClient') : toClient'[i].kind = "event" /\ streaming
    BY <1>1, <2>2 DEF CallsInv, Flight, AnswerInFlight, NoAnswer
  <2>7. slot' = NoMessage /\ RequestGone' /\ NoAnswer'
    BY <1>1, <1>2, <2>2 DEF RequestGone, NoAnswer
  <2>8. timer'[c] = "off"
    BY <1>1, <1>3 DEF DropTimer
  <2> QED
    BY <1>1, <1>3, <2>1, <2>2, <2>3, <2>4, <2>5, <2>6, <2>7, <2>8, ReturnKeeps
<1>4. CASE /\ ~LoopEnds(c) /\ pc' = [pc EXCEPT ![c] = "wait"]
           /\ UNCHANGED <<owner, result, timer, aborted, delivered>>
  <2>1. Called' /\ Exclusive' /\ Mode' /\ OwnResponse'
    BY <1>1, <1>4 DEF CallsInv, Called, Exclusive, Mode, OwnResponse
  <2>2. Mutex' /\ \A d \in Clients : Awaits(d)' = Awaits(d)
    BY <1>1, <1>4 DEF CallsInv, Mutex, Holds, Reading, Awaits
  <2>3. OneRead'
    BY <1>1, <1>4 DEF CallsInv, OneRead
  <2>4. Flight'
    BY <1>1, <1>4, <2>2, FlightKept DEF CallsInv
  <2>5. Began'
    BY <1>1, <1>4, BeganKept DEF CallsInv, Subscribed
  <2> QED
    BY <2>1, <2>2, <2>3, <2>4, <2>5 DEF CallsInv
<1> QED
  BY <1>1, <1>3, <1>4 DEF Test

(* The switch: nobody else is inside a call, and nothing is being read.    *)
LEMMA AsyncRunKeeps ==
    ASSUME TypeOK, CallsInv, NEW c \in Clients, AsyncRun(c) PROVE CallsInv'
<1>1. /\ pc \in [Clients -> ProgramCounters] /\ active \in BOOLEAN
      /\ timer \in [Clients -> {"off", "armed", "expired"}]
      /\ pc[c] = "activate" /\ pc' = [pc EXCEPT ![c] = "idle"] /\ active' = TRUE
      /\ reads' = (IF active THEN reads ELSE Append(reads, ChainRead))
      /\ corrupt' = (corrupt \/ (~active /\ reads # <<>>))
      /\ call[c].op = "subscribe"
      /\ UNCHANGED <<owner, slot, timer, call, received, resp, result, toDevice, toClient,
                     streaming, closed>>
  BY DEF AsyncRun, TypeOK, ClientsOK, ConnOK, deviceVars, CallsInv, Called
<1>2. ~active => \A d \in Clients : pc[d] \in {"idle", "activate"}
  BY <1>1 DEF CallsInv, Exclusive
<1>3. Called' /\ Exclusive' /\ OwnResponse'
  BY <1>1 DEF CallsInv, Called, Exclusive, OwnResponse
<1>4. Mutex' /\ \A d \in Clients : Awaits(d)' = Awaits(d)
  BY <1>1 DEF CallsInv, Mutex, Holds, Reading, Awaits
<1>5. Mode'
  <2>1. ~active => \A d \in Clients : call[d].op \notin {"open", "next"}
    BY <1>1 DEF CallsInv, Exclusive
  <2> QED
    BY <1>1, <1>2, <2>1 DEF CallsInv, Mode
<1>6. OneRead'
  <2>1. CASE active
    BY <1>1, <2>1 DEF CallsInv, OneRead
  <2>2. CASE ~active
    <3>1. reads = <<>>
      BY <1>2, <2>2 DEF CallsInv, OneRead
    <3>2. reads' = <<ChainRead>>
      BY <1>1, <2>2, <3>1
    <3> QED
      BY <1>1, <3>1, <3>2 DEF CallsInv, OneRead
  <2> QED
    BY <2>1, <2>2
<1>7. Flight'
  BY <1>1, <1>4, FlightKept DEF CallsInv
<1>8. Began'
  BY <1>1 DEF Began
<1> QED
  BY <1>3, <1>4, <1>5, <1>6, <1>7, <1>8 DEF CallsInv

LEMMA ClientStepKeeps ==
    ASSUME TypeOK, CallsInv, NEW c \in Clients, ClientStep(c) PROVE CallsInv'
BY LockKeeps, SendKeeps, RecvAsyncKeeps, RecvSyncKeeps, TestKeeps, AsyncRunKeeps DEF ClientStep
-----------------------------------------------------------------------------
(* Handlers.                                                               *)

LEMMA ResumeKeeps ==
    ASSUME TypeOK, CallsInv, NEW t \in Threads, InRunOne(t), Resume(t),
           UNCHANGED <<active, owner, slot, corrupt, reads, call, received, resp, timer,
                       result, toDevice, toClient, streaming, closed>>
    PROVE  CallsInv'
<1>1. /\ Called' /\ Mutex' /\ Exclusive'
      /\ \A c \in Clients : /\ Awaits(c)' = Awaits(c)
                            /\ \/ pc'[c] = pc[c]
                               \/ c = t /\ pc[c] = "block" /\ pc'[c] = "check"
                               \/ c = t /\ pc[c] = "wait" /\ pc'[c] = "test"
  BY ResumeMoves DEF CallsInv
<1>2. Mode'
  BY <1>1 DEF CallsInv, Mode
<1>3. OneRead' /\ OwnResponse'
  BY <1>1 DEF CallsInv, OneRead, OwnResponse
<1>4. Flight'
  BY <1>1, FlightKept DEF CallsInv
<1>5. Began'
  BY <1>1, BeganKept DEF CallsInv, Subscribed
<1> QED
  BY <1>1, <1>2, <1>3, <1>4, <1>5 DEF CallsInv

(* A handler takes the first message from the wire. *)
LEMMA HeadTaken ==
    ASSUME TypeOK, AnswerInFlight, toClient # <<>>, toClient' = Tail(toClient)
    PROVE  /\ Head(toClient) \in Messages /\ Head(toClient) = toClient[1]
           /\ \A i \in 1 .. Len(toClient') : toClient'[i].id = 0 =>
                 toClient'[i].kind = "event" /\ streaming
           /\ NoAnswer => NoAnswer'
           /\ IF Head(toClient).id = 0
              THEN Head(toClient).kind = "event" /\ streaming
              ELSE /\ \E c \in Clients : Awaits(c) /\ Head(toClient).id = call[c].id
                   /\ RequestGone /\ NoAnswer' /\ ~NoAnswer
<1>1. /\ toClient \in Seq(Messages) /\ Head(toClient) = toClient[1]
      /\ Head(toClient) \in Messages /\ 1 \in 1 .. Len(toClient)
  BY DEF TypeOK, DeviceOK
<1>2. \A i \in 1 .. Len(toClient') : /\ toClient'[i] = toClient[i + 1] /\ i \in Nat
                                     /\ i + 1 \in 1 .. Len(toClient)
  BY <1>1, TailElements
<1>3. \A i \in 1 .. Len(toClient') : toClient'[i].id = 0 =>
          toClient'[i].kind = "event" /\ streaming
  BY <1>2 DEF AnswerInFlight
<1>4. NoAnswer => NoAnswer'
  BY <1>2 DEF NoAnswer
<1>5. ASSUME Head(toClient).id # 0
      PROVE  /\ \E c \in Clients : Awaits(c) /\ Head(toClient).id = call[c].id
             /\ RequestGone /\ NoAnswer' /\ ~NoAnswer
  <2>1. /\ \E c \in Clients : Awaits(c) /\ Head(toClient).id = call[c].id
        /\ RequestGone /\ ~NoAnswer
        /\ \A j \in 1 .. Len(toClient) : toClient[j].id # 0 => 1 = j
    BY <1>1, <1>5 DEF AnswerInFlight, NoAnswer
  <2>2. ASSUME NEW i \in 1 .. Len(toClient') PROVE toClient'[i].id = 0
    <3>1. i + 1 # 1
      BY <1>2
    <3> QED
      BY <1>2, <2>1, <3>1
  <2> QED
    BY <2>1, <2>2 DEF NoAnswer
<1>6. Head(toClient).id = 0 => Head(toClient).kind = "event" /\ streaming
  BY <1>1 DEF AnswerInFlight
<1> QED
  BY <1>1, <1>3, <1>4, <1>5, <1>6

(* The rest of the messages is still awaited by who awaited it. *)
LEMMA RestInFlight ==
    ASSUME TypeOK, AnswerInFlight, toClient # <<>>, toClient' = Tail(toClient),
           UNCHANGED <<call, closed, toDevice, streaming>>,
           \A c \in Clients : Awaits(c)' = Awaits(c)
    PROVE  AnswerInFlight'
<1>1. toClient \in Seq(Messages)
  BY DEF TypeOK, DeviceOK
<1>2. \A i \in 1 .. Len(toClient') : /\ toClient'[i] = toClient[i + 1] /\ i \in Nat
                                     /\ i + 1 \in 1 .. Len(toClient)
  BY <1>1, TailElements
<1>3. ASSUME NEW i \in 1 .. Len(toClient'), toClient'[i].id # 0
      PROVE  /\ \E c \in Clients : Awaits(c)' /\ toClient'[i].id = call'[c].id
             /\ RequestGone'
             /\ \A j \in 1 .. Len(toClient') : toClient'[j].id # 0 => i = j
  <2>1. /\ \E c \in Clients : Awaits(c) /\ toClient[i + 1].id = call[c].id
        /\ RequestGone
        /\ \A j \in 1 .. Len(toClient) : toClient[j].id # 0 => i + 1 = j
    BY <1>2, <1>3 DEF AnswerInFlight
  <2>2. ASSUME NEW j \in 1 .. Len(toClient'), toClient'[j].id # 0 PROVE i = j
    <3>1. i + 1 = j + 1
      BY <1>2, <2>1, <2>2
    <3> QED
      BY <1>2, <3>1
  <2> QED
    BY <1>2, <2>1, <2>2 DEF RequestGone
<1>4. \A i \in 1 .. Len(toClient') : toClient'[i].id = 0 =>
          toClient'[i].kind = "event" /\ streaming'
  BY <1>2 DEF AnswerInFlight
<1> QED
  BY <1>3, <1>4 DEF AnswerInFlight

(* The answer is thrown in the thread that runs the handler. *)
LEMMA ErrorKeeps ==
    ASSUME TypeOK, CallsInv, NEW t \in Threads, InRunOne(t), reads # <<>>,
           toClient # <<>>, toClient' = Tail(toClient), Head(toClient).kind \in Failures,
           ThrowingHandler(t, Head(toClient)),
           UNCHANGED <<active, corrupt, call, toDevice, streaming, closed>>
    PROVE  CallsInv'
<1> DEFINE m == Head(toClient)
<1>1. /\ m \in Messages /\ m = toClient[1] /\ AnswerInFlight
      /\ \A i \in 1 .. Len(toClient') : toClient'[i].id = 0 =>
            toClient'[i].kind = "event" /\ streaming
      /\ m.id # 0 /\ RequestGone /\ NoAnswer' /\ ~NoAnswer
  BY HeadTaken DEF CallsInv, Flight, Failures
<1>2. PICK d \in Clients : Awaits(d) /\ m.id = call[d].id
  BY <1>1, HeadTaken
<1>3. /\ Throw(t, m) /\ reads' = <<>> /\ UNCHANGED <<received, resp, slot>>
  <2>1. PICK r : reads = <<r>>
    BY DEF CallsInv, OneRead
  <2>2. Tail(<<r>>) = <<>>
    OBVIOUS
  <2> QED
    BY <2>1, <2>2 DEF ThrowingHandler
<1>4. slot = NoMessage /\ call[d].op # "next" /\ Reading(d)
  BY <1>1, <1>2 DEF CallsInv, Flight, AnswerInSlot, Mutex, Holds, Awaits
<1>5. RequestGone' /\ slot' = NoMessage
  BY <1>1, <1>3, <1>4 DEF RequestGone
<1>6. m.kind # "event"
  BY DEF Failures
<1>7. CASE t \notin Clients
  <2>1. UNCHANGED <<pc, result, owner, timer>>
    BY <1>3, <1>7 DEF Throw
  <2>2. Called' /\ Mutex' /\ Exclusive' /\ Mode' /\ OwnResponse'
    BY <1>3, <2>1 DEF CallsInv, Called, Mutex, Holds, Reading, Exclusive, Mode, OwnResponse
  <2>3. OneRead'
    BY <1>3 DEF CallsInv, OneRead
  <2>4. Flight'
    <3>1. RequestInFlight' /\ AnswerInFlight' /\ AnswerInSlot'
      BY <1>1, <1>5 DEF RequestInFlight, AnswerInFlight, AnswerInSlot, NoAnswer
    <3>2. AnswerRead'
      BY <1>1, <1>3, <1>5, <2>1 DEF CallsInv, Flight, AnswerRead
    <3> QED
      BY <3>1, <3>2 DEF Flight
  <2>5. Began'
    BY <1>1, <1>3, <1>6, <2>1, BeganKept DEF CallsInv, Subscribed
  <2> QED
    BY <2>2, <2>3, <2>4, <2>5 DEF CallsInv
<1>8. CASE t \in Clients
  <2>1. pc[t] \in {"block", "wait"} /\ Return(t, m) /\ DropTimer(t)
    BY <1>3, <1>8, ThreadsAssumption DEF Throw, InRunOne
  <2>2. t = d
    BY <1>4, <1>8, <2>1, OneReader DEF CallsInv, Reading
  <2>3. \A c \in Clients \ {t} : pc'[c] = pc[c] /\ timer'[c] = timer[c]
    BY <2>1 DEF Return, DropTimer, TypeOK, ClientsOK
  <2>4. timer'[t] = "off"
    BY <1>8, <2>1 DEF DropTimer, TypeOK, ClientsOK
  <2>5. \A c \in Clients \ {t} : Subscribed(c) => Subscribed(c)'
    BY <1>1, <1>3, <1>6, <2>3 DEF Subscribed
  <2>6. ~active => ~Subscribed(t)
    BY <1>1, <1>4, <1>6, <2>1, <2>2 DEF Subscribed, CallsInv, Flight, AnswerRead
  <2>7. \A i \in 1 .. Len(toClient') : toClient'[i].kind = "event" /\ streaming
    BY <1>1 DEF NoAnswer
  <2> QED
    BY <1>1, <1>2, <1>3, <1>4, <1>5, <2>1, <2>2, <2>3, <2>4, <2>5, <2>6, <2>7, ReturnKeeps
<1> QED
  BY <1>7, <1>8

(* The handler of a blocking read: of the one thread that waits for it.    *)
LEMMA SyncMoves ==
    ASSUME CallsInv, NEW t \in Threads, NEW m, reads # <<>>, SyncHandler(t, m)
    PROVE  /\ \E c \in Clients :
                /\ reads = <<Read(c, call[c].id)>> /\ ~active
                /\ pc[c] \in {"wait", "test"} /\ ~received[c]
                /\ received' = [received EXCEPT ![c] = TRUE]
                /\ resp' = [resp EXCEPT ![c] = m]
           /\ reads' = <<>> /\ Resume(t)
           /\ UNCHANGED <<slot, delivered, owner, result, timer>>
<1>1. reads # <<ChainRead>>
  <2>1. Head(<<ChainRead>>) = ChainRead /\ ChainRead.by = Chain
    BY DEF ChainRead, Read
  <2> QED
    BY <2>1 DEF SyncHandler
<1>2. PICK c \in Clients : /\ reads = <<Read(c, call[c].id)>> /\ ~active
                           /\ pc[c] \in {"wait", "test"} /\ ~received[c]
  BY <1>1 DEF CallsInv, OneRead
<1> DEFINE r == Read(c, call[c].id)
<1>3. Head(<<r>>) = r /\ Tail(<<r>>) = <<>> /\ r.by = c /\ r.id = call[c].id
  BY DEF Read
<1>4. Awaited(r)
  BY <1>2, <1>3 DEF Awaited
<1> QED
  BY <1>2, <1>3, <1>4 DEF SyncHandler

(* The handler of the asynchronous chain: it re-arms itself.               *)
LEMMA ChainMoves ==
    ASSUME CallsInv, NEW t \in Threads, NEW m, reads # <<>>, ChainHandler(t, m)
    PROVE  /\ reads = <<ChainRead>> /\ active /\ reads' = <<ChainRead>> /\ Resume(t)
           /\ UNCHANGED <<received, resp, owner, result, timer>>
<1>1. ASSUME NEW c \in Clients, reads = <<Read(c, call[c].id)>> PROVE FALSE
  <2>1. Head(<<Read(c, call[c].id)>>) = Read(c, call[c].id) /\ Read(c, call[c].id).by = c
    BY DEF Read
  <2> QED
    BY <1>1, <2>1, ThreadsAssumption DEF ChainHandler
<1>2. reads = <<ChainRead>> /\ active
  BY <1>1 DEF CallsInv, OneRead
<1>3. Append(Tail(<<ChainRead>>), ChainRead) = <<ChainRead>>
  OBVIOUS
<1> QED
  BY <1>2, <1>3 DEF ChainHandler, Rearmed

(* What a blocking read gets: an event of the stream, or the answer.       *)
LEMMA SyncGets ==
    ASSUME TypeOK, CallsInv, NEW c \in Clients, ~active, pc[c] \in {"wait", "test"},
           ~received[c], toClient # <<>>, toClient' = Tail(toClient),
           UNCHANGED <<closed, toDevice>>
    PROVE  IF call[c].op = "next"
           THEN Head(toClient).kind = "event" /\ Head(toClient).id = 0
           ELSE /\ Head(toClient).id = call[c].id /\ call[c].id # 0
                /\ RequestGone' /\ NoAnswer'
<1> DEFINE m == Head(toClient)
<1>1. \A d \in Clients \ {c} : ~Reading(d)
  BY OneReader DEF CallsInv, Reading
<1>2. /\ m \in Messages /\ m = toClient[1]
      /\ IF m.id = 0 THEN m.kind = "event" /\ streaming
         ELSE /\ \E d \in Clients : Awaits(d) /\ m.id = call[d].id
              /\ RequestGone /\ NoAnswer' /\ ~NoAnswer
  BY HeadTaken DEF CallsInv, Flight
<1>3. CASE call[c].op = "next"
  <2>1. \A d \in Clients : ~Awaits(d)
    BY <1>1, <1>3 DEF CallsInv, Mutex, Holds, Awaits
  <2>2. NoAnswer
    BY <2>1, NothingInFlight DEF CallsInv
  <2> QED
    BY <1>2, <1>3, <2>2
<1>4. CASE call[c].op # "next"
  <2>1. call[c].id # 0
    BY DEF CallsInv, Called
  <2>2. m.id # 0
    <3>1. SUFFICES ASSUME m.id = 0 PROVE ~streaming
      BY <1>2
    <3> QED
      BY <1>2, <1>4, <2>1, <3>1, NotBegun
  <2>3. RequestGone'
    BY <1>2, <2>2 DEF RequestGone
  <2> QED
    BY <1>1, <1>2, <1>4, <2>1, <2>2, <2>3 DEF Awaits
<1> QED
  BY <1>3, <1>4

(* A blocking read got its message: what its caller asked for.             *)
LEMMA SyncKeeps ==
    ASSUME TypeOK, CallsInv, NEW t \in Threads, InRunOne(t), reads # <<>>,
           toClient # <<>>, toClient' = Tail(toClient), SyncHandler(t, Head(toClient)),
           UNCHANGED <<active, corrupt, call, toDevice, streaming, closed>>
    PROVE  CallsInv'
<1> DEFINE m == Head(toClient)
<1>1. PICK c \in Clients : /\ ~active /\ pc[c] \in {"wait", "test"} /\ ~received[c]
                           /\ received' = [received EXCEPT ![c] = TRUE]
                           /\ resp' = [resp EXCEPT ![c] = m]
  BY SyncMoves
<1>2. reads' = <<>> /\ Resume(t) /\ UNCHANGED <<slot, owner, result, timer>>
  BY SyncMoves
<1>3. /\ Called' /\ Mutex' /\ Exclusive'
      /\ \A d \in Clients : /\ Awaits(d)' = Awaits(d)
                            /\ \/ pc'[d] = pc[d]
                               \/ d = t /\ pc[d] = "block" /\ pc'[d] = "check"
                               \/ d = t /\ pc[d] = "wait" /\ pc'[d] = "test"
  BY <1>2, ResumeMoves DEF CallsInv
<1>4. \A d \in Clients \ {c} : ~Reading(d) /\ pc'[d] = pc[d]
  BY <1>1, <1>3, OneReader DEF CallsInv, Reading
<1>5. AnswerInFlight /\ m \in Messages /\ m = toClient[1]
  BY HeadTaken DEF CallsInv, Flight
<1>6. IF call[c].op = "next" THEN m.kind = "event" /\ m.id = 0
      ELSE m.id = call[c].id /\ RequestGone' /\ NoAnswer'
  BY <1>1, SyncGets
<1>7. received[c] \in BOOLEAN /\ received'[c] /\ resp'[c] = m
      /\ \A d \in Clients \ {c} : received'[d] = received[d] /\ resp'[d] = resp[d]
  BY <1>1 DEF TypeOK, ClientsOK
<1>8. Mode' /\ OneRead' /\ OwnResponse'
  BY <1>2, <1>3 DEF CallsInv, Mode, OneRead, OwnResponse
<1>9. Flight'
  <2>1. RequestInFlight'
    BY <1>3 DEF CallsInv, Flight, RequestInFlight, RequestGone
  <2>2. AnswerInFlight'
    BY <1>3, <1>5, RestInFlight
  <2>3. AnswerInSlot'
    BY <1>1, <1>2 DEF CallsInv, Flight, AnswerInSlot, NoMessage, Message
  <2>4. AnswerRead'
    BY <1>4, <1>6, <1>7 DEF AnswerRead, Reading
  <2> QED
    BY <2>1, <2>2, <2>3, <2>4 DEF Flight
<1>10. Began'
  <2>1. ASSUME NEW d \in Clients, Subscribed(d) PROVE Subscribed(d)'
    <3>1. CASE d # c
      BY <1>4, <2>1, <3>1 DEF Subscribed, Reading
    <3>2. CASE d = c
      <4>1. pc'[c] \in {"wait", "test"}
        BY <1>1, <1>3
      <4>2. \/ call[c].op = "next"
            \/ call[c].op \in {"open", "subscribe"} /\ toClient[1].kind = "event"
        BY <1>1, <2>1, <3>2 DEF Subscribed
      <4> QED
        BY <1>5, <1>7, <3>2, <4>1, <4>2 DEF Subscribed
    <3> QED
      BY <3>1, <3>2
  <2> QED
    BY <2>1, BeganKept DEF CallsInv
<1> QED
  BY <1>3, <1>8, <1>9, <1>10 DEF CallsInv

(* The asynchronous chain got a message: an event, or the awaited answer.  *)
LEMMA ChainKeeps ==
    ASSUME TypeOK, CallsInv, NEW t \in Threads, InRunOne(t), reads # <<>>,
           toClient # <<>>, toClient' = Tail(toClient), ChainHandler(t, Head(toClient)),
           UNCHANGED <<active, corrupt, call, toDevice, streaming, closed>>
    PROVE  CallsInv'
<1> DEFINE m == Head(toClient)
<1>1. reads = <<ChainRead>> /\ active
  BY ChainMoves
<1>2. reads' = <<ChainRead>> /\ Resume(t) /\ UNCHANGED <<received, resp, owner, result, timer>>
  BY ChainMoves
<1>3. /\ Called' /\ Mutex' /\ Exclusive'
      /\ \A d \in Clients : /\ Awaits(d)' = Awaits(d)
                            /\ \/ pc'[d] = pc[d]
                               \/ d = t /\ pc[d] = "block" /\ pc'[d] = "check"
                               \/ d = t /\ pc[d] = "wait" /\ pc'[d] = "test"
  BY <1>2, ResumeMoves DEF CallsInv
<1>4. /\ AnswerInFlight /\ m \in Messages /\ (NoAnswer => NoAnswer')
      /\ IF m.id = 0 THEN m.kind = "event" /\ streaming
         ELSE /\ \E d \in Clients : Awaits(d) /\ m.id = call[d].id
              /\ RequestGone /\ NoAnswer' /\ ~NoAnswer
  BY HeadTaken DEF CallsInv, Flight
<1>5. \A d \in Clients : pc[d] \notin {"wait", "test"}
  BY <1>1 DEF CallsInv, Mode
<1>6. Mode' /\ OneRead' /\ OwnResponse'
  BY <1>1, <1>2, <1>3, <1>5 DEF CallsInv, Mode, OneRead, OwnResponse
<1>7. RequestInFlight' /\ AnswerInFlight' /\ AnswerRead'
  <2>1. RequestInFlight'
    BY <1>3 DEF CallsInv, Flight, RequestInFlight, RequestGone
  <2>2. AnswerInFlight'
    BY <1>3, <1>4, RestInFlight
  <2>3. AnswerRead'
    BY <1>3, <1>5 DEF AnswerRead
  <2> QED
    BY <2>1, <2>2, <2>3
<1>8. AnswerInSlot'
  <2>1. CASE IsEvent(m) /\ slot' = slot
    <3>1. \A d \in Clients : pc'[d] = "block" => pc[d] = "block"
      BY <1>3
    <3> QED
      BY <1>1, <1>3, <1>4, <2>1, <3>1
         DEF CallsInv, Flight, AnswerInSlot, RequestGone, NoMessage, Message
  <2>2. CASE ~IsEvent(m) /\ slot' = m
    <3>0. m.id # 0
      BY <1>4, <2>2 DEF IsEvent
    <3>1. PICK d \in Clients : Awaits(d) /\ m.id = call[d].id
      BY <1>4, <3>0
    <3>2. pc'[d] = "block" => ~Alone
      <4>1. SUFFICES ASSUME pc'[d] = "block", Alone PROVE FALSE
        OBVIOUS
      <4>2. t \in Clients /\ pc[t] = "block" /\ t # d
        BY <1>2, <1>5, <4>1, ThreadsAssumption
           DEF Alone, Threads, InRunOne, Resume, TypeOK, ClientsOK
      <4> QED
        BY <3>1, <4>2, OneReader DEF CallsInv, Awaits, Reading
    <3> QED
      BY <1>1, <1>3, <1>4, <2>2, <3>0, <3>1, <3>2 DEF AnswerInSlot, RequestGone
  <2> QED
    BY <2>1, <2>2 DEF ChainHandler
<1>9. Began'
  BY <1>1 DEF Began
<1> QED
  BY <1>3, <1>6, <1>7, <1>8, <1>9 DEF CallsInv, Flight

(* Only clients run the handlers of a connection that the device closed:   *)
(* the read fails in the thread that called it.                            *)
LEMMA ClosedKeeps ==
    ASSUME CallsUse, TypeOK, CallsInv, NEW t \in Threads, InRunOne(t), ClosedHandler(t),
           UNCHANGED <<active, corrupt, call, toDevice, streaming, closed>>
    PROVE  CallsInv'
<1>1. Alone /\ t \in Clients /\ pc[t] \in {"block", "wait"}
  BY ThreadsAssumption
     DEF ClosedHandler, CallsInv, Mode, CallsUse, Alone, Threads, InRunOne
<1>2. PICK m \in {Unknown, Abort} : ThrowingHandler(t, m)
  BY DEF ClosedHandler
<1>3. /\ Return(t, m) /\ DropTimer(t) /\ UNCHANGED <<received, resp, slot>>
      /\ closed /\ toClient = <<>> /\ toClient' = <<>>
  BY <1>1, <1>2, ThreadsAssumption DEF ClosedHandler, ThrowingHandler, Throw
<1>4. reads' = <<>>
  <2>1. PICK r : reads = <<r>>
    BY DEF CallsInv, OneRead, ClosedHandler
  <2>2. Tail(<<r>>) = <<>>
    OBVIOUS
  <2> QED
    BY <1>2, <2>1, <2>2 DEF ThrowingHandler
<1>5. slot = NoMessage
  <2>1. SUFFICES ASSUME slot # NoMessage PROVE FALSE
    OBVIOUS
  <2>2. PICK d \in Clients : Reading(d) /\ pc[d] # "block" /\ active
    BY <1>1, <2>1 DEF CallsInv, Flight, AnswerInSlot, Awaits
  <2>3. d = t
    BY <1>1, <2>2, OneReader DEF CallsInv, Reading
  <2> QED
    BY <1>1, <2>2, <2>3 DEF CallsInv, Mode
<1>6. /\ \A d \in Clients \ {t} : pc'[d] = pc[d] /\ timer'[d] = timer[d]
      /\ timer'[t] = "off"
  BY <1>1, <1>3 DEF Return, DropTimer, TypeOK, ClientsOK
<1>7. \A d \in Clients \ {t} : Subscribed(d) => Subscribed(d)'
  BY <1>3, <1>6 DEF Subscribed
<1>8. ~active /\ Subscribed(t) => Subscribed(t)'
  <2>1. SUFFICES ASSUME ~active, Subscribed(t) PROVE call[t].op = "next"
    BY DEF Subscribed
  <2>2. ~received[t]
    BY <1>1, <2>1, NoOtherRead DEF ClosedHandler, Reading
  <2> QED
    BY <1>1, <1>3, <2>1, <2>2 DEF Subscribed
<1>9. /\ slot' = NoMessage /\ RequestGone' /\ NoAnswer'
      /\ \A i \in 1 .. Len(toClient') : toClient'[i].kind = "event" /\ streaming
  <2>1. Len(<<>>) = 0
    OBVIOUS
  <2> QED
    BY <1>3, <1>5, <2>1 DEF RequestGone, NoAnswer
<1>10. /\ Reading(t) /\ m \in Messages
       /\ m.kind \notin {"reply", "event", "error", "garbage"}
  BY <1>1, MessageType DEF Reading, Unknown, Abort, Message
<1> QED
  BY <1>1, <1>3, <1>4, <1>6, <1>7, <1>8, <1>9, <1>10, ReturnKeeps

LEMMA RunOneKeeps ==
    ASSUME CallsUse, TypeOK, CallsInv, NEW t \in Threads, RunOne(t)
    PROVE  Undisturbed' => CallsInv'
<1>0. InRunOne(t) /\ UNCHANGED <<active, corrupt, call, toDevice, streaming, closed>>
  BY DEF RunOne
<1>1. CASE MessageHandler(t)
  <2>1. /\ reads # <<>> /\ toClient # <<>> /\ toClient' = Tail(toClient)
        /\ IF Head(toClient).kind \in Failures THEN ThrowingHandler(t, Head(toClient))
           ELSE SyncHandler(t, Head(toClient)) \/ ChainHandler(t, Head(toClient))
    BY <1>1 DEF MessageHandler, Starved, CallsInv, OneRead
  <2> QED
    BY <1>0, <2>1, ErrorKeeps, SyncKeeps, ChainKeeps
<1>2. CASE ClosedHandler(t)
  BY <1>0, <1>2, ClosedKeeps
<1>3. ASSUME NEW c \in Clients, TimerHandler(t, c) PROVE ~Undisturbed'
  BY <1>3 DEF TimerHandler, TypeOK, ClientsOK, Undisturbed
<1>4. CASE AbortedHandler(t)
  BY <1>0, <1>4, ResumeKeeps DEF AbortedHandler
<1> QED
  BY <1>1, <1>2, <1>3, <1>4 DEF RunOne

(* A handler of another connection that does not throw. *)
LEMMA OtherHandlerWakes ==
    ASSUME TypeOK, NEW t \in Threads, OtherHandler(t), Undisturbed'
    PROVE  /\ InRunOne(t) /\ Resume(t)
           /\ UNCHANGED <<connVars, ioVars, call, received, resp, timer, result, calls,
                          timeouts, deviceVars, histVars>>
<1>1. foreign' # foreign + 1
  BY DEF Undisturbed, TypeOK, IoOK
<1> QED
  BY <1>1 DEF OtherHandler, connVars, ioVars

LEMMA OtherHandlerKeeps ==
    ASSUME TypeOK, CallsInv, NEW t \in Threads, OtherHandler(t), Undisturbed'
    PROVE  CallsInv'
BY OtherHandlerWakes, ResumeKeeps DEF connVars, ioVars, deviceVars
-----------------------------------------------------------------------------
(* Calls, and the device.                                                  *)

LEMMA CallKeeps ==
    ASSUME CallsUse, TypeOK, CallsInv, NEW c \in Clients, NEW op \in Ops, Call(c, op)
    PROVE  CallsInv'
<1>1. /\ pc \in [Clients -> ProgramCounters] /\ call \in [Clients -> Requests]
      /\ result \in [Clients -> Messages] /\ calls \in Nat
      /\ pc[c] = "idle" /\ pc' = [pc EXCEPT ![c] = IF op = "next" THEN "recv" ELSE "lock"]
      /\ call' = [call EXCEPT ![c] = [op |-> op, id |-> calls + 1]]
      /\ result' = [result EXCEPT ![c] = NoMessage]
      /\ op \in {"get", "subscribe", "open", "next"} /\ Permitted(c, op)
      /\ UNCHANGED <<active, owner, slot, corrupt, reads, timer, received, resp,
                     toDevice, toClient, streaming, closed>>
  BY ParamsAssumption
     DEF Call, TypeOK, ClientsOK, connVars, ioVars, deviceVars
<1>2. /\ call'[c].op = op /\ call'[c].id = calls + 1 /\ call'[c].id # 0
      /\ \A d \in Clients \ {c} : pc'[d] = pc[d] /\ call'[d] = call[d]
      /\ ~Reading(c)
  BY <1>1 DEF Reading
<1>3. Called'
  BY <1>1, <1>2 DEF CallsInv, Called
<1>4. Mutex' /\ \A d \in Clients : Awaits(d) => Awaits(d)' /\ call'[d] = call[d]
  <2>1. owner # c
    BY <1>1, <1>2 DEF CallsInv, Mutex, Holds
  <2> QED
    BY <1>1, <1>2, <2>1 DEF CallsInv, Mutex, Holds, Reading, Awaits
<1>5. Exclusive'
  <2>1. ASSUME NEW d \in Clients, d # c, call'[d].op \in {"open", "next"} PROVE FALSE
    <3>1. op \in {"open", "next"}
      BY <1>1, <1>2, <2>1 DEF Permitted
    <3> QED
      BY <1>1, <1>2, <2>1, <3>1 DEF Permitted
  <2>2. ASSUME NEW d \in Clients, d # c, op \in {"open", "next"} PROVE call'[d].op = "none"
    BY <1>1, <1>2, <2>2 DEF Permitted
  <2>3. ASSUME NEW d \in Clients, d # c, ~active
        PROVE  /\ op = "subscribe" => pc'[d] = "idle"
               /\ call'[d].op = "subscribe" /\ pc'[d] # "idle" => pc'[c] = "idle"
    <3>1. SubscribesAlone
      BY <2>3, ParamsAssumption DEF CallsUse, CallsInv, Mode
    <3> QED
      BY <1>1, <1>2, <2>3, <3>1 DEF Permitted
  <2>4. ASSUME NEW d \in Clients, NEW e \in Clients, d # e, d # c, e # c
        PROVE  /\ call'[d].op \in {"open", "next"} => call'[e].op = "none"
               /\ ~active /\ call'[d].op = "subscribe" /\ pc'[d] # "idle" => pc'[e] = "idle"
    BY <1>2, <2>4 DEF CallsInv, Exclusive
  <2> QED
    BY <1>1, <1>2, <2>1, <2>2, <2>3, <2>4 DEF Exclusive
<1>6. Mode'
  <2>1. ASSUME active PROVE op \notin {"open", "next"}
    <3>1. CASE StartAsync
      BY <3>1 DEF CallsUse
    <3>2. PICK d \in Clients : ~StartAsync => call[d].op # "none"
      BY <1>1, <2>1 DEF CallsInv, Mode
    <3>3. CASE ~StartAsync
      <4>1. CASE d # c
        BY <1>1, <3>2, <3>3, <4>1 DEF Permitted
      <4>2. CASE d = c
        BY <1>1, <2>1, <3>2, <3>3, <4>2 DEF Permitted, CallsInv, Mode
      <4> QED
        BY <4>1, <4>2
    <3> QED
      BY <3>1, <3>3, ParamsAssumption
  <2> QED
    BY <1>1, <1>2, <2>1 DEF CallsInv, Mode
<1>7. OneRead'
  BY <1>1, <1>2 DEF CallsInv, OneRead
<1>8. Flight'
  BY <1>1, <1>2, <1>4, FlightKept DEF CallsInv
<1>9. Began'
  <2>1. ASSUME ~active, NEW w \in Clients, Subscribed(w) PROVE \E d \in Clients : Subscribed(d)'
    <3>1. CASE w # c
      BY <1>1, <1>2, <2>1, <3>1 DEF Subscribed
    <3>2. CASE w = c
      <4>1. call[c].op \in {"open", "next"}
        BY <1>1, <2>1, <3>2 DEF Subscribed
      <4> WITNESS c \in Clients
      <4> QED
        BY <1>1, <1>2, <4>1 DEF Subscribed, Permitted
    <3> QED
      BY <3>1, <3>2
  <2> QED
    BY <1>1, <2>1 DEF CallsInv, Began
<1>10. OwnResponse'
  <2>1. NoMessage.kind = "none"
    BY DEF NoMessage, Message
  <2> QED
    BY <1>1, <1>2, <2>1 DEF CallsInv, OwnResponse
<1> QED
  BY <1>3, <1>4, <1>5, <1>6, <1>7, <1>8, <1>9, <1>10 DEF CallsInv

(* A message is put on the wire behind the others. *)
LEMMA Appended ==
    ASSUME NEW S, NEW s \in Seq(S), NEW m, NEW u, u = Append(s, m)
    PROVE  /\ Len(s) \in Nat /\ Len(u) = Len(s) + 1 /\ u[Len(s) + 1] = m /\ u # <<>>
           /\ \A i \in 1 .. Len(s) : u[i] = s[i]
           /\ s # <<>> => u[1] = s[1]
           /\ s = <<>> => u[1] = m
<1>1. Len(s) \in Nat /\ Len(u) = Len(s) + 1 /\ u[Len(s) + 1] = m /\ u # <<>>
  OBVIOUS
<1>2. \A i \in 1 .. Len(s) : u[i] = s[i]
  OBVIOUS
<1>3. s # <<>> => 1 \in 1 .. Len(s)
  BY <1>1
<1>4. s = <<>> => Len(s) = 0
  OBVIOUS
<1> QED
  BY <1>1, <1>2, <1>3, <1>4

LEMMA DeviceAnswerKeeps ==
    ASSUME TypeOK, CallsInv, DeviceAnswer PROVE CallsInv'
<1>1. /\ ~closed /\ toDevice # <<>> /\ toDevice' = Tail(toDevice)
      /\ UNCHANGED <<active, owner, slot, corrupt, reads, pc, call, received, resp, timer,
                     result, closed>>
  BY DEF DeviceAnswer, connVars, ioVars, clientVars
<1>2. PICK c \in Clients : Awaits(c) /\ toDevice = <<call[c]>>
  BY <1>1 DEF CallsInv, Flight, RequestInFlight, RequestGone
<1>3. Head(toDevice) = call[c] /\ toDevice' = <<>>
  <2>1. Head(<<call[c]>>) = call[c] /\ Tail(<<call[c]>>) = <<>>
    OBVIOUS
  <2> QED
    BY <1>1, <1>2, <2>1
<1>4. ~RequestGone /\ NoAnswer /\ slot = NoMessage /\ toClient \in Seq(Messages)
  BY <1>1 DEF RequestGone, CallsInv, Flight, AnswerInFlight, AnswerInSlot, NoAnswer,
              TypeOK, DeviceOK
<1>5. PICK k \in {"reply", "event", "error"} :
         /\ toClient' = Append(toClient, Message(k, call[c].id, 0))
         /\ \/ streaming' = streaming
            \/ call[c].op # "get" /\ k = "event" /\ streaming'
  <2>1. CASE /\ toClient' = Append(toClient, Message(IF call[c].op = "get" THEN "reply"
                                                     ELSE "event", call[c].id, 0))
             /\ streaming' = (streaming \/ call[c].op # "get")
    BY <2>1 DEF TypeOK, DeviceOK
  <2>2. CASE /\ toClient' = Append(toClient, Message("error", call[c].id, 0))
             /\ streaming' = streaming
    BY <2>2
  <2> QED
    BY <1>3, <2>1, <2>2 DEF DeviceAnswer
<1> DEFINE answer == Message(k, call[c].id, 0)
<1>6. /\ Len(toClient) \in Nat /\ Len(toClient') = Len(toClient) + 1
      /\ toClient'[Len(toClient) + 1] = answer /\ toClient' # <<>>
      /\ \A i \in 1 .. Len(toClient) : toClient'[i] = toClient[i]
      /\ toClient = <<>> => toClient'[1] = answer
  BY <1>4, <1>5, Appended
<1>7. answer.id = call[c].id /\ answer.kind = k /\ call[c].id # 0
      /\ call[c].op \in {"get", "subscribe", "open"}
  BY <1>2 DEF Message, Awaits, CallsInv, Mutex, Holds, Called, Reading, TypeOK, ClientsOK,
              Requests
<1>8. Called' /\ Mutex' /\ Exclusive' /\ Mode' /\ OneRead' /\ OwnResponse'
  BY <1>1 DEF CallsInv, Called, Mutex, Holds, Reading, Exclusive, Mode, OneRead, OwnResponse
<1>9. Awaits(c)' /\ RequestGone'
  BY <1>1, <1>2, <1>3 DEF Awaits, Reading, RequestGone
<1>10. AnswerInFlight'
  <2>1. \A i \in 1 .. Len(toClient) : toClient[i].id = 0 /\ toClient[i].kind = "event" /\ streaming
    BY <1>4 DEF CallsInv, Flight, AnswerInFlight, NoAnswer
  <2>2. streaming => streaming'
    BY <1>5
  <2> QED
    BY <1>1, <1>6, <1>7, <1>9, <2>1, <2>2 DEF AnswerInFlight
<1>11. RequestInFlight' /\ AnswerInSlot' /\ AnswerRead'
  BY <1>1, <1>4, <1>9 DEF CallsInv, Flight, RequestInFlight, AnswerInSlot, AnswerRead,
                          NoMessage, Message
<1>12. Began'
  <2>1. CASE streaming' = streaming
    <3>1. ASSUME NEW d \in Clients, Subscribed(d) PROVE Subscribed(d)'
      <4>1. toClient # <<>> => toClient[1].id = 0
        BY <1>4 DEF NoAnswer
      <4>2. pc[d] # "idle" => call[d].id # 0
        BY DEF CallsInv, Called
      <4> QED
        BY <1>1, <3>1, <4>1, <4>2 DEF Subscribed
    <3> QED
      BY <1>1, <2>1, <3>1, BeganKept DEF CallsInv
  <2>2. CASE ~streaming /\ streaming' /\ call[c].op # "get" /\ k = "event" /\ ~active
    <3>1. toClient = <<>>
      <4>1. Len(toClient) # 0 => 1 \in 1 .. Len(toClient)
        BY <1>6
      <4>2. Len(toClient) = 0
        BY <1>4, <2>2, <4>1 DEF CallsInv, Flight, AnswerInFlight, NoAnswer
      <4> QED
        BY <1>4, <4>2
    <3>2. pc[c] \in {"recv", "wait", "test"}
      BY <1>2, <2>2 DEF Awaits, Reading, CallsInv, Mode
    <3>3. Subscribed(c)'
      BY <1>1, <1>6, <1>7, <2>2, <3>1, <3>2 DEF Subscribed
    <3> QED
      BY <3>3 DEF Began
  <2>3. CASE active
    BY <1>1, <2>3 DEF Began
  <2>4. streaming \in BOOLEAN
    BY DEF TypeOK, DeviceOK
  <2> QED
    BY <1>5, <2>1, <2>2, <2>3, <2>4
<1> QED
  BY <1>8, <1>10, <1>11, <1>12 DEF CallsInv, Flight

LEMMA DeviceEventKeeps ==
    ASSUME TypeOK, CallsInv, DeviceEvent PROVE CallsInv'
<1> DEFINE event == Message("event", 0, events + 1)
<1>1. /\ streaming /\ toClient \in Seq(Messages) /\ toClient' = Append(toClient, event)
      /\ UNCHANGED <<active, owner, slot, corrupt, reads, pc, call, received, resp, timer,
                     result, closed, toDevice, streaming>>
  BY DEF DeviceEvent, connVars, ioVars, clientVars, TypeOK, DeviceOK
<1>2. /\ Len(toClient) \in Nat /\ Len(toClient') = Len(toClient) + 1
      /\ toClient'[Len(toClient) + 1] = event /\ toClient' # <<>>
      /\ \A i \in 1 .. Len(toClient) : toClient'[i] = toClient[i]
      /\ toClient # <<>> => toClient'[1] = toClient[1]
  BY <1>1, Appended
<1>3. event.id = 0 /\ event.kind = "event"
  BY DEF Message
<1>4. Called' /\ Mutex' /\ Exclusive' /\ Mode' /\ OneRead' /\ OwnResponse'
  BY <1>1 DEF CallsInv, Called, Mutex, Holds, Reading, Exclusive, Mode, OneRead, OwnResponse
<1>5. \A d \in Clients : Awaits(d)' = Awaits(d)
  BY <1>1 DEF Awaits, Reading
<1>6. AnswerInFlight' /\ (NoAnswer => NoAnswer')
  BY <1>1, <1>2, <1>3, <1>5 DEF CallsInv, Flight, AnswerInFlight, NoAnswer, RequestGone
<1>7. RequestInFlight' /\ AnswerInSlot' /\ AnswerRead'
  BY <1>1, <1>5, <1>6 DEF CallsInv, Flight, RequestInFlight, AnswerInSlot, AnswerRead,
                          RequestGone, NoMessage, Message
<1>8. Began'
  BY <1>1, <1>2, BeganKept DEF CallsInv, Subscribed
<1> QED
  BY <1>4, <1>6, <1>7, <1>8 DEF CallsInv, Flight

LEMMA DeviceCloseKeeps ==
    ASSUME CallsInv, DeviceClose PROVE CallsInv'
<1>1. /\ MayClose /\ closed' = TRUE
      /\ UNCHANGED <<active, owner, slot, corrupt, reads, pc, call, received, resp, timer,
                     result, toDevice, toClient, streaming>>
  BY DEF DeviceClose, connVars, ioVars, clientVars
<1>2. Called' /\ Mutex' /\ Exclusive' /\ Mode' /\ OneRead' /\ OwnResponse'
  BY <1>1 DEF CallsInv, Called, Mutex, Holds, Reading, Exclusive, Mode, OneRead, OwnResponse
<1>3. Flight'
  BY <1>1, FlightKept DEF CallsInv, Awaits, Reading
<1>4. Began'
  BY <1>1, BeganKept DEF CallsInv, Subscribed
<1> QED
  BY <1>2, <1>3, <1>4 DEF CallsInv

LEMMA CallsInit == Init => CallsInv
<1> SUFFICES ASSUME Init PROVE CallsInv
  OBVIOUS
<1>1. /\ \A c \in Clients : /\ pc[c] = "idle" /\ call[c] = [op |-> "none", id |-> 0]
                            /\ timer[c] = "off" /\ result[c] = NoMessage
      /\ active = StartAsync /\ streaming = StartAsync /\ owner = Nobody /\ ~closed
      /\ slot = NoMessage /\ ~corrupt /\ toDevice = <<>> /\ toClient = <<>>
      /\ reads = IF StartAsync THEN <<ChainRead>> ELSE <<>>
  BY DEF Init
<1>2. Called /\ Mutex /\ Exclusive /\ OneRead
  BY <1>1, ThreadsAssumption, ParamsAssumption
     DEF Called, Mutex, Holds, Reading, Exclusive, OneRead
<1>3. Mode
  BY <1>1, ParamsAssumption DEF Mode
<1>4. OwnResponse
  BY <1>1 DEF OwnResponse, NoMessage, Message
<1>5. Flight
  <2>1. Len(<<>>) = 0
    OBVIOUS
  <2> QED
    BY <1>1, <2>1 DEF Flight, RequestInFlight, AnswerInFlight, AnswerInSlot, AnswerRead,
                      RequestGone
<1>6. Began
  BY <1>1 DEF Began
<1> QED
  BY <1>2, <1>3, <1>4, <1>5, <1>6 DEF CallsInv

LEMMA CallsNext ==
    ASSUME CallsUse, TypeOK, CallsInv, [Next]_vars PROVE Undisturbed' => CallsInv'
<1>1. CASE UNCHANGED vars
  <2>1. UNCHANGED <<active, owner, slot, corrupt, reads, pc, call, received, resp, timer,
                    result, closed, toDevice, toClient, streaming>>
    BY <1>1 DEF vars, connVars, ioVars, clientVars, deviceVars
  <2>2. Called' /\ Mutex' /\ Exclusive' /\ Mode' /\ OneRead' /\ OwnResponse'
    BY <2>1 DEF CallsInv, Called, Mutex, Holds, Reading, Exclusive, Mode, OneRead, OwnResponse
  <2>3. Flight'
    BY <2>1, FlightKept DEF CallsInv, Awaits, Reading
  <2>4. Began'
    BY <2>1, BeganKept DEF CallsInv, Subscribed
  <2> QED
    BY <2>2, <2>3, <2>4 DEF CallsInv
<1> QED
  BY <1>1, ClientStepKeeps, RunOneKeeps, OtherHandlerKeeps, CallKeeps, DeviceAnswerKeeps,
     DeviceEventKeeps, DeviceCloseKeeps DEF Next, Finished

(* No recv() takes back that it was given up. *)
LEMMA UndisturbedBefore == ASSUME TypeOK, [Next]_vars, Undisturbed' PROVE Undisturbed
<1>1. timeouts \in Nat /\ foreign \in Nat
  BY DEF TypeOK, ClientsOK, IoOK
<1>2. timeouts' = timeouts \/ timeouts' = timeouts + 1
  BY DEF Next, Call, ClientStep, Lock, Send, RecvAsync, RecvSync, Test, AsyncRun,
         OtherHandler, RunOne, MessageHandler, ClosedHandler, TimerHandler, AbortedHandler,
         DeviceAnswer, DeviceEvent, DeviceClose, Finished, vars, clientVars
<1>3. foreign' = foreign \/ foreign' = foreign + 1
  BY DEF Next, Call, ClientStep, Lock, Send, RecvAsync, RecvSync, Test, AsyncRun,
         OtherHandler, RunOne, DeviceAnswer, DeviceEvent, DeviceClose, Finished, vars, ioVars
<1> QED
  BY <1>1, <1>2, <1>3 DEF Undisturbed

(* The invariant of the calls: mutex, mode, reads and answers in flight.   *)
THEOREM CallsInvariant == ASSUME CallsUse PROVE Spec => []CallsInvUndisturbed
<1>1. Init => CallsInvUndisturbed
  BY CallsInit DEF CallsInvUndisturbed
<1>2. TypeOK /\ CallsInvUndisturbed /\ [Next]_vars => CallsInvUndisturbed'
  BY CallsNext, UndisturbedBefore DEF CallsInvUndisturbed
<1> QED
  BY <1>1, <1>2, TypeCorrect, PTL DEF Spec

(* Every request method gets the answer to its own request, in every mode, *)
(* as long as no recv() was given up.                                      *)
THEOREM CallsOwnResponse == ASSUME CallsUse PROVE Spec => []OwnResponseUndisturbed
<1>1. CallsInvUndisturbed => OwnResponseUndisturbed
  BY DEF CallsInvUndisturbed, CallsInv, OwnResponseUndisturbed
<1> QED
  BY <1>1, CallsInvariant, PTL

(* One read at a time, and nobody reads for a recv() that has returned.    *)
THEOREM CallsNoStrayRead == ASSUME CallsUse PROVE Spec => []NoStrayRead
<1>1. CallsInvUndisturbed => NoStrayRead
  <2> SUFFICES ASSUME CallsInv PROVE /\ ~corrupt
                                     /\ \A i \in DOMAIN reads : reads[i].by # Chain => Awaited(reads[i])
    BY DEF CallsInvUndisturbed, NoStrayRead
  <2>1. \A r : DOMAIN <<r>> = {1} /\ <<r>>[1] = r
    OBVIOUS
  <2>2. DOMAIN <<>> = {}
    OBVIOUS
  <2> QED
    BY <2>1, <2>2 DEF CallsInv, OneRead, Awaited, ChainRead, Read
<1> QED
  BY <1>1, CallsInvariant, PTL
-----------------------------------------------------------------------------
(* The slot.  If only clients run handlers, a recv() that times out leaves *)
(* a read behind that nobody finishes before the framing is lost.          *)

Waits == \A c \in Clients : /\ pc[c] = "wait" => ~received[c]
                            /\ pc[c] \in {"wait", "test"} /\ ~received[c] => reads # <<>>
Abandoned == /\ ~active /\ slot = NoMessage /\ reads # <<>>
             /\ \A c \in Clients : /\ pc[c] \notin {"wait", "check", "block"}
                                   /\ pc[c] = "test" => timer[c] = "expired" /\ ~received[c]
Solo == Alone => IF timeouts = 0 THEN Waits ELSE corrupt \/ Abandoned

LEMMA CorruptStays == ASSUME [Next]_vars, corrupt PROVE corrupt'
BY DEF Next, Call, ClientStep, Lock, Send, RecvAsync, RecvSync, Test, AsyncRun,
       OtherHandler, RunOne, DeviceAnswer, DeviceEvent, DeviceClose, Finished, vars, connVars

(* Nobody is left to run a handler. *)
LEMMA AbandonedStays ==
    ASSUME TypeOK, Alone, Abandoned, [Next]_vars PROVE corrupt' \/ Abandoned'
<1>0. /\ pc \in [Clients -> ProgramCounters] /\ timer \in [Clients -> {"off", "armed", "expired"}]
      /\ received \in [Clients -> BOOLEAN] /\ reads \in Seq(Reads)
      /\ ~active /\ slot = NoMessage /\ reads # <<>>
      /\ \A c \in Clients : /\ pc[c] \notin {"wait", "check", "block"}
                            /\ pc[c] = "test" => timer[c] = "expired" /\ ~received[c]
  BY DEF TypeOK, ClientsOK, IoOK, Abandoned
<1>1. ASSUME NEW c \in Clients, NEW op \in Ops, Call(c, op) PROVE Abandoned'
  BY <1>0, <1>1 DEF Call, Abandoned, connVars, ioVars
<1>2. ASSUME NEW c \in Clients, Lock(c) PROVE Abandoned'
  BY <1>0, <1>2 DEF Lock, Abandoned, ioVars
<1>3. ASSUME NEW c \in Clients, Send(c) PROVE Abandoned'
  <2>1. \A d \in Clients : pc'[d] = pc[d] \/ pc'[d] \in {"recv", "idle", "activate"}
    BY <1>0, <1>3 DEF Send, Return
  <2> QED
    BY <1>0, <1>3, <2>1 DEF Send, Abandoned, ioVars
<1>4. ASSUME NEW c \in Clients, RecvAsync(c) PROVE FALSE
  BY <1>0, <1>4 DEF RecvAsync
<1>5. ASSUME NEW c \in Clients, RecvSync(c) PROVE corrupt'
  BY <1>0, <1>5 DEF RecvSync
<1>6. ASSUME NEW c \in Clients, Test(c) PROVE Abandoned'
  <2>1. Return(c, Timeout) /\ DropTimer(c) /\ UNCHANGED <<active, slot, reads, received>>
    BY <1>0, <1>6 DEF Test, LoopEnds
  <2>2. /\ pc'[c] \in {"idle", "activate"}
        /\ \A d \in Clients \ {c} : pc'[d] = pc[d] /\ timer'[d] = timer[d]
    BY <1>0, <2>1 DEF Return, DropTimer
  <2> QED
    BY <1>0, <2>1, <2>2 DEF Abandoned
<1>7. ASSUME NEW c \in Clients, AsyncRun(c) PROVE corrupt'
  BY <1>0, <1>7 DEF AsyncRun
<1>8. ASSUME NEW t \in Threads, InRunOne(t) PROVE FALSE
  BY <1>0, <1>8, ThreadsAssumption DEF Alone, InRunOne, Threads
<1>9. CASE DeviceAnswer \/ DeviceEvent \/ DeviceClose \/ UNCHANGED vars
  BY <1>0, <1>9 DEF DeviceAnswer, DeviceEvent, DeviceClose, vars, connVars, ioVars, clientVars,
                    Abandoned
<1> QED
  BY <1>1, <1>2, <1>3, <1>4, <1>5, <1>6, <1>7, <1>8, <1>9
     DEF Next, ClientStep, OtherHandler, RunOne, Finished, Threads

(* The deadline of a recv() passes while it still waits for its message.   *)
LEMMA Abandons ==
    ASSUME TypeOK, CallsInv, Alone, Waits, NEW t \in Threads, NEW c \in Clients,
           InRunOne(t), TimerHandler(t, c), UNCHANGED <<active, corrupt>>
    PROVE  Abandoned'
<1>1. /\ pc \in [Clients -> ProgramCounters] /\ timer \in [Clients -> {"off", "armed", "expired"}]
      /\ timer[c] = "armed" /\ timer' = [timer EXCEPT ![c] = Fired(c)] /\ Resume(t)
      /\ UNCHANGED <<reads, received, slot>>
  BY DEF TypeOK, ClientsOK, TimerHandler
<1>2. ~active /\ pc[c] \in {"wait", "test"} /\ slot = NoMessage
  BY <1>1 DEF CallsInv, Mode, Flight, AnswerInSlot
<1>3. t \in Clients /\ pc[t] = "wait"
  BY <1>2, ThreadsAssumption DEF Alone, InRunOne, Threads, CallsInv, Mode
<1>4. t = c /\ \A d \in Clients \ {c} : ~Reading(d)
  BY <1>2, <1>3, OneReader DEF CallsInv, Reading
<1>5. ~received[c] /\ reads # <<>>
  BY <1>3, <1>4 DEF Waits
<1>6. /\ timer'[c] = "expired" /\ pc'[c] = "test"
      /\ \A d \in Clients \ {c} : pc'[d] = pc[d]
  BY <1>1, <1>3, <1>4, <1>5 DEF Fired, Resume
<1> QED
  BY <1>1, <1>2, <1>4, <1>5, <1>6 DEF Abandoned, Reading

LEMMA WaitsStay ==
    ASSUME CallsUse, TypeOK, CallsInv, Alone, Waits, [Next]_vars, Undisturbed'
    PROVE  Waits'
<1>0. /\ pc \in [Clients -> ProgramCounters] /\ received \in [Clients -> BOOLEAN]
      /\ reads \in Seq(Reads) /\ Called /\ Mutex /\ Exclusive /\ ~corrupt
      /\ \A c \in Clients : /\ pc[c] = "wait" => ~received[c]
                            /\ pc[c] \in {"wait", "test"} /\ ~received[c] => reads # <<>>
  BY DEF TypeOK, ClientsOK, IoOK, Waits, CallsInv, OneRead
<1>1. ASSUME NEW c \in Clients, NEW op \in Ops, Call(c, op) PROVE Waits'
  BY <1>0, <1>1 DEF Call, Waits, ioVars
<1>2. ASSUME NEW c \in Clients, Lock(c) PROVE Waits'
  BY <1>0, <1>2 DEF Lock, Waits, ioVars
<1>3. ASSUME NEW c \in Clients, Send(c) PROVE Waits'
  <2>1. \A d \in Clients : pc'[d] = pc[d] \/ pc'[d] \in {"recv", "idle", "activate"}
    BY <1>0, <1>3 DEF Send, Return
  <2> QED
    BY <1>0, <1>3, <2>1 DEF Send, Waits, ioVars
<1>4. ASSUME NEW c \in Clients, RecvAsync(c) PROVE Waits'
  <2>1. \A d \in Clients : pc'[d] = pc[d] \/ pc'[d] \in {"block", "idle", "activate"}
    BY <1>0, <1>4 DEF RecvAsync, Return
  <2> QED
    BY <1>0, <1>4, <2>1 DEF RecvAsync, Waits, ioVars
<1>5. ASSUME NEW c \in Clients, RecvSync(c) PROVE Waits'
  BY <1>0, <1>5 DEF RecvSync, Waits
<1>6. ASSUME NEW c \in Clients, Test(c) PROVE Waits'
  <2>1. /\ pc[c] = "test" /\ UNCHANGED <<reads, received>>
        /\ pc'[c] \in {"idle", "activate"} \/ (pc'[c] = "wait" /\ ~received[c])
        /\ \A d \in Clients \ {c} : pc'[d] = pc[d]
    BY <1>0, <1>6 DEF Test, Return, LoopEnds
  <2> QED
    BY <1>0, <2>1 DEF Waits
<1>7. ASSUME NEW c \in Clients, AsyncRun(c) PROVE Waits'
  BY <1>0, <1>7 DEF AsyncRun, Waits
<1>8. ASSUME NEW t \in Threads, InRunOne(t), Resume(t), UNCHANGED <<reads, received>>
      PROVE  Waits'
  <2>1. \A d \in Clients : \/ pc'[d] = pc[d]
                           \/ pc[d] = "block" /\ pc'[d] = "check"
                           \/ pc[d] = "wait" /\ pc'[d] = "test"
    BY <1>0, <1>8, ThreadsAssumption DEF InRunOne, Resume
  <2> QED
    BY <1>0, <1>8, <2>1 DEF Waits
<1>9. ASSUME NEW t \in Threads, RunOne(t) PROVE Waits'
  <2>1. t \in Clients /\ pc[t] \in {"block", "wait"} /\ InRunOne(t)
    BY <1>9, ThreadsAssumption DEF Alone, RunOne, InRunOne, Threads
  <2>2. \A d \in Clients \ {t} : ~Reading(d)
    BY <1>0, <2>1, OneReader DEF Reading
  <2>3. ASSUME NEW m, ThrowingHandler(t, m) PROVE Waits'
    <3>1. /\ pc'[t] \in {"idle", "activate"}
          /\ \A d \in Clients \ {t} : pc'[d] = pc[d]
      BY <1>0, <2>1, <2>3, ThreadsAssumption DEF ThrowingHandler, Throw, Return
    <3> QED
      BY <2>2, <3>1 DEF Waits, Reading
  <2>4. ASSUME SyncHandler(t, Head(toClient)), reads # <<>> PROVE Waits'
    <3>1. PICK c \in Clients : /\ pc[c] \in {"wait", "test"}
                               /\ received' = [received EXCEPT ![c] = TRUE]
      BY <2>4, SyncMoves
    <3>2. c = t
      BY <2>2, <3>1 DEF Reading
    <3>3. Resume(t) /\ received' = [received EXCEPT ![t] = TRUE]
      BY <2>4, <3>1, <3>2, SyncMoves
    <3>4. pc'[t] = "test" /\ \A d \in Clients \ {t} : pc'[d] = pc[d]
      BY <1>0, <2>1, <3>1, <3>2, <3>3 DEF Resume
    <3> QED
      BY <1>0, <2>2, <3>3, <3>4 DEF Waits, Reading
  <2>5. ASSUME ChainHandler(t, Head(toClient)), reads # <<>> PROVE Waits'
    <3>1. active
      BY <2>5, ChainMoves
    <3>2. \A d \in Clients : pc'[d] \notin {"wait", "test"}
      BY <1>0, <2>1, <2>5, <3>1 DEF ChainHandler, Resume, CallsInv, Mode
    <3> QED
      BY <3>2 DEF Waits
  <2>6. CASE MessageHandler(t)
    BY <1>0, <2>3, <2>4, <2>5, <2>6 DEF MessageHandler, Starved
  <2>7. CASE ClosedHandler(t)
    BY <2>3, <2>7 DEF ClosedHandler
  <2>8. ASSUME NEW c \in Clients, TimerHandler(t, c) PROVE FALSE
    BY <2>8 DEF TimerHandler, TypeOK, ClientsOK, Undisturbed
  <2>9. CASE AbortedHandler(t)
    BY <1>8, <2>1, <2>9 DEF AbortedHandler
  <2> QED
    BY <1>9, <2>6, <2>7, <2>8, <2>9 DEF RunOne
<1>10. CASE DeviceAnswer \/ DeviceEvent \/ DeviceClose \/ UNCHANGED vars
  BY <1>0, <1>10 DEF DeviceAnswer, DeviceEvent, DeviceClose, vars, ioVars, clientVars, Waits
<1>11. ASSUME NEW t \in Threads, OtherHandler(t) PROVE FALSE
  BY <1>11 DEF OtherHandler, Alone
<1> QED
  BY <1>1, <1>2, <1>3, <1>4, <1>5, <1>6, <1>7, <1>9, <1>10, <1>11
     DEF Next, ClientStep, Finished

(* A connection that starts asynchronously has no deadlines, and one with  *)
(* an io_context of its own meets no other connection's exceptions.        *)
NoDeadline == /\ StartAsync /\ foreign = 0 => timeouts = 0
              /\ ~SharedContext => foreign = 0

LEMMA NoDeadlineNext ==
    ASSUME TypeOK, CallsInvUndisturbed, NoDeadline, [Next]_vars PROVE NoDeadline'
<1>1. foreign \in Nat
  BY DEF TypeOK, IoOK
<1>2. foreign' = foreign \/ (SharedContext /\ foreign' = foreign + 1)
  BY DEF Next, Call, ClientStep, Lock, Send, RecvAsync, RecvSync, Test, AsyncRun,
         OtherHandler, RunOne, DeviceAnswer, DeviceEvent, DeviceClose, Finished, vars, ioVars
<1>3. ASSUME StartAsync, foreign' = 0 PROVE timeouts' = 0
  <2>1. timeouts = 0 /\ \A c \in Clients : timer[c] # "armed"
    BY <1>1, <1>2, <1>3 DEF NoDeadline, CallsInvUndisturbed, Undisturbed, CallsInv, Mode
  <2>2. \A t \in Threads, c \in Clients : ~TimerHandler(t, c)
    BY <2>1 DEF TimerHandler
  <2> QED
    BY <2>1, <2>2
       DEF Next, Call, ClientStep, Lock, Send, RecvAsync, RecvSync, Test, AsyncRun,
           OtherHandler, RunOne, MessageHandler, ClosedHandler, AbortedHandler,
           DeviceAnswer, DeviceEvent, DeviceClose, Finished, vars, clientVars
<1> QED
  BY <1>2, <1>3 DEF NoDeadline

LEMMA SoloNext ==
    ASSUME CallsUse, TypeOK, CallsInvUndisturbed, Solo, NoDeadline, [Next]_vars PROVE Solo'
<1> SUFFICES ASSUME Alone
             PROVE  IF timeouts' = 0 THEN Waits' ELSE corrupt' \/ Abandoned'
  BY DEF Solo
<1>0. foreign = 0 /\ foreign' = 0
  BY NoDeadlineNext DEF NoDeadline, Alone
<1>1. CASE timeouts' = 0
  <2>1. Undisturbed' /\ Undisturbed
    BY <1>0, <1>1, UndisturbedBefore DEF Undisturbed
  <2> QED
    BY <1>1, <2>1, WaitsStay DEF Solo, CallsInvUndisturbed, Undisturbed
<1>2. CASE timeouts # 0 /\ timeouts' # 0
  BY <1>2, CorruptStays, AbandonedStays DEF Solo
<1>3. CASE timeouts = 0 /\ timeouts' # 0
  <2>1. PICK t \in Threads : RunOne(t) /\ \E c \in Clients : TimerHandler(t, c)
    BY <1>3 DEF Next, Call, ClientStep, Lock, Send, RecvAsync, RecvSync, Test, AsyncRun,
         OtherHandler, RunOne, MessageHandler, ClosedHandler, AbortedHandler,
         DeviceAnswer, DeviceEvent, DeviceClose, Finished, vars, clientVars
  <2> QED
    BY <1>0, <1>3, <2>1, Abandons DEF Solo, CallsInvUndisturbed, Undisturbed, RunOne
<1> QED
  BY <1>1, <1>2, <1>3

(* One thread at a time makes requests until the switch, and a connection *)
(* that starts asynchronously has no deadline.                              *)
THEOREM SoloInvariant == ASSUME CallsUse PROVE Spec => [](Solo /\ NoDeadline)
<1>1. Init => Solo /\ NoDeadline
  BY DEF Init, Solo, Waits, NoDeadline
<1>2. TypeOK /\ CallsInvUndisturbed /\ (Solo /\ NoDeadline) /\ [Next]_vars
         => (Solo /\ NoDeadline)'
  BY SoloNext, NoDeadlineNext
<1> QED
  BY <1>1, <1>2, TypeCorrect, CallsInvariant, PTL DEF Spec

(* The slot is never overwritten, nor left behind for another request.     *)
THEOREM CallsSlotAwaited ==
    ASSUME CallsUse, Alone \/ StartAsync PROVE Spec => []SlotAwaited
<1>1. TypeOK /\ CallsInvUndisturbed /\ Solo /\ NoDeadline => SlotAwaited
  <2> SUFFICES ASSUME TypeOK, CallsInvUndisturbed, Solo, NoDeadline,
                      ~corrupt, foreign = 0, slot # NoMessage
               PROVE  /\ owner # Nobody /\ slot.id = call[owner].id
                      /\ pc[owner] \in {"recv", "check", "block"}
    BY DEF SlotAwaited
  <2>1. Undisturbed
    BY DEF Solo, NoDeadline, Abandoned, Undisturbed
  <2> QED
    BY <2>1, ThreadsAssumption
       DEF CallsInvUndisturbed, CallsInv, Flight, AnswerInSlot, Awaits, Reading, Mode
<1> QED
  BY <1>1, CallsInvariant, SoloInvariant, TypeCorrect, PTL
-----------------------------------------------------------------------------
(* What a handler does while no recv() is given up: nothing but wake its   *)
(* thread, end the call of its thread, hand a blocking read its message, or*)
(* move a message from the wire to the slot or the callbacks.              *)
Pending(c) == call[c].op = "next" /\ pc[c] \in {"wait", "test"} /\ received[c]

TakesHead == toClient # <<>> /\ toClient' = Tail(toClient)
Wakes == UNCHANGED <<result, slot, toClient, received, resp, delivered>>
Throws(t) == /\ UNCHANGED <<slot, received, resp, delivered>>
             /\ \/ /\ t \notin Clients /\ UNCHANGED <<pc, result>>
                   /\ TakesHead /\ Head(toClient).kind \in Failures
                \/ /\ t \in Clients /\ pc[t] \in {"block", "wait"} /\ ~Pending(t)
                   /\ \/ /\ TakesHead /\ Head(toClient).kind \in Failures
                         /\ Head(toClient).id = call[t].id /\ call[t].id # 0
                         /\ Return(t, Head(toClient))
                      \/ UNCHANGED toClient /\ (Return(t, Unknown) \/ Return(t, Abort))
Receives == /\ TakesHead /\ UNCHANGED <<result, slot, delivered>>
             /\ \E c \in Clients :
                  /\ ~active /\ pc[c] \in {"wait", "test"} /\ ~received[c]
                  /\ received' = [received EXCEPT ![c] = TRUE]
                  /\ resp' = [resp EXCEPT ![c] = Head(toClient)]
                  /\ IF call[c].op = "next" THEN Unsolicited(Head(toClient))
                     ELSE Head(toClient).id = call[c].id /\ call[c].id # 0
Forwards == /\ TakesHead /\ active /\ UNCHANGED <<result, received, resp>>
          /\ \/ /\ Head(toClient).kind = "event" /\ UNCHANGED slot
                /\ delivered' = Append(delivered, Head(toClient))
             \/ /\ Head(toClient).kind # "event" /\ Head(toClient).id # 0
                /\ slot' = Head(toClient) /\ UNCHANGED delivered

LEMMA HandlerMoves ==
    ASSUME CallsUse, TypeOK, CallsInv, NEW t \in Threads, RunOne(t), Undisturbed'
    PROVE  \/ Resume(t) /\ (Wakes \/ Receives \/ Forwards)
           \/ Throws(t)
<1>0. InRunOne(t) /\ UNCHANGED <<active, corrupt, call, toDevice, streaming, closed>>
  BY DEF RunOne
<1>1. CASE MessageHandler(t)
  <2> DEFINE m == Head(toClient)
  <2>1. /\ reads # <<>> /\ TakesHead /\ m \in Messages
        /\ IF m.kind \in Failures THEN ThrowingHandler(t, m)
           ELSE SyncHandler(t, m) \/ ChainHandler(t, m)
    BY <1>1 DEF MessageHandler, Starved, CallsInv, OneRead, TakesHead, TypeOK, DeviceOK
  <2>2. CASE m.kind \in Failures /\ ThrowingHandler(t, m)
    <3>1. CASE t \notin Clients
      BY <2>1, <2>2, <3>1 DEF ThrowingHandler, Throw, Throws
    <3>2. CASE t \in Clients
      <4>1. pc[t] \in {"block", "wait"} /\ Return(t, m)
        BY <1>0, <2>2, <3>2, ThreadsAssumption DEF ThrowingHandler, Throw, InRunOne
      <4>2. m.id # 0
        BY <2>1, <2>2, HeadTaken DEF CallsInv, Flight, Failures, TakesHead
      <4>3. PICK d \in Clients : Awaits(d) /\ m.id = call[d].id
        BY <2>1, <4>2, HeadTaken DEF CallsInv, Flight, TakesHead
      <4>4. d = t
        BY <3>2, <4>1, <4>3, OneReader DEF CallsInv, Awaits, Reading
      <4>5. ~Pending(t)
        BY <4>3, <4>4 DEF Pending, Awaits, CallsInv, Mutex, Holds
      <4> QED
        BY <2>1, <2>2, <4>1, <4>2, <4>3, <4>4, <4>5 DEF ThrowingHandler, Throws
    <3> QED
      BY <3>1, <3>2
  <2>3. CASE SyncHandler(t, m)
    <3>1. Resume(t) /\ UNCHANGED <<result, slot, delivered>>
      BY <2>1, <2>3, SyncMoves
    <3>2. PICK c \in Clients : /\ ~active /\ pc[c] \in {"wait", "test"} /\ ~received[c]
                               /\ received' = [received EXCEPT ![c] = TRUE]
                               /\ resp' = [resp EXCEPT ![c] = m]
      BY <2>1, <2>3, SyncMoves
    <3>3. IF call[c].op = "next" THEN Unsolicited(m) ELSE m.id = call[c].id /\ call[c].id # 0
      BY <1>0, <2>1, <3>2, SyncGets DEF TakesHead, Unsolicited
    <3> QED
      BY <2>1, <3>1, <3>2, <3>3 DEF Receives
  <2>4. CASE ChainHandler(t, m)
    <3>1. Resume(t) /\ active /\ UNCHANGED <<result, received, resp>>
      BY <2>1, <2>4, ChainMoves
    <3>2. m.kind # "event" => m.id # 0
      BY <2>1, HeadTaken DEF CallsInv, Flight, TakesHead
    <3> QED
      BY <2>1, <2>4, <3>1, <3>2 DEF Forwards, ChainHandler, IsEvent
  <2> QED
    BY <2>1, <2>2, <2>3, <2>4
<1>2. CASE ClosedHandler(t)
  <2>1. PICK m \in {Unknown, Abort} : ThrowingHandler(t, m)
    BY <1>2 DEF ClosedHandler
  <2>2. t \in Clients /\ pc[t] \in {"block", "wait"}
    BY <1>0, <1>2, ThreadsAssumption
       DEF ClosedHandler, CallsInv, Mode, CallsUse, Alone, Threads, InRunOne
  <2>3. Return(t, m) /\ UNCHANGED <<slot, received, resp, delivered, toClient>>
    BY <1>2, <2>1, <2>2, ThreadsAssumption DEF ClosedHandler, ThrowingHandler, Throw
  <2>4. ~Pending(t)
    <3>1. CASE active
      BY <2>2, <3>1 DEF CallsInv, Mode, Pending
    <3>2. CASE ~active
      BY <1>2, <2>2, <3>2, NoOtherRead DEF ClosedHandler, Reading, Pending
    <3> QED
      BY <3>1, <3>2
  <2> QED
    BY <2>2, <2>3, <2>4 DEF Throws
<1>3. ASSUME NEW c \in Clients, TimerHandler(t, c) PROVE FALSE
  BY <1>3 DEF TimerHandler, TypeOK, ClientsOK, Undisturbed
<1>4. CASE AbortedHandler(t)
  BY <1>4 DEF AbortedHandler, Wakes
<1> QED
  BY <1>1, <1>2, <1>3, <1>4 DEF RunOne
-----------------------------------------------------------------------------
(* Events.                                                                 *)
Numbers(s) == EventsBefore(s, Len(s) + 1)
InOrder(s, a, b) ==
    /\ Numbers(s) = a .. b
    /\ \A i \in 1 .. Len(s) : Unsolicited(s[i]) => EventsBefore(s, i) = a .. s[i].seq - 1

(* The application has the first n events, the caller of recv_frame() may  *)
(* be about to return the next one, and the others are on the wire.        *)
Ordered ==
    \E n \in 0 .. events :
        /\ InOrder(delivered, 1, n)
        /\ IF \E c \in Clients : Pending(c)
           THEN /\ n < events
                /\ \A c \in Clients : Pending(c) => Unsolicited(resp[c]) /\ resp[c].seq = n + 1
                /\ InOrder(toClient, n + 2, events)
           ELSE InOrder(toClient, n + 1, events)
OrderedUndisturbed == Undisturbed => Ordered

LEMMA EventsBeforeIs ==
    ASSUME NEW s, NEW i
    PROVE  \A x : x \in EventsBefore(s, i) <=>
                    \E j \in 1 .. i - 1 : Unsolicited(s[j]) /\ s[j].seq = x
BY DEF EventsBefore

(* A message is put behind the others. *)
LEMMA AppendedBefore ==
    ASSUME NEW s \in Seq(Messages), NEW m, NEW u, u = Append(s, m)
    PROVE  /\ \A i \in 1 .. Len(s) + 1 : EventsBefore(u, i) = EventsBefore(s, i)
           /\ Numbers(u) = Numbers(s) \union {x \in {m.seq} : Unsolicited(m)}
<1>1. /\ Len(s) \in Nat /\ Len(u) = Len(s) + 1 /\ u[Len(s) + 1] = m
      /\ \A i \in 1 .. Len(s) : u[i] = s[i]
  BY Appended
<1>2. ASSUME NEW i \in 1 .. Len(s) + 1 PROVE EventsBefore(u, i) = EventsBefore(s, i)
  <2>1. \A j \in 1 .. i - 1 : u[j] = s[j]
    BY <1>1
  <2> QED
    BY <2>1 DEF EventsBefore
<1>3. \A x : x \in Numbers(u) <=> x \in Numbers(s) \/ (x = m.seq /\ Unsolicited(m))
  <2>1. Len(s) + 1 - 1 = Len(s) /\ Len(u) + 1 - 1 = Len(s) + 1
    BY <1>1
  <2>2. \A x : x \in Numbers(s) <=> \E j \in 1 .. Len(s) : Unsolicited(s[j]) /\ s[j].seq = x
    BY <2>1 DEF EventsBefore, Numbers
  <2>3. \A x : x \in Numbers(u) <=> \E j \in 1 .. Len(s) + 1 : Unsolicited(u[j]) /\ u[j].seq = x
    BY <2>1 DEF EventsBefore, Numbers
  <2>4. \A j : j \in 1 .. Len(s) + 1 <=> j \in 1 .. Len(s) \/ j = Len(s) + 1
    BY <1>1
  <2> QED
    BY <1>1, <2>2, <2>3, <2>4
<1> QED
  BY <1>2, <1>3

LEMMA InOrderAppend ==
    ASSUME NEW s \in Seq(Messages), NEW a \in Nat, NEW b \in Nat, InOrder(s, a, b),
           NEW m \in Messages, NEW u, u = Append(s, m)
    PROVE  /\ ~Unsolicited(m) => InOrder(u, a, b)
           /\ Unsolicited(m) /\ m.seq = b + 1 /\ a <= b + 1 => InOrder(u, a, b + 1)
<1>1. /\ Len(s) \in Nat /\ Len(u) = Len(s) + 1 /\ u[Len(s) + 1] = m
      /\ \A i \in 1 .. Len(s) : u[i] = s[i]
  BY Appended
<1>2. /\ \A i \in 1 .. Len(s) + 1 : EventsBefore(u, i) = EventsBefore(s, i)
      /\ Numbers(u) = Numbers(s) \union {x \in {m.seq} : Unsolicited(m)}
  BY AppendedBefore
<1>3. \A i \in 1 .. Len(s) : Unsolicited(u[i]) => EventsBefore(u, i) = a .. u[i].seq - 1
  BY <1>1, <1>2 DEF InOrder
<1>4. EventsBefore(u, Len(s) + 1) = a .. b
  BY <1>1, <1>2 DEF InOrder, Numbers
<1>5. ASSUME ~Unsolicited(m) PROVE InOrder(u, a, b)
  BY <1>1, <1>2, <1>3, <1>5 DEF InOrder
<1>6. ASSUME Unsolicited(m), m.seq = b + 1, a <= b + 1 PROVE InOrder(u, a, b + 1)
  <2>1. Numbers(u) = a .. b + 1
    BY <1>2, <1>6 DEF InOrder
  <2>2. a .. u[Len(s) + 1].seq - 1 = a .. b
    BY <1>1, <1>6
  <2> QED
    BY <1>1, <1>3, <1>4, <2>1, <2>2 DEF InOrder
<1> QED
  BY <1>5, <1>6

(* The first message is taken. *)
LEMMA InOrderTail ==
    ASSUME NEW s \in Seq(Messages), s # <<>>, NEW a \in Nat, NEW b \in Nat, InOrder(s, a, b)
    PROVE  /\ ~Unsolicited(Head(s)) => InOrder(Tail(s), a, b)
           /\ Unsolicited(Head(s)) => /\ Head(s).seq = a /\ a <= b
                                      /\ InOrder(Tail(s), a + 1, b)
<1> DEFINE u == Tail(s)
<1>1. /\ Head(s) = s[1] /\ Len(s) \in Nat /\ Len(u) = Len(s) - 1 /\ Len(u) \in Nat
      /\ \A i \in 1 .. Len(u) : u[i] = s[i + 1] /\ i + 1 \in 1 .. Len(s)
      /\ 1 \in 1 .. Len(s) /\ \A i \in 1 .. Len(s) : s[i] \in Messages
  BY TailElements
<1>2. ASSUME NEW i \in 1 .. Len(u) + 1, NEW x
      PROVE  x \in EventsBefore(s, i + 1) <=>
                \/ Unsolicited(s[1]) /\ s[1].seq = x
                \/ x \in EventsBefore(u, i)
  <2>1. x \in EventsBefore(s, i + 1) <=> \E j \in 1 .. i : Unsolicited(s[j]) /\ s[j].seq = x
    BY EventsBeforeIs
  <2>2. x \in EventsBefore(u, i) <=> \E j \in 1 .. i - 1 : Unsolicited(u[j]) /\ u[j].seq = x
    BY EventsBeforeIs
  <2>3. \A j \in 1 .. i - 1 : u[j] = s[j + 1] /\ j + 1 \in 1 .. i
    BY <1>1
  <2>4. \A j \in 1 .. i : j # 1 => j - 1 \in 1 .. i - 1 /\ u[j - 1] = s[j]
    BY <1>1
  <2>5. 1 \in 1 .. i
    OBVIOUS
  <2> QED
    BY <2>1, <2>2, <2>3, <2>4, <2>5
<1>3. Numbers(s) = EventsBefore(s, Len(u) + 2) /\ Numbers(u) = EventsBefore(u, Len(u) + 1)
  BY <1>1 DEF Numbers
<1>4. ASSUME ~Unsolicited(Head(s)) PROVE InOrder(u, a, b)
  <2>1. \A i \in 1 .. Len(u) + 1 : EventsBefore(s, i + 1) = EventsBefore(u, i)
    BY <1>1, <1>2, <1>4
  <2>2. Numbers(u) = a .. b
    BY <1>1, <1>3, <2>1 DEF InOrder
  <2> QED
    BY <1>1, <2>1, <2>2 DEF InOrder
<1>5. ASSUME Unsolicited(Head(s)) PROVE Head(s).seq = a /\ a <= b /\ InOrder(u, a + 1, b)
  <2>1. s[1].seq = a /\ a <= b
    <3>1. EventsBefore(s, 1) = {}
      BY DEF EventsBefore
    <3>2. a .. s[1].seq - 1 = {} /\ s[1].seq \in Nat
      BY <1>1, <1>5, <3>1 DEF InOrder, Messages
    <3>3. s[1].seq \in a .. b
      <4>1. Len(u) + 1 \in 1 .. Len(u) + 1 /\ Len(u) + 1 + 1 = Len(u) + 2
        BY <1>1
      <4>2. s[1].seq \in EventsBefore(s, Len(u) + 2)
        BY <1>1, <1>2, <1>5, <4>1
      <4> QED
        BY <1>3, <4>2 DEF InOrder
    <3>4. ~(a <= s[1].seq - 1)
      <4>1. ASSUME a <= s[1].seq - 1 PROVE a \in a .. s[1].seq - 1
        BY <3>2, <4>1
      <4> QED
        BY <3>2, <4>1
    <3> QED
      BY <3>2, <3>3, <3>4
  <2>2. ASSUME NEW i \in 1 .. Len(u) + 1 PROVE a \notin EventsBefore(u, i)
    <3>1. SUFFICES ASSUME NEW j \in 1 .. i - 1, Unsolicited(u[j]), u[j].seq = a PROVE FALSE
      BY EventsBeforeIs
    <3>2. j + 1 \in 1 .. Len(s) /\ s[j + 1] = u[j] /\ j \in 1 .. Len(u) + 1
      BY <1>1
    <3>3. EventsBefore(s, j + 1) = a .. a - 1
      BY <3>1, <3>2 DEF InOrder
    <3>4. a \in EventsBefore(s, j + 1)
      BY <1>1, <1>2, <1>5, <2>1, <3>2
    <3> QED
      BY <3>3, <3>4
  <2>3. ASSUME NEW i \in 1 .. Len(u) + 1, NEW k \in Int, EventsBefore(s, i + 1) = a .. k
        PROVE  EventsBefore(u, i) = a + 1 .. k
    <3>1. \A x : x \in a .. k <=> x = a \/ x \in EventsBefore(u, i)
      BY <1>1, <1>2, <1>5, <2>1, <2>3
    <3>2. \A x : x \in EventsBefore(u, i) <=> x \in a + 1 .. k
      BY <2>2, <3>1
    <3> QED
      BY <3>2
  <2>4. Numbers(u) = a + 1 .. b
    BY <1>1, <1>3, <2>3 DEF InOrder
  <2>5. ASSUME NEW i \in 1 .. Len(u), Unsolicited(u[i])
        PROVE  EventsBefore(u, i) = a + 1 .. u[i].seq - 1
    <3>1. EventsBefore(s, i + 1) = a .. u[i].seq - 1
      BY <1>1, <2>5 DEF InOrder
    <3>2. u[i].seq - 1 \in Int
      BY <1>1 DEF Messages
    <3> QED
      BY <1>1, <2>3, <3>1, <3>2
  <2> QED
    BY <1>1, <2>1, <2>4, <2>5 DEF InOrder
<1> QED
  BY <1>4, <1>5

LEMMA OrderedKept ==
    ASSUME TypeOK, Ordered, UNCHANGED <<events, delivered>>,
           \A c \in Clients : (Pending(c)' <=> Pending(c)) /\ (Pending(c) => resp'[c] = resp[c]),
           \A a, b \in Nat : InOrder(toClient, a, b) => InOrder(toClient', a, b)
    PROVE  Ordered'
<1>1. events \in Nat
  BY DEF TypeOK, DeviceOK
<1>2. PICK n \in 0 .. events :
        /\ InOrder(delivered, 1, n)
        /\ IF \E c \in Clients : Pending(c)
           THEN /\ n < events
                /\ \A c \in Clients : Pending(c) => Unsolicited(resp[c]) /\ resp[c].seq = n + 1
                /\ InOrder(toClient, n + 2, events)
           ELSE InOrder(toClient, n + 1, events)
  BY DEF Ordered
<1>3. n + 1 \in Nat /\ n + 2 \in Nat
  BY <1>1
<1> QED
  BY <1>1, <1>2, <1>3 DEF Ordered

LEMMA OtherTaken ==
    ASSUME TypeOK, toClient # <<>>, toClient' = Tail(toClient), ~Unsolicited(Head(toClient))
    PROVE  \A a, b \in Nat : InOrder(toClient, a, b) => InOrder(toClient', a, b)
BY InOrderTail DEF TypeOK, DeviceOK

LEMMA OtherSent ==
    ASSUME TypeOK, NEW m \in Messages, toClient' = Append(toClient, m), ~Unsolicited(m)
    PROVE  \A a, b \in Nat : InOrder(toClient, a, b) => InOrder(toClient', a, b)
BY InOrderAppend DEF TypeOK, DeviceOK

(* With a pending event, its reader is the only one. *)
LEMMA OnePending ==
    ASSUME CallsInv, NEW c \in Clients, Reading(c), ~Pending(c)
    PROVE  \A d \in Clients : ~Pending(d)
BY OneReader DEF CallsInv, Pending, Reading

LEMMA OrderedHandler ==
    ASSUME CallsUse, TypeOK, CallsInv, Ordered, NEW t \in Threads, RunOne(t), Undisturbed'
    PROVE  Ordered'
<1>0. /\ InRunOne(t) /\ UNCHANGED <<call, events, active>> /\ events \in Nat
      /\ pc \in [Clients -> ProgramCounters] /\ toClient \in Seq(Messages)
      /\ delivered \in Seq(Messages)
      /\ received \in [Clients -> BOOLEAN] /\ resp \in [Clients -> Messages]
  BY DEF RunOne, TypeOK, DeviceOK, ClientsOK, HistoryOK
<1>1. Resume(t) => \A c \in Clients : \/ pc'[c] = pc[c]
                                      \/ pc[c] = "block" /\ pc'[c] = "check"
                                      \/ pc[c] = "wait" /\ pc'[c] = "test"
  BY <1>0, ThreadsAssumption DEF InRunOne, Resume
<1>2. CASE Resume(t) /\ Wakes
  <2>1. \A c \in Clients : (Pending(c)' <=> Pending(c)) /\ resp'[c] = resp[c]
    BY <1>0, <1>1, <1>2 DEF Wakes, Pending
  <2> QED
    BY <1>0, <1>2, <2>1, OrderedKept DEF Wakes
<1>3. CASE Throws(t)
  <2>1. \A c \in Clients : (Pending(c)' <=> Pending(c)) /\ resp'[c] = resp[c]
    <3>1. CASE t \notin Clients /\ UNCHANGED pc
      BY <1>0, <1>3, <3>1 DEF Throws, Pending
    <3>2. CASE t \in Clients /\ ~Pending(t) /\ \E m : Return(t, m)
      <4>1. pc'[t] \in {"idle", "activate"} /\ \A c \in Clients \ {t} : pc'[c] = pc[c]
        BY <1>0, <3>2 DEF Return
      <4> QED
        BY <1>0, <1>3, <3>2, <4>1 DEF Throws, Pending
    <3> QED
      BY <1>3, <3>1, <3>2 DEF Throws
  <2>2. \A a, b \in Nat : InOrder(toClient, a, b) => InOrder(toClient', a, b)
    <3>1. CASE TakesHead /\ Head(toClient).kind \in Failures
      BY <3>1, OtherTaken DEF TakesHead, Unsolicited, Failures
    <3>2. CASE UNCHANGED toClient
      BY <3>2
    <3> QED
      BY <1>3, <3>1, <3>2 DEF Throws
  <2> QED
    BY <1>0, <1>3, <2>1, <2>2, OrderedKept DEF Throws
<1> DEFINE m == Head(toClient)
<1>4. ASSUME \A c \in Clients : ~Pending(c)
      PROVE  \E n \in 0 .. events : InOrder(delivered, 1, n) /\ InOrder(toClient, n + 1, events)
  BY <1>4 DEF Ordered
<1>5. CASE Resume(t) /\ Receives
  <2>1. PICK c \in Clients :
           /\ ~active /\ pc[c] \in {"wait", "test"} /\ ~received[c]
           /\ received' = [received EXCEPT ![c] = TRUE]
           /\ resp' = [resp EXCEPT ![c] = m]
           /\ IF call[c].op = "next" THEN Unsolicited(m) ELSE m.id = call[c].id /\ call[c].id # 0
    BY <1>5 DEF Receives
  <2>2. Reading(c) /\ ~Pending(c) /\ pc'[c] \in {"wait", "test"}
    BY <1>1, <1>5, <2>1 DEF Reading, Pending
  <2>3. \A d \in Clients \ {c} : ~Pending(d)'
    <3>1. \A d \in Clients \ {c} : ~Reading(d)
      BY <2>2, OneReader DEF CallsInv
    <3> QED
      BY <1>1, <1>5, <3>1 DEF Pending, Reading
  <2>4. CASE call[c].op = "next"
    <3>1. PICK n \in 0 .. events : InOrder(delivered, 1, n) /\ InOrder(toClient, n + 1, events)
      BY <1>4, <2>2, OnePending
    <3>2. n \in Nat /\ n + 1 \in Nat /\ n + 1 + 1 = n + 2
      BY <1>0
    <3>3. m.seq = n + 1 /\ n + 1 <= events /\ InOrder(toClient', n + 2, events)
      BY <1>0, <1>5, <2>1, <2>4, <3>1, <3>2, InOrderTail DEF Receives, TakesHead
    <3>4. Pending(c)' /\ resp'[c] = m /\ Unsolicited(m)
      BY <1>0, <2>1, <2>2, <2>4 DEF Pending
    <3>5. InOrder(delivered', 1, n) /\ n < events
      BY <1>0, <1>5, <3>1, <3>2, <3>3 DEF Receives
    <3>6. \A d \in Clients : Pending(d)' => Unsolicited(resp'[d]) /\ resp'[d].seq = n + 1
      BY <2>3, <3>3, <3>4
    <3> QED
      BY <1>0, <3>3, <3>4, <3>5, <3>6 DEF Ordered
  <2>5. CASE call[c].op # "next"
    <3>1. \A d \in Clients : ~Pending(d) /\ ~Pending(d)'
      BY <1>0, <2>2, <2>3, <2>5, OnePending DEF Pending
    <3>2. \A a, b \in Nat : InOrder(toClient, a, b) => InOrder(toClient', a, b)
      BY <1>5, <2>1, <2>5, OtherTaken DEF Receives, TakesHead, Unsolicited
    <3> QED
      BY <1>0, <1>5, <3>1, <3>2, OrderedKept DEF Receives
  <2> QED
    BY <2>4, <2>5
<1>6. CASE Resume(t) /\ Forwards
  <2>1. \A d \in Clients : ~Pending(d) /\ ~Pending(d)'
    BY <1>0, <1>1, <1>6 DEF Forwards, Pending, CallsInv, Mode
  <2>2. CASE UNCHANGED delivered /\ ~Unsolicited(m)
    <3>1. \A a, b \in Nat : InOrder(toClient, a, b) => InOrder(toClient', a, b)
      BY <1>6, <2>2, OtherTaken DEF Forwards, TakesHead
    <3> QED
      BY <1>0, <2>1, <2>2, <3>1, OrderedKept
  <2>3. CASE delivered' = Append(delivered, m)
    <3>1. PICK n \in 0 .. events : InOrder(delivered, 1, n) /\ InOrder(toClient, n + 1, events)
      BY <1>4, <2>1
    <3>2. n \in Nat /\ n + 1 \in Nat /\ n + 1 + 1 = n + 2 /\ 1 <= n + 1
      BY <1>0
    <3>3. m \in Messages
      BY <1>0, <1>6 DEF Forwards, TakesHead
    <3>4. CASE Unsolicited(m)
      <4>1. m.seq = n + 1 /\ n + 1 <= events /\ InOrder(toClient', n + 1 + 1, events)
        BY <1>0, <1>6, <3>1, <3>2, <3>4, InOrderTail DEF Forwards, TakesHead
      <4>2. InOrder(delivered', 1, n + 1)
        BY <1>0, <2>3, <3>1, <3>2, <3>3, <3>4, <4>1, InOrderAppend
      <4>3. n + 1 \in 0 .. events
        BY <1>0, <3>2, <4>1
      <4> QED
        BY <1>0, <2>1, <4>1, <4>2, <4>3 DEF Ordered
    <3>5. CASE ~Unsolicited(m)
      <4>1. InOrder(toClient', n + 1, events)
        BY <1>0, <1>6, <3>1, <3>2, <3>5, OtherTaken DEF Forwards, TakesHead
      <4>2. InOrder(delivered', 1, n)
        BY <1>0, <2>3, <3>1, <3>2, <3>3, <3>5, InOrderAppend
      <4> QED
        BY <1>0, <2>1, <4>1, <4>2 DEF Ordered
    <3> QED
      BY <3>4, <3>5
  <2> QED
    BY <1>6, <2>2, <2>3 DEF Forwards, Unsolicited
<1> QED
  BY <1>2, <1>3, <1>5, <1>6, HandlerMoves

LEMMA OrderedTest ==
    ASSUME TypeOK, CallsInv, Ordered, NEW c \in Clients, Test(c) PROVE Ordered'
<1>0. /\ pc[c] = "test" /\ pc \in [Clients -> ProgramCounters] /\ events \in Nat
      /\ delivered \in Seq(Messages) /\ resp[c] \in Messages
      /\ UNCHANGED <<toClient, events, call, received, resp>> /\ ~active
  BY DEF Test, TypeOK, ClientsOK, DeviceOK, HistoryOK, deviceVars, CallsInv, Mode
<1>1. \A d \in Clients \ {c} : ~Pending(d) /\ ~Reading(d)
  BY <1>0, OneReader DEF CallsInv, Pending, Reading
<1>2. \A d \in Clients \ {c} : pc'[d] = pc[d]
  BY <1>0 DEF Test, Return
<1>3. \A d \in Clients \ {c} : ~Pending(d)'
  BY <1>0, <1>1, <1>2 DEF Pending, Reading
<1>4. \A a, b \in Nat : InOrder(toClient, a, b) => InOrder(toClient', a, b)
  BY <1>0
<1>5. CASE Pending(c)
  <2>1. /\ pc'[c] \in {"idle", "activate"} /\ delivered' = Append(delivered, resp[c])
        /\ call[c].op = "next"
    BY <1>0, <1>5 DEF Test, LoopEnds, Return, Pending
  <2>2. PICK n \in 0 .. events :
          /\ InOrder(delivered, 1, n) /\ n < events
          /\ Unsolicited(resp[c]) /\ resp[c].seq = n + 1
          /\ InOrder(toClient, n + 2, events)
    BY <1>5 DEF Ordered
  <2>3. n \in Nat /\ n + 1 \in Nat /\ n + 1 \in 0 .. events /\ n + 1 + 1 = n + 2 /\ 1 <= n + 1
    BY <1>0, <2>2
  <2>4. InOrder(delivered', 1, n + 1)
    BY <1>0, <2>1, <2>2, <2>3, InOrderAppend
  <2>5. InOrder(toClient', n + 1 + 1, events)
    BY <1>0, <2>2, <2>3
  <2>6. \A d \in Clients : ~Pending(d)'
    BY <1>3, <2>1 DEF Pending
  <2> QED
    BY <1>0, <2>3, <2>4, <2>5, <2>6 DEF Ordered
<1>6. CASE ~Pending(c)
  <2>1. ~Pending(c)' /\ UNCHANGED delivered
    <3>1. ~(LoopEnds(c) /\ call[c].op = "next")
      BY <1>0, <1>6 DEF LoopEnds, Pending
    <3> QED
      BY <1>0, <1>6, <3>1 DEF Test, Pending
  <2> QED
    BY <1>0, <1>1, <1>3, <1>4, <1>6, <2>1, OrderedKept
<1> QED
  BY <1>5, <1>6

LEMMA OrderedNext ==
    ASSUME CallsUse, TypeOK, CallsInv, Ordered, [Next]_vars, Undisturbed'
    PROVE  Ordered'
<1> USE DEF connVars, ioVars, clientVars, deviceVars, histVars
<1>0. /\ pc \in [Clients -> ProgramCounters] /\ call \in [Clients -> Requests]
      /\ received \in [Clients -> BOOLEAN] /\ resp \in [Clients -> Messages]
      /\ events \in Nat /\ toClient \in Seq(Messages)
  BY DEF TypeOK, ClientsOK, DeviceOK
<1>1. ASSUME NEW c \in Clients, UNCHANGED <<events, delivered, toClient>>,
             pc[c] \notin {"wait", "test"},
             pc'[c] \notin {"wait", "test"} \/ ~received'[c],
             \A d \in Clients \ {c} : /\ pc'[d] = pc[d] /\ call'[d] = call[d]
                                      /\ received'[d] = received[d] /\ resp'[d] = resp[d]
      PROVE  Ordered'
  <2>1. \A d \in Clients : (Pending(d)' <=> Pending(d)) /\ (Pending(d) => resp'[d] = resp[d])
    BY <1>1 DEF Pending
  <2>2. \A a, b \in Nat : InOrder(toClient, a, b) => InOrder(toClient', a, b)
    BY <1>1
  <2> QED
    BY <1>1, <2>1, <2>2, OrderedKept
<1>2. ASSUME NEW c \in Clients, NEW op \in Ops, Call(c, op) PROVE Ordered'
  BY <1>0, <1>1, <1>2 DEF Call
<1>3. ASSUME NEW c \in Clients, Lock(c) PROVE Ordered'
  BY <1>0, <1>1, <1>3 DEF Lock
<1>4. ASSUME NEW c \in Clients, Send(c) PROVE Ordered'
  <2>1. pc'[c] \in {"recv", "idle", "activate"} /\ \A d \in Clients \ {c} : pc'[d] = pc[d]
    BY <1>0, <1>4 DEF Send, Return
  <2> QED
    BY <1>0, <1>1, <1>4, <2>1 DEF Send
<1>5. ASSUME NEW c \in Clients, RecvAsync(c) PROVE Ordered'
  <2>1. pc'[c] \in {"block", "idle", "activate"} /\ \A d \in Clients \ {c} : pc'[d] = pc[d]
    BY <1>0, <1>5 DEF RecvAsync, Return
  <2> QED
    BY <1>0, <1>1, <1>5, <2>1 DEF RecvAsync
<1>6. ASSUME NEW c \in Clients, RecvSync(c) PROVE Ordered'
  <2>1. /\ pc[c] = "recv" /\ ~received'[c]
        /\ \A d \in Clients \ {c} : /\ pc'[d] = pc[d] /\ received'[d] = received[d]
                                    /\ resp'[d] = resp[d]
    BY <1>0, <1>6 DEF RecvSync
  <2> QED
    BY <1>0, <1>1, <1>6, <2>1 DEF RecvSync
<1>7. ASSUME NEW c \in Clients, AsyncRun(c) PROVE Ordered'
  BY <1>0, <1>1, <1>7 DEF AsyncRun
<1>8. ASSUME NEW t \in Threads, OtherHandler(t) PROVE Ordered'
  <2>1. /\ UNCHANGED <<call, received, resp, events, delivered, toClient>>
        /\ \A d \in Clients : pc'[d] = pc[d] \/ {pc[d], pc'[d]} = {"wait", "test"}
                              \/ (pc[d] = "block" /\ pc'[d] = "check")
    BY <1>0, <1>8, OtherHandlerWakes, ThreadsAssumption DEF InRunOne, Resume
  <2>2. \A d \in Clients : (Pending(d)' <=> Pending(d)) /\ (Pending(d) => resp'[d] = resp[d])
    BY <2>1 DEF Pending
  <2> QED
    BY <2>1, <2>2, OrderedKept
<1>9. CASE DeviceAnswer
  <2>1. PICK k \in {"reply", "event", "error"} :
           toClient' = Append(toClient, Message(k, Head(toDevice).id, 0))
    BY <1>9 DEF DeviceAnswer
  <2>2. Head(toDevice).id \in Nat /\ Head(toDevice).id # 0
    <3>1. PICK c \in Clients : Awaits(c) /\ toDevice = <<call[c]>>
      BY <1>9 DEF DeviceAnswer, CallsInv, Flight, RequestInFlight, RequestGone
    <3>2. Head(<<call[c]>>) = call[c]
      OBVIOUS
    <3> QED
      BY <1>0, <3>1, <3>2 DEF Awaits, Reading, CallsInv, Called, Requests
  <2> DEFINE m == Message(k, Head(toDevice).id, 0)
  <2>3. m \in Messages /\ ~Unsolicited(m)
    BY <2>2, MessageType DEF Unsolicited, Message
  <2>4. \A c \in Clients : (Pending(c)' <=> Pending(c)) /\ (Pending(c) => resp'[c] = resp[c])
    BY <1>9 DEF DeviceAnswer, Pending
  <2> QED
    BY <1>9, <2>1, <2>3, <2>4, OtherSent, OrderedKept DEF DeviceAnswer
<1>10. CASE DeviceEvent
  <2> DEFINE m == Message("event", 0, events + 1)
  <2>1. m \in Messages /\ Unsolicited(m) /\ m.seq = events + 1
    <3>1. 0 \in Nat /\ events + 1 \in Nat
      BY <1>0
    <3>2. m \in Messages
      BY <3>1, MessageType
    <3>3. m.id = 0 /\ m.kind = "event" /\ m.seq = events + 1
      BY DEF Message
    <3> QED
      BY <3>2, <3>3 DEF Unsolicited
  <2>2. /\ toClient' = Append(toClient, m) /\ events' = events + 1
        /\ UNCHANGED <<pc, call, received, resp, delivered>>
    BY <1>10 DEF DeviceEvent
  <2>3. \A c \in Clients : Pending(c)' <=> Pending(c)
    BY <2>2 DEF Pending
  <2>4. PICK n \in 0 .. events :
          /\ InOrder(delivered, 1, n)
          /\ IF \E c \in Clients : Pending(c)
             THEN /\ n < events
                  /\ \A c \in Clients : Pending(c) => Unsolicited(resp[c]) /\ resp[c].seq = n + 1
                  /\ InOrder(toClient, n + 2, events)
             ELSE InOrder(toClient, n + 1, events)
    BY DEF Ordered
  <2>5. /\ n \in 0 .. events + 1 /\ (n < events => n < events + 1)
        /\ n + 1 \in Nat /\ n + 1 <= events + 1 /\ n + 2 \in Nat
        /\ (n < events => n + 2 <= events + 1)
    BY <1>0
  <2>6. \A a \in Nat : a <= events + 1 /\ InOrder(toClient, a, events)
                         => InOrder(toClient', a, events + 1)
    BY <1>0, <2>1, <2>2, InOrderAppend
  <2> QED
    BY <2>2, <2>3, <2>4, <2>5, <2>6 DEF Ordered
<1>11. CASE DeviceClose \/ UNCHANGED vars
  <2>1. UNCHANGED <<pc, call, received, resp, events, delivered, toClient>>
    BY <1>11 DEF DeviceClose, vars
  <2>2. \A c \in Clients : (Pending(c)' <=> Pending(c)) /\ (Pending(c) => resp'[c] = resp[c])
    BY <2>1 DEF Pending
  <2> QED
    BY <2>1, <2>2, OrderedKept
<1> QED
  BY <1>2, <1>3, <1>4, <1>5, <1>6, <1>7, <1>8, <1>9, <1>10, <1>11, OrderedTest,
     OrderedHandler DEF Next, ClientStep, Finished

LEMMA OrderedInit == Init => Ordered
<1> SUFFICES ASSUME Init PROVE Ordered
  OBVIOUS
<1>1. /\ events = 0 /\ delivered = <<>> /\ toClient = <<>>
      /\ \A c \in Clients : ~Pending(c)
  BY DEF Init, Pending
<1>2. InOrder(<<>>, 1, 0)
  <2>1. Len(<<>>) = 0
    OBVIOUS
  <2>2. Numbers(<<>>) = {} /\ 1 .. 0 = {}
    BY <2>1 DEF Numbers, EventsBefore
  <2> QED
    BY <2>1, <2>2 DEF InOrder
<1> QED
  BY <1>1, <1>2 DEF Ordered

(* From the start, nothing but the chain of asynchronous reads takes what  *)
(* comes, whoever gives up which recv(): the events that are not with the  *)
(* application are on the wire, in order.                                  *)
AllNumbered ==
    \A c \in Clients : pc[c] \notin {"wait", "test"} /\ (pc[c] # "idle" => call[c].id # 0)
ChainReads ==
    /\ active /\ ~corrupt /\ (reads = <<>> \/ reads = <<ChainRead>>)
    /\ AllNumbered
    /\ \A i \in 1 .. Len(toDevice) : toDevice[i].id # 0
OnTheWire == \E n \in 0 .. events : InOrder(delivered, 1, n) /\ InOrder(toClient, n + 1, events)
Chained == StartAsync => ChainReads /\ OnTheWire

LEMMA OnTheWireKept ==
    ASSUME TypeOK, OnTheWire, UNCHANGED <<events, delivered>>,
           \A a, b \in Nat : InOrder(toClient, a, b) => InOrder(toClient', a, b)
    PROVE  OnTheWire'
<1>1. \A n \in 0 .. events : n + 1 \in Nat /\ events \in Nat
  BY DEF TypeOK, DeviceOK
<1> QED
  BY <1>1 DEF OnTheWire

(* A thread that runs handlers of the chain goes on in its call, or ends it.*)
LeavesRunOne(t) == Resume(t) \/ \E m : Throw(t, m)

LEMMA ChainThreads ==
    ASSUME TypeOK, ChainReads, NEW t \in Threads,
           InRunOne(t), LeavesRunOne(t), UNCHANGED call
    PROVE  AllNumbered'
<1>0. pc \in [Clients -> ProgramCounters] /\ AllNumbered
  BY DEF TypeOK, ClientsOK, ChainReads
<1>1. pc \in [Clients -> ProgramCounters] /\ \A c \in Clients : pc[c] \notin {"wait", "test"}
  BY <1>0 DEF AllNumbered
<1>2. t \in Clients => pc[t] = "block"
  BY <1>1, ThreadsAssumption DEF InRunOne
<1>3. \A c \in Clients : \/ pc'[c] = pc[c]
                         \/ c = t /\ pc'[c] \in {"check", "idle", "activate"}
  <2>1. CASE Resume(t)
    BY <1>1, <1>2, <2>1 DEF Resume
  <2>2. CASE \E m : Throw(t, m)
    BY <1>1, <2>2 DEF Throw, Return
  <2> QED
    BY <2>1, <2>2 DEF LeavesRunOne
<1> QED
  BY <1>1, <1>2, <1>3 DEF ChainReads, AllNumbered

LEMMA ChainHandlers ==
    ASSUME TypeOK, ChainReads, OnTheWire, NEW t \in Threads, RunOne(t)
    PROVE  ChainReads' /\ OnTheWire'
<1>0. /\ InRunOne(t) /\ UNCHANGED <<active, corrupt, call, toDevice, events>>
      /\ active /\ ~corrupt /\ (reads = <<>> \/ reads = <<ChainRead>>)
      /\ toClient \in Seq(Messages) /\ delivered \in Seq(Messages) /\ events \in Nat
  BY DEF RunOne, ChainReads, AllNumbered, TypeOK, DeviceOK, HistoryOK
<1>1. Head(<<ChainRead>>).by = Chain /\ Tail(<<ChainRead>>) = <<>>
      /\ Append(<<>>, ChainRead) = <<ChainRead>>
  BY DEF ChainRead, Read
<1>2. ASSUME Resume(t) \/ \E m : Throw(t, m), reads' = <<>> \/ reads' = <<ChainRead>>
      PROVE  ChainReads'
  <2>1. AllNumbered'
    <3>1. LeavesRunOne(t) /\ call' = call
      BY <1>0, <1>2 DEF LeavesRunOne
    <3> QED
      BY <1>0, <3>1, ChainThreads
  <2> QED
    BY <1>0, <1>2, <2>1 DEF ChainReads, AllNumbered
<1>3. ASSUME Resume(t), UNCHANGED <<reads, toClient, delivered>>
      PROVE  ChainReads' /\ OnTheWire'
  BY <1>0, <1>2, <1>3, OnTheWireKept
<1>4. ASSUME NEW m, ThrowingHandler(t, m), reads # <<>>
      PROVE  ChainReads' /\ UNCHANGED delivered
  BY <1>0, <1>1, <1>2, <1>4 DEF ThrowingHandler
<1> DEFINE h == Head(toClient)
<1>5. ASSUME toClient # <<>>, toClient' = Tail(toClient), ChainHandler(t, h), reads # <<>>
      PROVE  ChainReads' /\ OnTheWire'
  <2>1. ChainReads'
    BY <1>0, <1>1, <1>2, <1>5 DEF ChainHandler, Rearmed
  <2>2. CASE ~Unsolicited(h) /\ UNCHANGED delivered
    BY <1>0, <1>5, <2>1, <2>2, OtherTaken, OnTheWireKept
  <2>3. CASE delivered' = Append(delivered, h)
    <3>1. PICK n \in 0 .. events : InOrder(delivered, 1, n) /\ InOrder(toClient, n + 1, events)
      BY DEF OnTheWire
    <3>2. n \in Nat /\ n + 1 \in Nat /\ 1 <= n + 1 /\ h \in Messages
      BY <1>0, <1>5
    <3>3. CASE Unsolicited(h)
      <4>1. h.seq = n + 1 /\ n + 1 <= events /\ InOrder(toClient', n + 1 + 1, events)
        BY <1>0, <1>5, <3>1, <3>2, <3>3, InOrderTail
      <4>2. InOrder(delivered', 1, n + 1)
        BY <1>0, <2>3, <3>1, <3>2, <3>3, <4>1, InOrderAppend
      <4>3. n + 1 \in 0 .. events'
        BY <1>0, <3>2, <4>1
      <4> QED
        BY <1>0, <2>1, <4>1, <4>2, <4>3 DEF OnTheWire
    <3>4. CASE ~Unsolicited(h)
      <4>1. InOrder(toClient', n + 1, events)
        BY <1>0, <1>5, <3>1, <3>2, <3>4, OtherTaken
      <4>2. InOrder(delivered', 1, n)
        BY <1>0, <2>3, <3>1, <3>2, <3>4, InOrderAppend
      <4> QED
        BY <1>0, <2>1, <4>1, <4>2 DEF OnTheWire
    <3> QED
      BY <3>3, <3>4
  <2> QED
    BY <1>5, <2>2, <2>3 DEF ChainHandler, IsEvent, Unsolicited
<1>6. CASE MessageHandler(t)
  <2>1. /\ reads # <<>> /\ toClient # <<>> /\ toClient' = Tail(toClient)
        /\ IF h.kind \in Failures THEN ThrowingHandler(t, h)
                                  ELSE SyncHandler(t, h) \/ ChainHandler(t, h)
    BY <1>0, <1>6 DEF MessageHandler, Starved
  <2>2. CASE h.kind \in Failures /\ ThrowingHandler(t, h)
    <3>1. ~Unsolicited(h)
      BY <2>2 DEF Unsolicited, Failures
    <3> QED
      BY <1>0, <1>4, <2>1, <2>2, <3>1, OtherTaken, OnTheWireKept
  <2>3. ~SyncHandler(t, h)
    BY <1>0, <1>1, <2>1 DEF SyncHandler
  <2> QED
    BY <1>5, <2>1, <2>2, <2>3
<1>7. CASE ClosedHandler(t)
  BY <1>0, <1>4, <1>7, OnTheWireKept DEF ClosedHandler
<1>8. ASSUME NEW c \in Clients, TimerHandler(t, c) PROVE ChainReads' /\ OnTheWire'
  BY <1>3, <1>8 DEF TimerHandler
<1>9. CASE AbortedHandler(t)
  BY <1>3, <1>9 DEF AbortedHandler
<1> QED
  BY <1>6, <1>7, <1>8, <1>9 DEF RunOne

LEMMA ChainedNext ==
    ASSUME TypeOK, ChainReads, OnTheWire, [Next]_vars PROVE ChainReads' /\ OnTheWire'
<1> USE DEF connVars, ioVars, clientVars, deviceVars, histVars
<1>0. /\ pc \in [Clients -> ProgramCounters] /\ call \in [Clients -> Requests]
      /\ calls \in Nat /\ events \in Nat /\ active /\ ~corrupt
      /\ toClient \in Seq(Messages) /\ toDevice \in Seq(Requests)
      /\ \A c \in Clients : pc[c] \notin {"wait", "test"} /\ (pc[c] # "idle" => call[c].id # 0)
      /\ \A i \in 1 .. Len(toDevice) : toDevice[i].id # 0
  <2>1. /\ pc \in [Clients -> ProgramCounters] /\ call \in [Clients -> Requests]
        /\ calls \in Nat /\ events \in Nat /\ toClient \in Seq(Messages) /\ toDevice \in Seq(Requests)
    BY DEF TypeOK, ClientsOK, DeviceOK
  <2>2. /\ active /\ ~corrupt /\ AllNumbered
        /\ \A i \in 1 .. Len(toDevice) : toDevice[i].id # 0
    BY DEF ChainReads
  <2> QED
    BY <2>1, <2>2 DEF AllNumbered
<1>1. ASSUME NEW c \in Clients, UNCHANGED <<active, corrupt, reads, events, delivered, toClient>>,
             pc'[c] \notin {"wait", "test"}, pc'[c] # "idle" => call'[c].id # 0,
             \A d \in Clients \ {c} : pc'[d] = pc[d] /\ call'[d] = call[d],
             toDevice' # toDevice => toDevice' = Append(toDevice, call[c]) /\ pc[c] # "idle"
      PROVE  ChainReads' /\ OnTheWire'
  <2>1. \A i \in 1 .. Len(toDevice') : toDevice'[i].id # 0
    <3>1. CASE toDevice' = toDevice
      BY <1>0, <3>1
    <3>2. CASE toDevice' = Append(toDevice, call[c]) /\ pc[c] # "idle"
      <4>1. /\ Len(toDevice') = Len(toDevice) + 1 /\ Len(toDevice) \in Nat
            /\ toDevice'[Len(toDevice) + 1] = call[c]
            /\ \A i \in 1 .. Len(toDevice) : toDevice'[i] = toDevice[i]
        BY <1>0, <3>2, Appended
      <4> QED
        BY <1>0, <3>2, <4>1
    <3> QED
      BY <1>1, <3>1, <3>2
  <2>2. ChainReads'
    BY <1>0, <1>1, <2>1 DEF ChainReads, AllNumbered
  <2> QED
    BY <1>1, <2>2, OnTheWireKept
<1>2. ASSUME NEW c \in Clients, NEW op \in Ops, Call(c, op) PROVE ChainReads' /\ OnTheWire'
  BY <1>0, <1>1, <1>2 DEF Call
<1>3. ASSUME NEW c \in Clients, Lock(c) PROVE ChainReads' /\ OnTheWire'
  BY <1>0, <1>1, <1>3 DEF Lock
<1>4. ASSUME NEW c \in Clients, Send(c) PROVE ChainReads' /\ OnTheWire'
  <2>1. /\ pc'[c] \in {"recv", "idle", "activate"} /\ \A d \in Clients \ {c} : pc'[d] = pc[d]
        /\ pc[c] = "send"
    BY <1>0, <1>4 DEF Send, Return
  <2> QED
    BY <1>0, <1>1, <1>4, <2>1 DEF Send
<1>5. ASSUME NEW c \in Clients, RecvAsync(c) PROVE ChainReads' /\ OnTheWire'
  <2>1. /\ pc'[c] \in {"block", "idle", "activate"} /\ \A d \in Clients \ {c} : pc'[d] = pc[d]
        /\ pc[c] \in {"recv", "check"}
    BY <1>0, <1>5 DEF RecvAsync, Return
  <2> QED
    BY <1>0, <1>1, <1>5, <2>1 DEF RecvAsync
<1>6. ASSUME NEW c \in Clients, RecvSync(c) \/ Test(c) PROVE FALSE
  BY <1>0, <1>6 DEF RecvSync, Test
<1>7. ASSUME NEW c \in Clients, AsyncRun(c) PROVE ChainReads' /\ OnTheWire'
  <2>1. UNCHANGED <<active, corrupt, reads>>
    BY <1>0, <1>7 DEF AsyncRun, TypeOK, ConnOK
  <2> QED
    BY <1>0, <1>1, <1>7, <2>1 DEF AsyncRun
<1>8. ASSUME NEW t \in Threads, OtherHandler(t) PROVE ChainReads' /\ OnTheWire'
  <2>1. /\ InRunOne(t) /\ (Resume(t) \/ \E m : Throw(t, m))
        /\ UNCHANGED <<active, corrupt, reads, call, toDevice, events, delivered, toClient>>
    BY <1>8 DEF OtherHandler
  <2>2. AllNumbered'
    <3>1. LeavesRunOne(t) /\ call' = call
      BY <2>1 DEF LeavesRunOne
    <3> QED
      BY <2>1, <3>1, ChainThreads
  <2>3. ChainReads'
    BY <1>0, <2>1, <2>2 DEF ChainReads, AllNumbered
  <2> QED
    BY <2>1, <2>3, OnTheWireKept
<1>9. CASE DeviceAnswer
  <2>1. PICK k \in {"reply", "event", "error"} :
           toClient' = Append(toClient, Message(k, Head(toDevice).id, 0))
    BY <1>9 DEF DeviceAnswer
  <2>2. /\ Head(toDevice) = toDevice[1] /\ 1 \in 1 .. Len(toDevice) /\ Head(toDevice).id \in Nat
        /\ \A i \in 1 .. Len(toDevice') : /\ toDevice'[i] = toDevice[i + 1]
                                           /\ i + 1 \in 1 .. Len(toDevice)
    <3>1. toDevice # <<>> /\ toDevice' = Tail(toDevice)
      BY <1>9 DEF DeviceAnswer
    <3>2. Head(toDevice) = toDevice[1] /\ 1 \in 1 .. Len(toDevice) /\ Head(toDevice) \in Requests
      BY <1>0, <3>1
    <3> QED
      BY <1>0, <3>1, <3>2, TailElements DEF Requests
  <2> DEFINE m == Message(k, Head(toDevice).id, 0)
  <2>3. m \in Messages /\ ~Unsolicited(m)
    BY <1>0, <2>2, MessageType DEF Unsolicited, Message
  <2>4. ChainReads'
    BY <1>0, <1>9, <2>2 DEF DeviceAnswer, ChainReads, AllNumbered
  <2> QED
    BY <1>9, <2>1, <2>3, <2>4, OtherSent, OnTheWireKept DEF DeviceAnswer
<1>10. CASE DeviceEvent
  <2> DEFINE m == Message("event", 0, events + 1)
  <2>1. m \in Messages /\ Unsolicited(m) /\ m.seq = events + 1
    <3>1. 0 \in Nat /\ events + 1 \in Nat
      BY <1>0
    <3>2. m \in Messages
      BY <3>1, MessageType
    <3>3. m.id = 0 /\ m.kind = "event" /\ m.seq = events + 1
      BY DEF Message
    <3> QED
      BY <3>2, <3>3 DEF Unsolicited
  <2>2. /\ toClient' = Append(toClient, m) /\ events' = events + 1
        /\ UNCHANGED <<active, corrupt, reads, pc, call, toDevice, delivered>>
    BY <1>10 DEF DeviceEvent
  <2>3. ChainReads'
    BY <1>0, <2>2 DEF ChainReads, AllNumbered
  <2>4. PICK n \in 0 .. events : InOrder(delivered, 1, n) /\ InOrder(toClient, n + 1, events)
    BY DEF OnTheWire
  <2>5. n \in 0 .. events + 1 /\ n + 1 \in Nat /\ n + 1 <= events + 1
    BY <1>0
  <2>6. InOrder(toClient', n + 1, events + 1)
    BY <1>0, <2>1, <2>2, <2>4, <2>5, InOrderAppend
  <2> QED
    BY <2>2, <2>3, <2>4, <2>5, <2>6 DEF OnTheWire
<1>11. CASE DeviceClose \/ UNCHANGED vars
  <2>1. UNCHANGED <<active, corrupt, reads, pc, call, toDevice, events, delivered, toClient>>
    BY <1>11 DEF DeviceClose, vars
  <2>2. ChainReads'
    BY <1>0, <2>1 DEF ChainReads, AllNumbered
  <2> QED
    BY <2>1, <2>2, OnTheWireKept
<1> QED
  BY <1>2, <1>3, <1>4, <1>5, <1>6, <1>7, <1>8, <1>9, <1>10, <1>11, ChainHandlers
     DEF Next, ClientStep, Finished

LEMMA ChainedInvariant == Spec => []Chained
<1>1. Init => Chained
  <2> SUFFICES ASSUME Init, StartAsync PROVE ChainReads /\ OnTheWire
    BY DEF Chained
  <2>1. ChainReads
    BY DEF Init, ChainReads, AllNumbered
  <2>2. OnTheWire
    <3>1. \A c \in Clients : ~Pending(c)
      BY DEF Init, Pending
    <3> QED
      BY <3>1, OrderedInit DEF Ordered, OnTheWire
  <2> QED
    BY <2>1, <2>2
<1>2. TypeOK /\ Chained /\ [Next]_vars => Chained'
  BY ChainedNext DEF Chained
<1> QED
  BY <1>1, <1>2, TypeCorrect, PTL DEF Spec

(* The application gets every event, once, and in the order in which the   *)
(* device sent them, through every switch of the mode; and an asynchronous *)
(* connection's whatever other connections do.                             *)
THEOREM CallsEventsInOrder == ASSUME CallsUse PROVE Spec => []EventsInOrder
<1>1. Init => OrderedUndisturbed
  BY OrderedInit DEF OrderedUndisturbed
<1>2. TypeOK /\ CallsInvUndisturbed /\ OrderedUndisturbed /\ [Next]_vars
        => OrderedUndisturbed'
  BY UndisturbedBefore, OrderedNext DEF OrderedUndisturbed, CallsInvUndisturbed
<1>3. TypeOK /\ OrderedUndisturbed /\ Chained => EventsInOrder
  <2> SUFFICES ASSUME TypeOK, OrderedUndisturbed, Chained, Undisturbed \/ StartAsync,
                      NEW i \in DOMAIN delivered, Unsolicited(delivered[i])
               PROVE  EventsBefore(delivered, i) = 1 .. delivered[i].seq - 1
    BY DEF EventsInOrder
  <2>1. i \in 1 .. Len(delivered)
    BY DEF TypeOK, HistoryOK
  <2>2. \E n \in 0 .. events : InOrder(delivered, 1, n)
    BY DEF OrderedUndisturbed, Ordered, Chained, OnTheWire
  <2> QED
    BY <2>1, <2>2 DEF InOrder
<1> QED
  BY <1>1, <1>2, <1>3, CallsInvariant, ChainedInvariant, TypeCorrect, PTL DEF Spec
-----------------------------------------------------------------------------
(* The connection as a channel.  No two clients have the same number, and  *)
(* the device has answered those whose answer has left it, and no other.   *)
Distinct == \A c \in Clients : /\ call[c].id <= calls
                               /\ \A d \in Clients : call[c].id = call[d].id => c = d \/ call[c].id = 0
InCall(c) == pc[c] \notin {"idle", "activate"}
Ledger ==
    /\ Distinct
    /\ answered \subseteq 1 .. calls
    /\ \A c \in Clients : /\ pc[c] \in {"lock", "send"} => call[c].id \notin answered
                          /\ InCall(c) => result[c] = NoMessage
                          /\ pc[c] \in {"wait", "test"} /\ received[c] /\ call[c].op # "next"
                               => resp[c].id \in answered
    /\ ~closed /\ toDevice # <<>> => toDevice[1].id \notin answered
    /\ \A i \in 1 .. Len(toClient) : toClient[i].id # 0 => toClient[i].id \in answered
    /\ slot # NoMessage => slot.id \in answered
LedgerUndisturbed == Undisturbed => Ledger

LEMMA LedgerKept ==
    ASSUME Ledger, UNCHANGED <<calls, call, answered>>, closed => closed',
           \A c \in Clients : /\ pc'[c] \in {"lock", "send"} => pc[c] \in {"lock", "send"}
                              /\ InCall(c)' => InCall(c) /\ result'[c] = result[c]
                              /\ pc'[c] \in {"wait", "test"} /\ received'[c] /\ call[c].op # "next"
                                   => resp'[c].id \in answered,
           toDevice' # toDevice => closed' \/ toDevice' = <<>> \/ toDevice'[1].id \notin answered,
           \A i \in 1 .. Len(toClient') : toClient'[i].id # 0 => toClient'[i].id \in answered,
           slot' # NoMessage => slot'.id \in answered
    PROVE  Ledger'
<1>1. Distinct'
  BY DEF Ledger, Distinct
<1>2. ~closed' /\ toDevice' # <<>> => toDevice'[1].id \notin answered'
  BY DEF Ledger
<1> QED
  BY <1>1, <1>2 DEF Ledger, NoMessage, Message

LEMMA ReturnMoves ==
    ASSUME TypeOK, NEW c \in Clients, NEW m, Return(c, m)
    PROVE  /\ pc'[c] \in {"idle", "activate"} /\ result'[c] = m
           /\ \A d \in Clients \ {c} : pc'[d] = pc[d] /\ result'[d] = result[d]
<1>1. pc \in [Clients -> ProgramCounters] /\ result \in [Clients -> Messages]
  BY DEF TypeOK, ClientsOK
<1> QED
  BY <1>1 DEF Return

LEMMA LedgerClientStep ==
    ASSUME TypeOK, CallsInv, Ledger, NEW c \in Clients, ClientStep(c)
    PROVE  Ledger'
<1> USE DEF connVars, ioVars, clientVars, deviceVars, histVars
<1>0. /\ pc \in [Clients -> ProgramCounters] /\ received \in [Clients -> BOOLEAN]
      /\ resp \in [Clients -> Messages]
      /\ \A i \in 1 .. Len(toClient) : toClient[i].id # 0 => toClient[i].id \in answered
      /\ slot # NoMessage => slot.id \in answered
      /\ \A d \in Clients : pc[d] \in {"wait", "test"} /\ received[d] /\ call[d].op # "next"
                              => resp[d].id \in answered
  BY DEF TypeOK, ClientsOK, Ledger
<1>1. CASE Lock(c)
  <2>1. /\ UNCHANGED <<calls, call, answered, received, resp, toDevice, toClient, slot, result, closed>>
        /\ pc[c] = "lock" /\ pc' = [pc EXCEPT ![c] = "send"]
    BY <1>1 DEF Lock
  <2> QED
    BY <1>0, <2>1, LedgerKept DEF InCall
<1>2. CASE Send(c)
  <2>1. /\ UNCHANGED <<calls, call, answered, received, resp, toClient, slot, closed>>
        /\ pc[c] = "send"
    BY <1>2 DEF Send
  <2>2. CASE /\ toDevice' = Append(toDevice, call[c])
             /\ pc' = [pc EXCEPT ![c] = "recv"] /\ UNCHANGED result
    <3>1. RequestGone
      <4>1. \A d \in Clients : ~Awaits(d)
        BY <2>1, OneReader DEF CallsInv, Awaits, Reading
      <4> QED
        BY <4>1, NothingInFlight DEF CallsInv
    <3>2. ASSUME ~closed PROVE toDevice'[1] = call[c]
      <4>1. toDevice = <<>>
        BY <3>1, <3>2 DEF RequestGone
      <4> QED
        BY <2>2, <4>1
    <3>3. call[c].id \notin answered
      BY <2>1 DEF Ledger
    <3> QED
      BY <1>0, <2>1, <2>2, <3>2, <3>3, LedgerKept DEF InCall
  <2>3. CASE Return(c, Unknown) /\ UNCHANGED toDevice
    BY <1>0, <2>1, <2>3, ReturnMoves, LedgerKept DEF InCall
  <2> QED
    BY <1>2, <2>2, <2>3 DEF Send
<1>3. CASE RecvAsync(c)
  <2>1. /\ UNCHANGED <<calls, call, answered, received, resp, toDevice, toClient, closed>>
        /\ pc[c] \in {"recv", "check"}
    BY <1>3 DEF RecvAsync
  <2>2. CASE Return(c, slot) /\ slot' = ClearedSlot
    BY <1>0, <2>1, <2>2, ReturnMoves, LedgerKept DEF InCall, ClearedSlot
  <2>3. CASE pc' = [pc EXCEPT ![c] = "block"] /\ UNCHANGED <<owner, result, slot>>
    BY <1>0, <2>1, <2>3, LedgerKept DEF InCall
  <2> QED
    BY <1>3, <2>2, <2>3 DEF RecvAsync
<1>4. CASE RecvSync(c)
  <2>1. /\ UNCHANGED <<calls, call, answered, toDevice, toClient, slot, result, closed>>
        /\ pc[c] = "recv" /\ pc' = [pc EXCEPT ![c] = "wait"] /\ ~received'[c]
        /\ \A d \in Clients \ {c} : received'[d] = received[d] /\ resp'[d] = resp[d]
    BY <1>0, <1>4 DEF RecvSync
  <2> QED
    BY <1>0, <2>1, LedgerKept DEF InCall
<1>5. CASE Test(c)
  <2>1. /\ UNCHANGED <<calls, call, answered, received, resp, toDevice, toClient, slot, closed>>
        /\ pc[c] = "test"
    BY <1>5 DEF Test
  <2>2. CASE \E m : Return(c, m)
    BY <1>0, <2>1, <2>2, ReturnMoves, LedgerKept DEF InCall
  <2>3. CASE pc' = [pc EXCEPT ![c] = "wait"] /\ UNCHANGED result
    BY <1>0, <2>1, <2>3, LedgerKept DEF InCall
  <2> QED
    BY <1>5, <2>2, <2>3 DEF Test
<1>6. CASE AsyncRun(c)
  <2>1. /\ UNCHANGED <<calls, call, answered, received, resp, toDevice, toClient, slot, result, closed>>
        /\ pc[c] = "activate" /\ pc' = [pc EXCEPT ![c] = "idle"]
    BY <1>6 DEF AsyncRun
  <2> QED
    BY <1>0, <2>1, LedgerKept DEF InCall
<1> QED
  BY <1>1, <1>2, <1>3, <1>4, <1>5, <1>6 DEF ClientStep

LEMMA LedgerHandler ==
    ASSUME CallsUse, TypeOK, CallsInv, Ledger, NEW t \in Threads, RunOne(t), Undisturbed'
    PROVE  Ledger'
<1>0. /\ UNCHANGED <<calls, call, answered, toDevice, closed>> /\ InRunOne(t)
      /\ toClient \in Seq(Messages) /\ pc \in [Clients -> ProgramCounters]
      /\ received \in [Clients -> BOOLEAN] /\ resp \in [Clients -> Messages]
      /\ slot # NoMessage => slot.id \in answered
      /\ \A d \in Clients : pc[d] \in {"wait", "test"} /\ received[d] /\ call[d].op # "next"
                              => resp[d].id \in answered
  BY DEF RunOne, TypeOK, DeviceOK, ClientsOK, Ledger
<1>1. \/ toClient' = toClient
      \/ TakesHead
  BY HandlerMoves DEF Wakes, Receives, Forwards, Throws
<1>2. \A i \in 1 .. Len(toClient') : toClient'[i].id # 0 => toClient'[i].id \in answered
  <2>1. CASE toClient' = toClient
    BY <1>0, <2>1 DEF Ledger
  <2>2. CASE TakesHead
    <3>1. \A i \in 1 .. Len(toClient') : /\ toClient'[i] = toClient[i + 1]
                                         /\ i + 1 \in 1 .. Len(toClient)
      BY <1>0, <2>2, TailElements DEF TakesHead
    <3> QED
      BY <1>0, <3>1 DEF Ledger
  <2> QED
    BY <1>1, <2>1, <2>2
<1>3. TakesHead /\ Head(toClient).id # 0 => Head(toClient).id \in answered
  <2>1. TakesHead => Head(toClient) = toClient[1] /\ 1 \in 1 .. Len(toClient)
    BY <1>0 DEF TakesHead
  <2> QED
    BY <2>1 DEF Ledger
<1>4. Resume(t) => \A c \in Clients : \/ pc'[c] = pc[c]
                                      \/ pc[c] = "block" /\ pc'[c] = "check"
                                      \/ pc[c] = "wait" /\ pc'[c] = "test"
  BY <1>0, ThreadsAssumption DEF InRunOne, Resume
<1>5. CASE Resume(t) /\ Wakes
  BY <1>0, <1>2, <1>4, <1>5, LedgerKept DEF Wakes, InCall
<1>6. CASE Throws(t)
  <2>1. CASE UNCHANGED <<pc, result>>
    BY <1>0, <1>2, <1>6, <2>1, LedgerKept DEF Throws, InCall
  <2>2. CASE t \in Clients /\ \E m : Return(t, m)
    BY <1>0, <1>2, <1>6, <2>2, ReturnMoves, LedgerKept DEF Throws, InCall
  <2> QED
    BY <1>6, <2>1, <2>2 DEF Throws
<1>7. CASE Resume(t) /\ Receives
  <2>1. PICK c \in Clients :
           /\ pc[c] \in {"wait", "test"}
           /\ received' = [received EXCEPT ![c] = TRUE]
           /\ resp' = [resp EXCEPT ![c] = Head(toClient)]
           /\ call[c].op # "next" => Head(toClient).id # 0
    BY <1>7 DEF Receives
  <2>2. \A d \in Clients \ {c} : received'[d] = received[d] /\ resp'[d] = resp[d]
    BY <1>0, <2>1
  <2>3. call[c].op # "next" => resp'[c].id \in answered
    BY <1>0, <1>3, <1>7, <2>1 DEF Receives
  <2> QED
    BY <1>0, <1>2, <1>4, <1>7, <2>2, <2>3, LedgerKept DEF Receives, InCall
<1>8. CASE Resume(t) /\ Forwards
  <2>1. slot' # NoMessage => slot'.id \in answered
    BY <1>0, <1>3, <1>8 DEF Forwards
  <2> QED
    BY <1>0, <1>2, <1>4, <1>8, <2>1, LedgerKept DEF Forwards, InCall
<1> QED
  BY <1>5, <1>6, <1>7, <1>8, HandlerMoves

(* The device answers a request that it has not answered before. *)
LEMMA AnsweredOnce ==
    ASSUME TypeOK, CallsInv, Ledger, DeviceAnswer
    PROVE  /\ toDevice' = <<>> /\ Head(toDevice).id \in 1 .. calls
           /\ Head(toDevice).id \notin answered
           /\ \A c \in Clients : pc[c] \in {"lock", "send"} => call[c].id # Head(toDevice).id
<1>1. PICK o \in Clients : Awaits(o) /\ toDevice = <<call[o]>>
  BY DEF DeviceAnswer, CallsInv, Flight, RequestInFlight, RequestGone
<1>2. /\ Head(toDevice) = call[o] /\ toDevice[1] = call[o] /\ toDevice' = <<>>
      /\ ~closed /\ toDevice # <<>>
  <2>1. Head(<<call[o]>>) = call[o] /\ Tail(<<call[o]>>) = <<>> /\ <<call[o]>>[1] = call[o]
    OBVIOUS
  <2> QED
    BY <1>1, <2>1 DEF DeviceAnswer
<1>3. call[o].id # 0 /\ call[o].id \in Nat /\ call[o].id <= calls /\ calls \in Nat
  BY <1>1 DEF Awaits, Reading, CallsInv, Called, Ledger, Distinct, TypeOK, ClientsOK, Requests
<1>4. \A c \in Clients : pc[c] \in {"lock", "send"} => call[c].id # call[o].id
  BY <1>1, <1>3 DEF Awaits, Reading, Ledger, Distinct
<1>5. call[o].id \notin answered
  BY <1>2 DEF Ledger
<1> QED
  BY <1>2, <1>3, <1>4, <1>5

LEMMA LedgerDeviceAnswer ==
    ASSUME TypeOK, CallsInv, Ledger, DeviceAnswer
    PROVE  Ledger'
<1> DEFINE q == Head(toDevice)
<1>0. /\ toClient \in Seq(Messages)
      /\ UNCHANGED <<calls, call, pc, result, received, resp, slot>>
      /\ answered' = answered \union {q.id}
  BY DEF TypeOK, DeviceOK, DeviceAnswer, connVars, clientVars
<1>1. PICK k \in {"reply", "event", "error"} : toClient' = Append(toClient, Message(k, q.id, 0))
  BY DEF DeviceAnswer
<1>2. \A i \in 1 .. Len(toClient') : toClient'[i].id # 0 => toClient'[i].id \in answered'
  <2>1. /\ Len(toClient') = Len(toClient) + 1 /\ Len(toClient) \in Nat
        /\ toClient'[Len(toClient) + 1] = Message(k, q.id, 0)
        /\ \A i \in 1 .. Len(toClient) : toClient'[i] = toClient[i]
    BY <1>0, <1>1, Appended
  <2>2. Message(k, q.id, 0).id = q.id
    BY DEF Message
  <2> QED
    BY <1>0, <2>1, <2>2 DEF Ledger
<1>3. Distinct' /\ answered' \subseteq 1 .. calls
  BY <1>0, AnsweredOnce DEF Ledger, Distinct
<1>4. toDevice' = <<>>
  BY AnsweredOnce
<1>5. \A c \in Clients : pc[c] \in {"lock", "send"} => call[c].id \notin answered'
  BY <1>0, AnsweredOnce DEF Ledger
<1> QED
  BY <1>0, <1>2, <1>3, <1>4, <1>5 DEF Ledger, InCall, NoMessage, Message

LEMMA LedgerCall ==
    ASSUME TypeOK, CallsInv, Ledger, NEW c \in Clients, NEW op \in Ops, Call(c, op)
    PROVE  Ledger'
<1>0. /\ pc \in [Clients -> ProgramCounters] /\ result \in [Clients -> Messages]
      /\ call \in [Clients -> Requests] /\ calls \in Nat
  BY DEF TypeOK, ClientsOK
<1>1. /\ calls' = calls + 1 /\ call' = [call EXCEPT ![c] = [op |-> op, id |-> calls + 1]]
      /\ pc' = [pc EXCEPT ![c] = IF op = "next" THEN "recv" ELSE "lock"]
      /\ result' = [result EXCEPT ![c] = NoMessage]
      /\ UNCHANGED <<answered, toDevice, toClient, slot, received, resp, closed>>
  BY DEF Call, connVars, deviceVars, histVars
<1>2. /\ call'[c].id = calls + 1 /\ \A d \in Clients \ {c} : call'[d] = call[d] /\ pc'[d] = pc[d]
      /\ \A d \in Clients : call[d].id \in Nat
      /\ pc'[c] \in {"recv", "lock"} /\ result'[c] = NoMessage
  BY <1>0, <1>1 DEF Requests
<1>3. Distinct'
  BY <1>0, <1>1, <1>2 DEF Ledger, Distinct
<1>4. answered \subseteq 1 .. calls + 1 /\ calls + 1 \notin answered
  BY <1>0 DEF Ledger
<1>5. ASSUME NEW d \in Clients
      PROVE  /\ pc'[d] \in {"lock", "send"} => call'[d].id \notin answered
             /\ InCall(d)' => result'[d] = NoMessage
             /\ pc'[d] \in {"wait", "test"} /\ received'[d] /\ call'[d].op # "next"
                  => resp'[d].id \in answered
  <2>1. CASE d = c
    BY <1>2, <1>4, <2>1 DEF InCall
  <2>2. CASE d # c
    BY <1>0, <1>1, <1>2, <2>2 DEF Ledger, InCall
  <2> QED
    BY <2>1, <2>2
<1>6. /\ ~closed' /\ toDevice' # <<>> => toDevice'[1].id \notin answered'
      /\ \A i \in 1 .. Len(toClient') : toClient'[i].id # 0 => toClient'[i].id \in answered'
      /\ slot' # NoMessage => slot'.id \in answered'
  BY <1>1 DEF Ledger, NoMessage, Message
<1> QED
  BY <1>1, <1>3, <1>4, <1>5, <1>6 DEF Ledger

LEMMA LedgerNext ==
    ASSUME CallsUse, TypeOK, CallsInv, Ledger, [Next]_vars, Undisturbed'
    PROVE  Ledger'
<1> USE DEF connVars, ioVars, clientVars, deviceVars, histVars
<1>0. /\ \A i \in 1 .. Len(toClient) : toClient[i].id # 0 => toClient[i].id \in answered
      /\ slot # NoMessage => slot.id \in answered
      /\ \A d \in Clients : pc[d] \in {"wait", "test"} /\ received[d] /\ call[d].op # "next"
                              => resp[d].id \in answered
  BY DEF Ledger
<1>1. ASSUME NEW t \in Threads, OtherHandler(t) PROVE Ledger'
  <2>1. /\ UNCHANGED <<calls, call, answered, received, resp, toDevice, toClient, slot, result, closed>>
        /\ \A d \in Clients : pc'[d] = pc[d] \/ {pc[d], pc'[d]} = {"wait", "test"}
                              \/ (pc[d] = "block" /\ pc'[d] = "check")
    BY <1>1, OtherHandlerWakes, ThreadsAssumption DEF InRunOne, Resume, TypeOK, ClientsOK
  <2>2. \A d \in Clients : /\ pc'[d] \in {"lock", "send"} => pc[d] \in {"lock", "send"}
                           /\ InCall(d)' => InCall(d)
                           /\ pc'[d] \in {"wait", "test"} => pc[d] \in {"wait", "test"}
    BY <2>1 DEF InCall
  <2> QED
    BY <1>0, <2>1, <2>2, LedgerKept
<1>2. CASE DeviceEvent
  <2>1. /\ UNCHANGED <<calls, call, answered, toDevice, slot, result, pc, received, resp, closed>>
        /\ toClient' = Append(toClient, Message("event", 0, events + 1))
        /\ toClient \in Seq(Messages)
    BY <1>2 DEF DeviceEvent, TypeOK, DeviceOK
  <2>2. /\ Len(toClient') = Len(toClient) + 1 /\ Len(toClient) \in Nat
        /\ toClient'[Len(toClient) + 1] = Message("event", 0, events + 1)
        /\ \A i \in 1 .. Len(toClient) : toClient'[i] = toClient[i]
    BY <2>1, Appended
  <2>3. Message("event", 0, events + 1).id = 0
    BY DEF Message
  <2>4. \A i \in 1 .. Len(toClient') : toClient'[i].id # 0 => toClient'[i].id \in answered
    BY <1>0, <2>2, <2>3
  <2> QED
    BY <1>0, <2>1, <2>4, LedgerKept DEF InCall
<1>3. CASE DeviceClose \/ UNCHANGED vars
  <2>1. /\ UNCHANGED <<calls, call, answered, toDevice, toClient, slot, result, pc, received, resp>>
        /\ closed => closed'
    BY <1>3 DEF DeviceClose, vars
  <2> QED
    BY <1>0, <2>1, LedgerKept DEF InCall
<1> QED
  BY <1>1, <1>2, <1>3, LedgerClientStep, LedgerHandler, LedgerDeviceAnswer, LedgerCall
     DEF Next, Finished

LEMMA LedgerInit == Init => Ledger
BY DEF Init, Ledger, Distinct, InCall

LEMMA LedgerInvariant == ASSUME CallsUse PROVE Spec => []LedgerUndisturbed
<1>1. Init => LedgerUndisturbed
  BY LedgerInit DEF LedgerUndisturbed
<1>2. TypeOK /\ CallsInvUndisturbed /\ LedgerUndisturbed /\ [Next]_vars
        => LedgerUndisturbed'
  BY UndisturbedBefore, LedgerNext DEF LedgerUndisturbed, CallsInvUndisturbed
<1> QED
  BY <1>1, <1>2, CallsInvariant, TypeCorrect, PTL DEF Spec
-----------------------------------------------------------------------------
(* Which step of the channel a step of the connection is. *)

(* None: the threads are in the same calls. *)
LEMMA Unmoved ==
    ASSUME UNCHANGED <<calls, call, answered, result>>,
           \A c \in Clients : InCall(c)' <=> InCall(c)
    PROVE  UNCHANGED Channel!vars
<1>1. {c \in Clients : pc'[c] \notin {"idle", "activate"}}
        = {c \in Clients : pc[c] \notin {"idle", "activate"}}
  BY DEF InCall
<1> QED
  BY <1>1 DEF Channel!vars

(* Call: Ask. *)
LEMMA CallAsks ==
    ASSUME TypeOK, NEW c \in Clients, NEW op \in Ops, Call(c, op)
    PROVE  Channel!Next
<1>0. /\ pc \in [Clients -> ProgramCounters] /\ result \in [Clients -> Messages]
      /\ call \in [Clients -> Requests]
  BY DEF TypeOK, ClientsOK
<1>1. /\ calls' = calls + 1 /\ call' = [call EXCEPT ![c] = [op |-> op, id |-> calls + 1]]
      /\ pc[c] = "idle" /\ pc' = [pc EXCEPT ![c] = IF op = "next" THEN "recv" ELSE "lock"]
      /\ result' = [result EXCEPT ![c] = NoMessage] /\ UNCHANGED answered
  BY DEF Call, histVars
<1>2. {d \in Clients : pc'[d] \notin {"idle", "activate"}}
        = {d \in Clients : pc[d] \notin {"idle", "activate"}} \union {c}
  BY <1>0, <1>1
<1>3. [d \in Clients |-> call'[d].id] = [[d \in Clients |-> call[d].id] EXCEPT ![c] = calls + 1]
  BY <1>0, <1>1
<1>4. \A q : Outcome(q, NoMessage) = {}
  BY DEF Outcome, NoMessage, Message
<1>5. [d \in Clients |-> Outcome(call'[d], result'[d])]
        = [[d \in Clients |-> Outcome(call[d], result[d])] EXCEPT ![c] = {}]
  BY <1>0, <1>1, <1>4
<1>6. Channel!Ask(c)
  BY <1>1, <1>2, <1>3, <1>5 DEF Channel!Ask
<1> QED
  BY <1>6 DEF Channel!Next

(* A call that returns or throws its answer, or none: End. *)
LEMMA CallEnds ==
    ASSUME TypeOK, Ledger, NEW c \in Clients, NEW m, Return(c, m), InCall(c),
           \/ Outcome(call[c], m) = {}
           \/ m.id = call[c].id /\ call[c].id \in answered,
           UNCHANGED <<calls, call, answered>>
    PROVE  Channel!Next
<1>1. /\ pc'[c] \in {"idle", "activate"} /\ result'[c] = m
      /\ \A d \in Clients \ {c} : pc'[d] = pc[d] /\ result'[d] = result[d]
  BY ReturnMoves
<1>2. {d \in Clients : pc'[d] \notin {"idle", "activate"}}
        = {d \in Clients : pc[d] \notin {"idle", "activate"}} \ {c}
  BY <1>1
<1>3. Outcome(call[c], result[c]) = {}
  BY DEF Ledger, InCall, Outcome, NoMessage, Message
<1>4. \/ Outcome(call[c], m) = {}
      \/ Outcome(call[c], m) = {call[c].id} /\ call[c].id \in answered
  BY DEF Outcome
<1> DEFINE before == [d \in Clients |-> Outcome(call[d], result[d])]
           after  == [d \in Clients |-> Outcome(call'[d], result'[d])]
<1>5. \/ after = before
      \/ after = [before EXCEPT ![c] = {call[c].id}] /\ call[c].id \in answered
  <2>1. \A d \in Clients \ {c} : after[d] = before[d]
    BY <1>1
  <2>2. /\ before[c] = {}
        /\ after[c] = {} \/ (after[c] = {call[c].id} /\ call[c].id \in answered)
    BY <1>1, <1>3, <1>4
  <2>3. CASE after[c] = {}
    BY <2>1, <2>2, <2>3
  <2>4. CASE after[c] = {call[c].id} /\ call[c].id \in answered
    BY <2>1, <2>2, <2>4
  <2> QED
    BY <2>2, <2>3, <2>4
<1>6. Channel!End(c)
  BY <1>2, <1>5 DEF Channel!End, InCall
<1> QED
  BY <1>6 DEF Channel!Next

LEMMA ClientStepRefines ==
    ASSUME TypeOK, CallsInv, Ledger, NEW c \in Clients, ClientStep(c)
    PROVE  Channel!Next \/ UNCHANGED Channel!vars
<1> USE DEF connVars, ioVars, clientVars, deviceVars, histVars
<1>0. /\ pc \in [Clients -> ProgramCounters]
      /\ UNCHANGED <<calls, call, answered>>
  BY DEF TypeOK, ClientsOK, ClientStep, Lock, Send, RecvAsync, RecvSync, Test, AsyncRun
<1>1. CASE Lock(c) \/ AsyncRun(c) \/ RecvSync(c)
  <2>1. UNCHANGED result /\ \A d \in Clients : InCall(d)' <=> InCall(d)
    BY <1>0, <1>1 DEF Lock, AsyncRun, RecvSync, InCall
  <2> QED
    BY <1>0, <2>1, Unmoved
<1>2. CASE Send(c)
  <2>1. CASE pc[c] = "send" /\ pc' = [pc EXCEPT ![c] = "recv"] /\ UNCHANGED result
    <3>1. \A d \in Clients : InCall(d)' <=> InCall(d)
      BY <1>0, <2>1 DEF InCall
    <3> QED
      BY <1>0, <2>1, <3>1, Unmoved
  <2>2. CASE pc[c] = "send" /\ Return(c, Unknown)
    <3>1. Outcome(call[c], Unknown) = {}
      BY DEF Outcome, Unknown, Message
    <3> QED
      BY <1>0, <2>2, <3>1, CallEnds DEF InCall
  <2> QED
    BY <1>2, <2>1, <2>2 DEF Send
<1>3. CASE RecvAsync(c)
  <2>1. pc[c] \in {"recv", "check"} /\ active /\ Reading(c)
    BY <1>3 DEF RecvAsync, Reading, CallsInv, Mode
  <2>2. CASE slot # NoMessage /\ Return(c, slot)
    <3>1. slot.id = call[c].id /\ slot.id \in answered
      BY <2>1, <2>2, OneReader DEF CallsInv, Flight, AnswerInSlot, Awaits, Ledger
    <3> QED
      BY <1>0, <2>1, <2>2, <3>1, CallEnds DEF InCall
  <2>3. CASE pc' = [pc EXCEPT ![c] = "block"] /\ UNCHANGED result
    <3>1. \A d \in Clients : InCall(d)' <=> InCall(d)
      BY <1>0, <2>1, <2>3 DEF InCall
    <3> QED
      BY <1>0, <2>3, <3>1, Unmoved
  <2> QED
    BY <1>3, <2>2, <2>3 DEF RecvAsync
<1>4. CASE Test(c)
  <2>1. CASE pc[c] = "test" /\ LoopEnds(c) /\ Return(c, resp[c])
    <3>1. CASE call[c].op = "next"
      <4>1. Outcome(call[c], resp[c]) = {}
        BY <3>1 DEF Outcome
      <4> QED
        BY <1>0, <2>1, <4>1, CallEnds DEF InCall
    <3>2. CASE call[c].op # "next"
      <4>1. resp[c].id = call[c].id /\ resp[c].id \in answered
        BY <2>1, <3>2 DEF LoopEnds, CallsInv, Flight, AnswerRead, Ledger
      <4> QED
        BY <1>0, <2>1, <4>1, CallEnds DEF InCall
    <3> QED
      BY <3>1, <3>2
  <2>2. CASE pc[c] = "test" /\ Return(c, Timeout)
    <3>1. Outcome(call[c], Timeout) = {}
      BY DEF Outcome, Timeout, Message
    <3> QED
      BY <1>0, <2>2, <3>1, CallEnds DEF InCall
  <2>3. CASE pc[c] = "test" /\ pc' = [pc EXCEPT ![c] = "wait"] /\ UNCHANGED result
    <3>1. \A d \in Clients : InCall(d)' <=> InCall(d)
      BY <1>0, <2>3 DEF InCall
    <3> QED
      BY <1>0, <2>3, <3>1, Unmoved
  <2> QED
    BY <1>4, <2>1, <2>2, <2>3 DEF Test
<1> QED
  BY <1>1, <1>2, <1>3, <1>4 DEF ClientStep

LEMMA HandlerRefines ==
    ASSUME CallsUse, TypeOK, CallsInv, Ledger, NEW t \in Threads, RunOne(t), Undisturbed'
    PROVE  Channel!Next \/ UNCHANGED Channel!vars
<1>0. /\ UNCHANGED <<calls, call, answered>> /\ InRunOne(t)
      /\ toClient \in Seq(Messages) /\ pc \in [Clients -> ProgramCounters]
  BY DEF RunOne, TypeOK, DeviceOK, ClientsOK
<1>1. CASE Resume(t) /\ (Wakes \/ Receives \/ Forwards)
  <2>1. UNCHANGED result
    BY <1>1 DEF Wakes, Receives, Forwards
  <2>2. \A c \in Clients : InCall(c)' <=> InCall(c)
    BY <1>0, <1>1, ThreadsAssumption DEF InRunOne, Resume, InCall
  <2> QED
    BY <1>0, <2>1, <2>2, Unmoved
<1>2. CASE Throws(t)
  <2>1. CASE UNCHANGED <<pc, result>>
    BY <1>0, <2>1, Unmoved DEF InCall
  <2>2. CASE /\ t \in Clients /\ pc[t] \in {"block", "wait"}
             /\ TakesHead /\ Head(toClient).id = call[t].id /\ call[t].id # 0
             /\ Return(t, Head(toClient))
    <3>1. Head(toClient) = toClient[1] /\ 1 \in 1 .. Len(toClient)
      BY <1>0, <2>2 DEF TakesHead
    <3>2. call[t].id \in answered
      BY <2>2, <3>1 DEF Ledger
    <3> QED
      BY <1>0, <2>2, <3>2, CallEnds DEF InCall
  <2>3. CASE /\ t \in Clients /\ pc[t] \in {"block", "wait"}
             /\ Return(t, Unknown) \/ Return(t, Abort)
    <3>1. Outcome(call[t], Unknown) = {} /\ Outcome(call[t], Abort) = {}
      BY DEF Outcome, Unknown, Abort, Message
    <3> QED
      BY <1>0, <2>3, <3>1, CallEnds DEF InCall
  <2> QED
    BY <1>2, <2>1, <2>2, <2>3 DEF Throws
<1> QED
  BY <1>1, <1>2, HandlerMoves

(* DeviceAnswer: Answer. *)
LEMMA DeviceAnswers ==
    ASSUME TypeOK, CallsInv, Ledger, DeviceAnswer
    PROVE  Channel!Next
<1>1. /\ UNCHANGED <<calls, call, result, pc>>
      /\ answered' = answered \union {Head(toDevice).id}
  BY DEF DeviceAnswer, clientVars
<1>2. Channel!Answer(Head(toDevice).id)
  BY <1>1, AnsweredOnce DEF Channel!Answer
<1> QED
  BY <1>2, AnsweredOnce DEF Channel!Next

LEMMA StepRefines ==
    ASSUME CallsUse, TypeOK, CallsInv, Ledger, [Next]_vars, Undisturbed'
    PROVE  Channel!Next \/ UNCHANGED Channel!vars
<1> USE DEF connVars, ioVars, clientVars, deviceVars, histVars
<1>1. ASSUME NEW t \in Threads, OtherHandler(t) PROVE UNCHANGED Channel!vars
  <2>1. /\ UNCHANGED <<calls, call, answered, result>>
        /\ \A d \in Clients : InCall(d)' <=> InCall(d)
    BY <1>1, OtherHandlerWakes, ThreadsAssumption
       DEF InRunOne, Resume, InCall, TypeOK, ClientsOK
  <2> QED
    BY <2>1, Unmoved
<1>2. CASE DeviceEvent \/ DeviceClose \/ UNCHANGED vars
  <2>1. UNCHANGED <<calls, call, answered, result, pc>>
    BY <1>2 DEF DeviceEvent, DeviceClose, vars
  <2> QED
    BY <2>1, Unmoved DEF InCall
<1> QED
  BY <1>1, <1>2, CallAsks, ClientStepRefines, HandlerRefines, DeviceAnswers
     DEF Next, Finished

(* Until a recv() is given up, a connection is a channel in every mode:    *)
(* each step answers a request once, begins a call, or ends one with its   *)
(* own answer or with none.                                                *)
THEOREM CallsImplementChannel == ASSUME CallsUse PROVE Spec => ChannelUndisturbed
<1>1. TypeOK /\ CallsInvUndisturbed /\ LedgerUndisturbed /\ [Next]_vars
        => [Undisturbed' => Channel!Next \/ UNCHANGED Channel!vars]_vars
  BY UndisturbedBefore, StepRefines DEF LedgerUndisturbed, CallsInvUndisturbed
<1> QED
  BY <1>1, LedgerInvariant, CallsInvariant, TypeCorrect, PTL DEF Spec, ChannelUndisturbed
-----------------------------------------------------------------------------
(* A connection that reads asynchronously from the start on an io_context  *)
(* of its own and stays open gives up no recv(): what holds until then     *)
(* holds for ever.                                                         *)
AsyncUse == StartAsync /\ ~MayClose /\ ~SharedContext /\ Ops \subseteq {"get", "subscribe"}

LEMMA AsyncCalls == AsyncUse => CallsUse
BY DEF AsyncUse, CallsUse

(* A message that a request method returns or throws answers that request. *)
THEOREM AsyncOwnResponse == ASSUME AsyncUse PROVE Spec => []OwnResponse
<1>1. CallsInvUndisturbed /\ (Solo /\ NoDeadline) => OwnResponse
  BY DEF AsyncUse, NoDeadline, CallsInvUndisturbed, Undisturbed, CallsInv
<1> QED
  BY <1>1, AsyncCalls, CallsInvariant, SoloInvariant, PTL

LEMMA AsyncStep ==
    ASSUME AsyncUse, TypeOK, CallsInvUndisturbed, NoDeadline, NoDeadline',
           LedgerUndisturbed, [Next]_vars
    PROVE  [Channel!Next]_Channel!vars
<1>1. Undisturbed /\ Undisturbed'
  BY DEF AsyncUse, NoDeadline, Undisturbed
<1>2. CallsUse /\ CallsInv /\ Ledger
  BY <1>1, AsyncCalls DEF CallsInvUndisturbed, LedgerUndisturbed
<1> QED
  BY <1>1, <1>2, StepRefines

(* With all its threads, handlers and the one slot, such a connection is a *)
(* channel that answers every request at most once, and ends every call    *)
(* with its own answer or with none.                                       *)
THEOREM AsyncImplementsChannel == ASSUME AsyncUse PROVE Spec => ImplementsChannel
<1>1. Init => Channel!Init
  <2> SUFFICES ASSUME Init PROVE Channel!Init
    OBVIOUS
  <2>1. /\ calls = 0 /\ answered = {}
        /\ \A c \in Clients : /\ call[c].id = 0 /\ pc[c] = "idle"
                              /\ Outcome(call[c], result[c]) = {}
    BY DEF Init, Outcome, NoMessage, Message
  <2> QED
    BY <2>1 DEF Channel!Init
<1>2. TypeOK /\ CallsInvUndisturbed /\ (Solo /\ NoDeadline) /\ (Solo /\ NoDeadline)'
        /\ LedgerUndisturbed /\ [Next]_vars
        => [Channel!Next]_Channel!vars
  BY AsyncStep
<1> QED
  BY <1>1, <1>2, AsyncCalls, TypeCorrect, CallsInvariant, SoloInvariant, LedgerInvariant, PTL
     DEF Spec, ImplementsChannel, Channel!Spec
=============================================================================
