----------------------- MODULE ScannerConnection_proofs -----------------------
(***************************************************************************)
(* Proofs about ScannerConnection, for any number of clients, requests and *)
(* events.                                                                 *)
(***************************************************************************)
EXTENDS ScannerConnection, TLAPS

(* The constant messages and reads have the types of the variables. *)
LEMMA MessageType ==
    /\ {NoMessage, Timeout, Unknown, Abort, Garbage} \subseteq Messages
    /\ ChainRead \in Reads
    /\ \A id \in Nat, n \in Nat, k \in {"reply", "event", "error"} :
         Message(k, id, n) \in Messages
BY DEF Messages, Kinds, Failures, Message, NoMessage, Timeout, Unknown, Abort, Garbage,
       Reads, Read, ChainRead

(* Ending a call, resuming a thread and dropping a timer keep the types.   *)
LEMMA ReturnType ==
    ASSUME TypeOK, NEW c \in Clients, NEW m \in Messages, Return(c, m)
    PROVE  /\ pc' \in [Clients -> ProgramCounters]
           /\ result' \in [Clients -> Messages]
           /\ owner' \in Clients \union {Nobody}
BY DEF TypeOK, ClientsOK, ConnOK, Return, ProgramCounters

LEMMA ResumeType ==
    ASSUME TypeOK, NEW t, Resume(t)
    PROVE  pc' \in [Clients -> ProgramCounters]
BY DEF TypeOK, ClientsOK, Resume, ProgramCounters

LEMMA DropTimerType ==
    ASSUME TypeOK, NEW c \in Clients, DropTimer(c)
    PROVE  /\ timer' \in [Clients -> {"off", "armed", "expired"}]
           /\ aborted' \in BOOLEAN
BY DEF TypeOK, ClientsOK, DropTimer

(* A type invariant of the client steps: no step writes a value that no    *)
(* other code understands.                                                 *)
LEMMA ClientStepType ==
    ASSUME TypeOK, NEW c \in Clients, ClientStep(c) PROVE TypeOK'
<1> USE DEF connVars, ioVars, clientVars, deviceVars, histVars
<1>2. CASE Lock(c)
  <2>1. ConnOK' /\ ClientsOK'
    BY <1>2 DEF Lock, Acquire, TypeOK, ConnOK, ClientsOK, ProgramCounters
  <2> QED
    BY <1>2, <2>1 DEF Lock, TypeOK, IoOK, DeviceOK, HistoryOK
<1>3. CASE Send(c)
  <2>1. ConnOK' /\ ClientsOK'
    <3>1. CASE pc' = [pc EXCEPT ![c] = "recv"] /\ UNCHANGED <<owner, result>>
      BY <1>3, <3>1 DEF Send, TypeOK, ConnOK, ClientsOK, ProgramCounters
    <3>2. CASE Return(c, Unknown)
      BY <1>3, <3>2, MessageType, ReturnType DEF Send, TypeOK, ConnOK, ClientsOK
    <3> QED
      BY <1>3, <3>1, <3>2 DEF Send
  <2>2. DeviceOK'
    BY SMTT(20), <1>3 DEF Send, TypeOK, DeviceOK, ClientsOK
  <2> QED
    BY <1>3, <2>1, <2>2 DEF Send, TypeOK, IoOK, HistoryOK
<1>4. CASE RecvAsync(c)
  <2>1. ConnOK' /\ ClientsOK'
    <3>1. CASE Return(c, slot) /\ slot' = ClearedSlot
      BY <1>4, <3>1, MessageType, ReturnType
         DEF RecvAsync, ClearedSlot, TypeOK, ConnOK, ClientsOK
    <3>2. CASE pc' = [pc EXCEPT ![c] = "block"] /\ UNCHANGED <<owner, result, slot>>
      BY <1>4, <3>2 DEF RecvAsync, TypeOK, ConnOK, ClientsOK, ProgramCounters
    <3> QED
      BY <1>4, <3>1, <3>2 DEF RecvAsync
  <2> QED
    BY <1>4, <2>1 DEF RecvAsync, TypeOK, IoOK, DeviceOK, HistoryOK
<1>5. CASE RecvSync(c)
  <2>1. ConnOK'
    BY <1>5 DEF RecvSync, TypeOK, ConnOK
  <2>2. IoOK'
    <3>1. Read(c, call[c].id) \in Reads
      BY DEF Read, Reads, TypeOK, ClientsOK, Requests
    <3> QED
      BY <1>5, <3>1 DEF RecvSync, TypeOK, IoOK
  <2>3. ClientsOK'
    BY <1>5, MessageType DEF RecvSync, TypeOK, ClientsOK, ProgramCounters
  <2> QED
    BY <1>5, <2>1, <2>2, <2>3 DEF RecvSync, TypeOK, DeviceOK, HistoryOK
<1>6. CASE Test(c)
  <2>1. CASE LoopEnds(c) /\ Return(c, resp[c]) /\ DropTimer(c)
    <3>1. resp[c] \in Messages
      BY DEF TypeOK, ClientsOK
    <3>2. ConnOK' /\ IoOK' /\ ClientsOK'
      BY <1>6, <2>1, <3>1, ReturnType, DropTimerType
         DEF Test, TypeOK, ConnOK, IoOK, ClientsOK
    <3>3. HistoryOK'
      BY <1>6, <2>1, <3>1 DEF Test, TypeOK, HistoryOK
    <3> QED
      BY <1>6, <3>2, <3>3 DEF Test, TypeOK, DeviceOK
  <2>2. CASE ~LoopEnds(c) /\ Return(c, Timeout) /\ DropTimer(c) /\ UNCHANGED delivered
    <3>1. ConnOK' /\ IoOK' /\ ClientsOK'
      BY <1>6, <2>2, MessageType, ReturnType, DropTimerType
         DEF Test, TypeOK, ConnOK, IoOK, ClientsOK
    <3> QED
      BY <1>6, <2>2, <3>1 DEF Test, TypeOK, DeviceOK, HistoryOK
  <2>3. CASE pc' = [pc EXCEPT ![c] = "wait"]
             /\ UNCHANGED <<owner, result, timer, aborted, delivered>>
    <3>1. ClientsOK'
      BY <1>6, <2>3 DEF Test, TypeOK, ClientsOK, ProgramCounters
    <3> QED
      BY <1>6, <2>3, <3>1 DEF Test, TypeOK, ConnOK, IoOK, DeviceOK, HistoryOK
  <2> QED
    BY <1>6, <2>1, <2>2, <2>3 DEF Test
<1>7. CASE AsyncRun(c)
  <2>1. ConnOK' /\ IoOK'
    BY <1>7, MessageType DEF AsyncRun, TypeOK, ConnOK, IoOK
  <2>2. ClientsOK'
    BY <1>7 DEF AsyncRun, TypeOK, ClientsOK, ProgramCounters
  <2> QED
    BY <1>7, <2>1, <2>2 DEF AsyncRun, TypeOK, DeviceOK, HistoryOK
<1> QED
  BY <1>2, <1>3, <1>4, <1>5, <1>6, <1>7 DEF ClientStep

(* The steps of handlers keep the types. *)
LEMMA ThrowType ==
    ASSUME TypeOK, NEW t \in Threads, NEW m \in Messages, Throw(t, m)
    PROVE  /\ pc' \in [Clients -> ProgramCounters]
           /\ result' \in [Clients -> Messages]
           /\ owner' \in Clients \union {Nobody}
           /\ timer' \in [Clients -> {"off", "armed", "expired"}]
           /\ aborted' \in BOOLEAN
           /\ process' \in {"running", "terminated"}
<1>1. CASE t \notin Clients
  BY <1>1 DEF Throw, TypeOK, ConnOK, IoOK, ClientsOK
<1>2. CASE t \in Clients
  BY <1>2, ReturnType, DropTimerType, ThreadsAssumption DEF Throw, TypeOK, IoOK
<1> QED
  BY <1>1, <1>2

LEMMA HandlerType ==
    ASSUME TypeOK, NEW t \in Threads, RunOne(t) PROVE TypeOK'
<1> USE DEF connVars, ioVars, clientVars, deviceVars, histVars
<1> DEFINE Rest == UNCHANGED <<active, corrupt, foreign, call, calls, toDevice, streaming,
                               events, closed, answered>>
<1>1. Rest
  BY DEF RunOne
<1>2. ASSUME NEW m \in Messages, ThrowingHandler(t, m), toClient' \in Seq(Messages),
             reads # <<>>, UNCHANGED timeouts
      PROVE  TypeOK'
  <2>1. Throw(t, m)
    BY <1>2 DEF ThrowingHandler
  <2>2. ConnOK' /\ ClientsOK' /\ IoOK'
    BY <1>1, <1>2, <2>1, ThrowType
       DEF ThrowingHandler, TypeOK, ConnOK, ClientsOK, IoOK
  <2> QED
    BY <1>1, <1>2, <2>2 DEF ThrowingHandler, TypeOK, DeviceOK, HistoryOK
<1>3. CASE MessageHandler(t)
  <2>1. Head(toClient) \in Messages /\ toClient' \in Seq(Messages) /\ Head(reads) \in Reads
    BY <1>3 DEF MessageHandler, TypeOK, DeviceOK, IoOK
  <2>2. CASE Starved(t)
    <3>1. ClientsOK'
      BY <1>1, <1>3, <2>2, ResumeType DEF Starved, MessageHandler, TypeOK, ClientsOK
    <3>2. ConnOK' /\ IoOK'
      BY <1>1, <2>2 DEF Starved, TypeOK, ConnOK, IoOK
    <3> QED
      BY <1>1, <2>1, <2>2, <3>1, <3>2 DEF Starved, TypeOK, DeviceOK, HistoryOK
  <2>3. ASSUME NEW m \in Messages, ThrowingHandler(t, m) PROVE TypeOK'
    BY <1>2, <1>3, <2>1, <2>3 DEF MessageHandler
  <2>4. ASSUME NEW m \in Messages, SyncHandler(t, m) PROVE TypeOK'
    <3> DEFINE r == Head(reads)
    <3>1. Resume(t) /\ process' \in {"running", "terminated"}
      BY <2>4 DEF SyncHandler, TypeOK, IoOK
    <3>2. received' \in [Clients -> BOOLEAN] /\ resp' \in [Clients -> Messages]
      <4>1. CASE received' = [received EXCEPT ![r.by] = TRUE]
                 /\ resp' = [resp EXCEPT ![r.by] = m]
        BY <4>1 DEF TypeOK, ClientsOK
      <4>2. CASE UNCHANGED <<received, resp>>
        BY <4>2 DEF TypeOK, ClientsOK
      <4> QED
        BY <2>4, <4>1, <4>2 DEF SyncHandler
    <3>3. ClientsOK'
      BY <1>1, <1>3, <2>4, <3>1, <3>2, ResumeType
         DEF SyncHandler, MessageHandler, TypeOK, ClientsOK
    <3>4. ConnOK' /\ IoOK'
      BY <1>1, <1>3, <2>4, <3>1 DEF SyncHandler, MessageHandler, TypeOK, ConnOK, IoOK
    <3> QED
      BY <1>1, <2>1, <2>4, <3>3, <3>4 DEF SyncHandler, TypeOK, DeviceOK, HistoryOK
  <2>5. ASSUME NEW m \in Messages, ChainHandler(t, m) PROVE TypeOK'
    <3>1. ClientsOK'
      BY <1>1, <1>3, <2>5, ResumeType DEF ChainHandler, MessageHandler, TypeOK, ClientsOK
    <3>2. IoOK'
      BY <1>1, <1>3, <2>5, MessageType
         DEF ChainHandler, MessageHandler, Rearmed, TypeOK, IoOK
    <3>3. ConnOK' /\ HistoryOK'
      BY <1>1, <2>5 DEF ChainHandler, TypeOK, ConnOK, HistoryOK
    <3> QED
      BY <1>1, <2>1, <3>1, <3>2, <3>3 DEF TypeOK, DeviceOK
  <2> QED
    BY <1>3, <2>1, <2>2, <2>3, <2>4, <2>5, MessageType DEF MessageHandler
<1>4. CASE ClosedHandler(t)
  BY <1>2, <1>4, MessageType DEF ClosedHandler, TypeOK, DeviceOK
<1>5. ASSUME NEW c \in Clients, TimerHandler(t, c) PROVE TypeOK'
  <2>1. Fired(c) \in {"off", "expired"}
    BY DEF Fired
  <2>2. ClientsOK'
    BY <1>1, <1>5, <2>1, ResumeType DEF TimerHandler, TypeOK, ClientsOK
  <2> QED
    BY <1>1, <1>5, <2>2 DEF TimerHandler, TypeOK, ConnOK, IoOK, DeviceOK, HistoryOK
<1>6. CASE AbortedHandler(t)
  <2>1. ClientsOK'
    BY <1>1, <1>6, ResumeType DEF AbortedHandler, TypeOK, ClientsOK
  <2> QED
    BY <1>1, <1>6, <2>1 DEF AbortedHandler, TypeOK, ConnOK, IoOK, DeviceOK, HistoryOK
<1> QED
  BY <1>3, <1>4, <1>5, <1>6 DEF RunOne

(* TypeOK is an invariant: whatever the threads, the handlers and the      *)
(* device do, each variable keeps to the values the code distinguishes.    *)
THEOREM TypeCorrect == Spec => []TypeOK
<1>1. Init => TypeOK
  <2> SUFFICES ASSUME Init PROVE TypeOK
    OBVIOUS
  <2>1. ConnOK /\ ClientsOK
    BY ParamsAssumption, MessageType
       DEF Init, ConnOK, ClientsOK, ProgramCounters, Requests
  <2>2. IoOK
    <3>1. <<ChainRead>> \in Seq(Reads)
      BY MessageType
    <3>2. reads \in Seq(Reads)
      BY <3>1 DEF Init
    <3> QED
      BY <3>2, ParamsAssumption DEF Init, IoOK
  <2>3. <<>> \in Seq(Messages) /\ <<>> \in Seq(Requests)
    OBVIOUS
  <2>4. DeviceOK
    BY <2>3, ParamsAssumption DEF Init, DeviceOK
  <2>5. HistoryOK
    BY <2>3 DEF Init, HistoryOK
  <2> QED
    BY <2>1, <2>2, <2>4, <2>5 DEF TypeOK
<1>2. TypeOK /\ [Next]_vars => TypeOK'
  <2> SUFFICES ASSUME TypeOK, [Next]_vars PROVE TypeOK'
    OBVIOUS
  <2> USE DEF connVars, ioVars, clientVars, deviceVars, histVars
  <2>1. ASSUME NEW c \in Clients, NEW op \in Ops, Call(c, op) PROVE TypeOK'
    <3>1. ClientsOK'
      BY <2>1, ParamsAssumption, MessageType
         DEF Call, TypeOK, ClientsOK, ProgramCounters, Requests
    <3> QED
      BY <2>1, <3>1 DEF Call, TypeOK, ConnOK, IoOK, DeviceOK, HistoryOK
  <2>2. ASSUME NEW t \in Threads, OtherHandler(t) PROVE TypeOK'
    <3>1. CASE Resume(t) /\ UNCHANGED <<owner, result, timer, aborted, process, foreign>>
      <4>1. ClientsOK'
        BY <2>2, <3>1, ResumeType DEF OtherHandler, TypeOK, ClientsOK
      <4> QED
        BY <2>2, <3>1, <4>1 DEF OtherHandler, TypeOK, ConnOK, IoOK, DeviceOK, HistoryOK
    <3>2. CASE foreign' = foreign + 1 /\ Throw(t, Unknown)
      <4>1. ConnOK' /\ ClientsOK' /\ IoOK'
        BY <2>2, <3>2, MessageType, ThrowType
           DEF OtherHandler, TypeOK, ConnOK, ClientsOK, IoOK
      <4> QED
        BY <2>2, <4>1 DEF OtherHandler, TypeOK, DeviceOK, HistoryOK
    <3> QED
      BY <2>2, <3>1, <3>2 DEF OtherHandler
  <2>3. CASE DeviceAnswer
    <3>1. Head(toDevice) \in Requests /\ toDevice' \in Seq(Requests)
      BY <2>3 DEF DeviceAnswer, TypeOK, DeviceOK
    <3>2. Head(toDevice).id \in Nat
      BY <3>1 DEF Requests
    <3>3. toClient' \in Seq(Messages)
      <4>1. PICK k \in {"reply", "event", "error"} :
               toClient' = Append(toClient, Message(k, Head(toDevice).id, 0))
        BY <2>3 DEF DeviceAnswer
      <4>2. Message(k, Head(toDevice).id, 0) \in Messages
        BY <3>2, MessageType
      <4> QED
        BY <4>1, <4>2 DEF TypeOK, DeviceOK
    <3>4. DeviceOK' /\ HistoryOK'
      BY <2>3, <3>1, <3>2, <3>3 DEF DeviceAnswer, TypeOK, DeviceOK, HistoryOK
    <3> QED
      BY <2>3, <3>4 DEF DeviceAnswer, TypeOK, ConnOK, IoOK, ClientsOK
  <2>4. CASE DeviceEvent
    <3>1. DeviceOK'
      BY <2>4, MessageType DEF DeviceEvent, TypeOK, DeviceOK
    <3> QED
      BY <2>4, <3>1 DEF DeviceEvent, TypeOK, ConnOK, IoOK, ClientsOK, HistoryOK
  <2>5. CASE DeviceClose
    BY <2>5 DEF DeviceClose, TypeOK, ConnOK, IoOK, ClientsOK, DeviceOK, HistoryOK
  <2>6. CASE UNCHANGED vars
    BY <2>6 DEF vars, TypeOK, ConnOK, IoOK, ClientsOK, DeviceOK, HistoryOK
  <2> QED
    BY <2>1, <2>2, <2>3, <2>4, <2>5, <2>6, ClientStepType, HandlerType DEF Next, Finished
<1> QED
  BY <1>1, <1>2, PTL DEF Spec

=============================================================================
