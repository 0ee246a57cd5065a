-------------------------- MODULE PyRawStream_proofs --------------------------
(***************************************************************************)
(* Proofs about PyRawStream, for any number of messages, presses of CTRL-C *)
(* and calls of stop().                                                    *)
(***************************************************************************)
EXTENDS PyRawStream, SequenceTheorems, TLAPS

IsBytes(m) == m.kind \notin {"end", "error"}

(* What the device has sent: bytes, then the end or errors.  At most one   *)
(* message is the end, and only bytes come before it.                      *)
LogOK ==
    /\ server \in {"idle", "asked"} => log = <<>>
    /\ server = "idle" => requests = 0
    /\ pc = "none" <=> server = "idle"
    /\ server \in {"streaming", "ending"} => \A k \in DOMAIN log : IsBytes(log[k])
    /\ \A j, k \in DOMAIN log :
         j < k => /\ log[k].kind = "end" => IsBytes(log[j])
                  /\ IsBytes(log[k]) => IsBytes(log[j])

(* What was read is bytes or the end, and what of it was written so far:   *)
(* an open file has all the bytes that were read.                          *)
FileInv ==
    /\ read <= Len(log) /\ Len(written) <= read
    /\ \A k \in DOMAIN written : written[k] = log[k]
    /\ file = "open" => \A k \in DOMAIN log : k <= read /\ IsBytes(log[k]) => k <= Len(written)
    /\ file = "closed" /\ ~reset =>
           Len(written) < Len(log) /\ log[Len(written) + 1].kind = "end"
    /\ result = "interrupted" => file # "open"
    /\ pc = "none" => file = "none" /\ result = "none"

(* Where the bytes that were read have gone to. *)
RestInv ==
    /\ stops = 0 => rest = <<>>
    /\ sock => result # "bytes"
    /\ depth > 0 => stops > 0
    /\ depth > 0 /\ base = "stop" =>
           /\ Len(rest) <= read
           /\ \A k \in DOMAIN rest : rest[k] = log[read - Len(rest) + k]
    /\ ~reset /\ sock /\ stops <= 1 /\ (\A k \in 1 .. read : IsBytes(log[k])) =>
           Len(got) + Len(rest) = read
    /\ result = "bytes" /\ base = "stop" /\ ~reset =>
           /\ read > 0 /\ log[read].kind = "end" /\ Len(rest) < read
           /\ \A k \in DOMAIN rest : rest[k] = log[read - 1 - Len(rest) + k]
           /\ stops = 1 => Len(got) + Len(rest) = read - 1

(* A thread that receives has its socket. *)
SockInv == pc \in {"none", "subscribing", "recv"} => sock

IInv == TypeOK /\ SockInv /\ LogOK /\ FileInv /\ RestInv
-----------------------------------------------------------------------------
(* The log and what was sent last.                                         *)
LEMMA LogGrows ==
    ASSUME TypeOK, NEW ms \in Seq(Messages), DeviceStep(ms)
    PROVE  /\ log' \in Seq(Messages) /\ Len(log') = Len(log) + Len(ms)
           /\ DOMAIN log = 1 .. Len(log) /\ DOMAIN log' = 1 .. Len(log')
           /\ \A k \in 1 .. Len(log) : log'[k] = log[k]
           /\ \A k \in 1 .. Len(ms) : log'[Len(log) + k] = ms[k]
BY ConcatProperties, LenProperties DEF TypeOK, DeviceStep

(* What the device sends in its steps. *)
LEMMA DeviceSends ==
    ASSUME TypeOK, Device
    PROVE  \E ms \in Seq(Messages) :
             /\ DeviceStep(ms)
             /\ \/ ms = <<>>
                \/ Len(ms) = 1 /\ ms[1].kind \in {"chunk", "empty"}
                   /\ server \in {"streaming", "ending"}
                \/ Len(ms) = 1 /\ ms[1].kind = "error" /\ server \notin {"asked", "streaming", "ending"}
                   /\ requests > 0
                \/ Len(ms) = 2 /\ ms[1].kind = "footer" /\ ms[2].kind = "end"
                   /\ server \in {"streaming", "ending"} /\ server' = "ended"
<1>1. \A k \in Kinds : Msg(k) \in Messages /\ Msg(k).kind = k
  BY DEF Msg, Messages, TypeOK
<1>2. <<>> \in Seq(Messages)
  OBVIOUS
<1>3. \A k \in Kinds : <<Msg(k)>> \in Seq(Messages) /\ Len(<<Msg(k)>>) = 1
                      /\ <<Msg(k)>>[1].kind = k
  BY <1>1
<1>4. CASE DeviceSubscribe \/ DeviceReset
  BY <1>2, <1>4 DEF DeviceSubscribe, DeviceReset
<1>5. CASE DeviceSend
  BY <1>3, <1>5 DEF DeviceSend, Kinds
<1>6. CASE DeviceUnsubscribe
  <2>1. CASE DeviceStep(<<>>)
    BY <1>2, <2>1
  <2>2. CASE DeviceStep(<<Msg(IF server \in {"streaming", "ending"} THEN "empty" ELSE "error")>>)
    BY <1>3, <1>6, <2>2 DEF DeviceUnsubscribe, Kinds
  <2> QED
    BY <1>6, <2>1, <2>2 DEF DeviceUnsubscribe
<1>7. CASE DeviceEnd
  <2> DEFINE ms == <<Msg("footer"), [kind |-> "end", n |-> Len(log) + 2]>>
  <2>1. [kind |-> "end", n |-> Len(log) + 2] \in Messages
    BY DEF TypeOK, Messages, Kinds
  <2>2. ms \in Seq(Messages) /\ Len(ms) = 2 /\ ms[1].kind = "footer" /\ ms[2].kind = "end"
    BY <1>1, <2>1 DEF Kinds
  <2>3. DeviceStep(ms) /\ server \in {"streaming", "ending"} /\ server' = "ended"
    BY <1>7 DEF DeviceEnd
  <2> QED
    BY <2>2, <2>3
<1> QED
  BY <1>4, <1>5, <1>6, <1>7 DEF Device

(* The device leaves the client alone. *)
LEMMA DeviceLeaves ==
    ASSUME TypeOK, Device
    PROVE  /\ UNCHANGED <<flagVars, callVars, base, sock, file, dataVars, read, stops>>
           /\ server' \in {"idle", "asked", "refused", "streaming", "ending", "ended"}
           /\ requests' \in Nat /\ requests' <= requests /\ reset' \in BOOLEAN
           /\ reset => reset'
           /\ server' # server => server # "idle" /\ server' \notin {"idle", "asked"}
           /\ server' \in {"streaming", "ending"} => server \in {"asked", "streaming", "ending"}
<1>1. CASE DeviceSubscribe
  BY <1>1 DEF DeviceSubscribe, DeviceStep, TypeOK
<1>2. CASE DeviceSend
  BY <1>2 DEF DeviceSend, DeviceStep, TypeOK
<1>3. CASE DeviceUnsubscribe
  BY <1>3 DEF DeviceUnsubscribe, DeviceStep, TypeOK
<1>4. CASE DeviceEnd
  BY <1>4 DEF DeviceEnd, DeviceStep, TypeOK
<1>5. CASE DeviceReset
  BY <1>5 DEF DeviceReset, DeviceStep, TypeOK
<1> QED
  BY <1>1, <1>2, <1>3, <1>4, <1>5 DEF Device

(* The initial states. *)
LEMMA InitInv == Init => IInv
<1> SUFFICES ASSUME Init PROVE IInv
  OBVIOUS
<1>0. terminate \in BOOLEAN /\ sock \in BOOLEAN /\ reset \in BOOLEAN
  BY DEF Init
<1>1. TypeOK /\ SockInv
  BY <1>0 DEF Init, TypeOK, StackOK, SockInv
<1>2. LogOK
  BY DEF Init, LogOK
<1>3. FileInv
  BY DEF Init, FileInv
<1>4. RestInv
  BY DEF Init, RestInv
<1> QED
  BY <1>1, <1>2, <1>3, <1>4 DEF IInv

(* What ConnectionError leaves behind. *)
LEMMA RaisedType ==
    ASSUME TypeOK, ConnectionError
    PROVE  /\ pc' \in {"ready", "dead"} /\ depth' = 0
           /\ result' \in {"ended", "bytes", "interrupted"}
           /\ sock' \in BOOLEAN /\ file' \in {"none", "open", "closed"}
           /\ ~sock' => file' # "open"
           /\ sock' => sock
BY DEF TypeOK, StackOK, ConnectionError, End, FileAfterStop

(* Every step keeps the types and the shape of the stack. *)
LEMMA TypeStep ==
    ASSUME IInv, [Next]_vars PROVE TypeOK' /\ SockInv'
<1> USE DEF flagVars, callVars, dataVars, deviceVars
<1>1. CASE \E f \in {"none", "open"} : Construct(f)
  BY <1>1 DEF IInv, Construct, TypeOK, StackOK, SockInv
<1>2. CASE Subscribed
  BY <1>2 DEF IInv, Subscribed, TypeOK, StackOK, SockInv
<1>3. CASE SubscribeFails
  <2>1. CASE Unsubscribe
    BY <1>3, <2>1 DEF IInv, SubscribeFails, Unsubscribe, TypeOK, StackOK, SockInv
  <2>2. CASE reset /\ End("del", "failed") /\ UNCHANGED <<requests, stops>>
    BY <1>3, <2>2 DEF IInv, SubscribeFails, End, TypeOK, StackOK, SockInv
  <2> QED
    BY <1>3, <2>1, <2>2 DEF SubscribeFails
<1>4. CASE RecvBytes
  BY <1>4 DEF IInv, RecvBytes, TypeOK, StackOK, SockInv
<1>5. CASE Stop("stop") \/ Stop("del")
  <2> SUFFICES ASSUME NEW b \in {"stop", "del"}, Stop(b) PROVE TypeOK' /\ SockInv'
    BY <1>5
  <2>1. CASE sock /\ Unsubscribe
    BY <2>1 DEF IInv, Stop, Unsubscribe, TypeOK, StackOK, SockInv
  <2>2. CASE ~sock /\ End(b, "nothing") /\ UNCHANGED <<requests, stops>>
    BY <2>2 DEF IInv, Stop, End, TypeOK, StackOK, SockInv
  <2>3. CASE sock /\ reset /\ End(b, "failed") /\ UNCHANGED <<requests, stops>>
    BY <2>3 DEF IInv, Stop, End, TypeOK, StackOK, SockInv
  <2> QED
    BY <2>1, <2>2, <2>3 DEF Stop
<1>6. CASE Check
  BY <1>6 DEF IInv, Check, End, TypeOK, StackOK, SockInv
<1>7. CASE Caught
  <2>0. terminate' \in BOOLEAN
    BY <1>7 DEF Caught
  <2>1. CASE sock /\ Unsubscribe /\ UNCHANGED <<sock, file>>
    BY <1>7, <2>0, <2>1 DEF IInv, Caught, Unsubscribe, TypeOK, StackOK, SockInv
  <2>2. CASE ConnectionError /\ UNCHANGED <<requests, stops>>
    BY <1>7, <2>0, <2>2, RaisedType DEF IInv, Caught, TypeOK, StackOK, SockInv
  <2>3. CASE ~sock /\ End(base, "interrupted") /\ UNCHANGED <<requests, stops, sock, file>>
    BY <1>7, <2>0, <2>3 DEF IInv, Caught, End, TypeOK, StackOK, SockInv
  <2> QED
    BY <1>7, <2>1, <2>2, <2>3 DEF Caught
<1>8. CASE Receive
  <2> DEFINE m == log[read + 1]
  <2>0. m \in Messages /\ pc = "recv" /\ read' = read + 1
        /\ UNCHANGED <<flagVars, base, stops, deviceVars>>
    BY <1>8 DEF Receive, IInv, TypeOK
  <2>1. CASE ConnectionError /\ UNCHANGED dataVars
    BY <2>0, <2>1, RaisedType DEF IInv, TypeOK, StackOK, SockInv
  <2>2. CASE OtherError /\ UNCHANGED dataVars
    BY <2>0, <2>2 DEF OtherError, End, IInv, TypeOK, StackOK, SockInv
  <2>3. CASE Payload(m) /\ UNCHANGED <<file, sock>>
    <3>1. written' \in Seq(Messages) /\ got' \in Seq(Messages) /\ rest' \in Seq(Messages)
      <4>1. Append(written, m) \in Seq(Messages) /\ Append(got, m) \in Seq(Messages)
            /\ Append(rest, m) \in Seq(Messages)
        BY <2>0 DEF IInv, TypeOK
      <4> QED
        BY <2>3, <4>1 DEF Payload, Dumped, Accumulated, IInv, TypeOK
    <3> QED
      BY <2>0, <2>3, <3>1 DEF Payload, End, IInv, TypeOK, StackOK, SockInv
  <2> QED
    BY <1>8, <2>1, <2>2, <2>3 DEF Receive
<1>9. CASE RecvTimeout
  BY <1>9 DEF IInv, RecvTimeout, TimeoutError, OtherError, End, TypeOK, StackOK, SockInv
<1>10. CASE RecvReset
  BY <1>10, RaisedType DEF IInv, RecvReset, TypeOK, StackOK, SockInv
<1>11. CASE Interrupt
  BY <1>11 DEF IInv, Interrupt, TypeOK, StackOK, SockInv
<1>12. CASE OtherStream
  <2>1. terminate' \in BOOLEAN
    BY <1>12 DEF OtherStream
  <2> QED
    BY <1>12, <2>1 DEF IInv, OtherStream, TypeOK, StackOK, SockInv
<1>13. CASE Device
  <2>1. log' \in Seq(Messages)
    BY <1>13, DeviceSends, LogGrows DEF IInv
  <2> QED
    BY <1>13, <2>1, DeviceLeaves DEF IInv, TypeOK, StackOK, SockInv
<1>14. CASE UNCHANGED vars
  BY <1>14 DEF IInv, vars, TypeOK, StackOK, SockInv
<1> QED
  BY <1>1, <1>2, <1>3, <1>4, <1>5, <1>6, <1>7, <1>8, <1>9, <1>10, <1>11, <1>12, <1>13, <1>14 DEF Next, ClientStep, Call

(* Every step keeps the shape of the log.                                  *)
LEMMA LogStep ==
    ASSUME IInv, [Next]_vars PROVE LogOK'
<1> USE DEF flagVars, callVars, dataVars, deviceVars
<1>1. CASE \E f \in {"none", "open"} : Construct(f)
  BY <1>1 DEF IInv, Construct, LogOK
<1>2. CASE UNCHANGED <<server, log>> /\ (server = "idle" => requests' = requests)
           /\ (pc' = "none" <=> pc = "none")
  BY <1>2 DEF IInv, LogOK
<1>3. CASE ClientStep \/ RecvBytes \/ Stop("stop") \/ Stop("del") \/ Interrupt \/ OtherStream
  <2>1. (pc # "none" /\ pc' # "none") \/ (pc' = pc /\ UNCHANGED requests)
    <3>1. CASE Subscribed \/ SubscribeFails
      BY <3>1 DEF Subscribed, SubscribeFails, Unsubscribe, End
    <3>2. CASE RecvBytes
      BY <3>2 DEF RecvBytes
    <3>a. CASE Interrupt \/ OtherStream
      <4>1. UNCHANGED <<callVars, deviceVars>>
        BY <3>a, Zenon DEF Interrupt, OtherStream
      <4> QED
        BY <4>1
    <3>b. ASSUME NEW b, Stop(b) PROVE pc # "none" /\ pc' # "none"
      <4>1. CASE Unsubscribe
        BY <3>b, <4>1 DEF Stop, Unsubscribe
      <4>2. CASE End(b, "nothing") \/ End(b, "failed")
        BY <3>b, <4>2 DEF Stop, End
      <4> QED
        BY <3>b, <4>1, <4>2 DEF Stop
    <3>3. CASE Check \/ RecvTimeout
      BY <3>3 DEF Check, RecvTimeout, TimeoutError, OtherError, End
    <3>4. CASE Caught
      <4>1. pc' # "none"
        BY <3>4 DEF Caught, Unsubscribe, ConnectionError, End
      <4> QED
        BY <3>4, <4>1 DEF Caught
    <3>5. CASE Receive \/ RecvReset
      BY <3>5 DEF Receive, RecvReset, Payload, OtherError, ConnectionError, End
    <3> QED
      BY <1>3, <3>1, <3>2, <3>a, <3>b, <3>3, <3>4, <3>5 DEF ClientStep
  <2>2. UNCHANGED <<server, log>>
    BY <1>3 DEF ClientStep, Subscribed, SubscribeFails, RecvBytes, Stop, Check, Caught,
       Receive, RecvTimeout, RecvReset, Interrupt, OtherStream
  <2> QED
    BY <2>1, <2>2, <1>2 DEF IInv, LogOK
<1>4. CASE Device
  <2>1. PICK ms \in Seq(Messages) :
          /\ DeviceStep(ms)
          /\ \/ ms = <<>>
             \/ Len(ms) = 1 /\ ms[1].kind \in {"chunk", "empty"}
                /\ server \in {"streaming", "ending"}
             \/ Len(ms) = 1 /\ ms[1].kind = "error" /\ server \notin {"asked", "streaming", "ending"}
                /\ requests > 0
             \/ Len(ms) = 2 /\ ms[1].kind = "footer" /\ ms[2].kind = "end"
                /\ server \in {"streaming", "ending"} /\ server' = "ended"
    BY <1>4, DeviceSends DEF IInv
  <2>2. /\ log' \in Seq(Messages) /\ Len(log') = Len(log) + Len(ms)
        /\ DOMAIN log = 1 .. Len(log) /\ DOMAIN log' = 1 .. Len(log')
        /\ \A k \in 1 .. Len(log) : log'[k] = log[k]
        /\ \A k \in 1 .. Len(ms) : log'[Len(log) + k] = ms[k]
    BY <2>1, LogGrows DEF IInv
  <2>3. pc' = pc /\ (server' = "idle" <=> server = "idle") /\ (server' = "asked" => server = "asked")
        /\ requests' \in Nat /\ requests' <= requests /\ requests \in Nat
        /\ (server' \in {"streaming", "ending"} => server \in {"asked", "streaming", "ending"})
    BY <1>4, DeviceLeaves DEF IInv, TypeOK
  <2>4. Len(log) \in Nat
    BY DEF IInv, TypeOK
  <2>5. CASE ms = <<>>
    <3>1. log' = log
      BY <2>1, <2>5 DEF DeviceStep, IInv, TypeOK
    <3> QED
      BY <2>3, <3>1 DEF IInv, LogOK
  <2>6. CASE Len(ms) = 1 /\ ms[1].kind \in {"chunk", "empty"} /\ server \in {"streaming", "ending"}
    BY <2>2, <2>3, <2>4, <2>6 DEF IInv, LogOK, IsBytes
  <2>7. CASE Len(ms) = 1 /\ ms[1].kind = "error" /\ server \notin {"asked", "streaming", "ending"}
             /\ requests > 0
    BY <2>2, <2>3, <2>4, <2>7 DEF IInv, LogOK, IsBytes
  <2>8. CASE Len(ms) = 2 /\ ms[1].kind = "footer" /\ ms[2].kind = "end"
             /\ server \in {"streaming", "ending"} /\ server' = "ended"
    BY <2>2, <2>3, <2>4, <2>8 DEF IInv, LogOK, IsBytes
  <2> QED
    BY <2>1, <2>5, <2>6, <2>7, <2>8
<1>5. CASE UNCHANGED vars
  BY <1>2, <1>5 DEF vars
<1> QED
  BY <1>1, <1>3, <1>4, <1>5 DEF Next, Call

(* Steps that write nothing and close no file.                             *)
LEMMA FileKept ==
    ASSUME IInv, UNCHANGED <<file, written, read>>,
           /\ log' \in Seq(Messages) /\ Len(log) <= Len(log')
           /\ \A k \in DOMAIN log : log'[k] = log[k]
           /\ \A k \in DOMAIN log' : k <= read => k \in DOMAIN log,
           reset => reset',
           pc' # "none" \/ UNCHANGED result, pc' = "none" => pc = "none",
           result' = "interrupted" => result = "interrupted" \/ file # "open"
    PROVE  FileInv'
<1>1. /\ DOMAIN log = 1 .. Len(log) /\ DOMAIN log' = 1 .. Len(log')
      /\ DOMAIN written = 1 .. Len(written)
      /\ Len(log) \in Nat /\ Len(log') \in Nat /\ Len(written) \in Nat /\ read \in Nat
  BY DEF IInv, TypeOK
<1>2. Len(written) < Len(log) => log'[Len(written) + 1] = log[Len(written) + 1]
  BY <1>1
<1> QED
  BY <1>1, <1>2 DEF IInv, FileInv

(* An exception in a stop() that is the end of the stream, or a reset, may *)
(* close the file.                                                         *)
LEMMA FileRaised ==
    ASSUME IInv, ConnectionError, UNCHANGED <<written, log>>,
           reset => reset',
           \/ reset' /\ UNCHANGED read
           \/ read < Len(log) /\ read' = read + 1 /\ log[read + 1].kind = "end"
    PROVE  FileInv'
<1>1. /\ DOMAIN log = 1 .. Len(log) /\ DOMAIN written = 1 .. Len(written)
      /\ Len(log) \in Nat /\ Len(written) \in Nat /\ read \in Nat
  BY DEF IInv, TypeOK
<1>2. /\ pc' # "none" /\ file' \in {file, "closed"}
      /\ file' = "closed" => file \in {"open", "closed"}
      /\ result' = "interrupted" => file' # "open"
  BY DEF ConnectionError, End, FileAfterStop, IInv, TypeOK
<1>3. CASE reset' /\ UNCHANGED read
  BY <1>1, <1>2, <1>3 DEF IInv, FileInv
<1>4. CASE read < Len(log) /\ read' = read + 1 /\ log[read + 1].kind = "end"
  <2>1. \A k \in 1 .. read : IsBytes(log[k])
    BY <1>1, <1>4 DEF IInv, LogOK
  <2>2. file = "open" => Len(written) = read
    BY <1>1, <1>4, <2>1 DEF IInv, FileInv
  <2>3. file' = "open" => \A k \in DOMAIN log : k <= read' /\ IsBytes(log[k]) => k <= Len(written)
    <3> SUFFICES ASSUME file' = "open", NEW k \in DOMAIN log, k <= read', IsBytes(log[k])
                 PROVE  k <= Len(written)
      OBVIOUS
    <3>1. k # read + 1
      BY <1>4 DEF IsBytes
    <3>2. k <= read /\ file = "open"
      BY <1>1, <1>2, <1>4, <3>1
    <3> QED
      BY <2>2, <3>2
  <2>4. Len(written) <= read
    BY DEF IInv, FileInv
  <2>5. file' = "closed" /\ ~reset' =>
           Len(written) < Len(log) /\ log[Len(written) + 1].kind = "end"
    <3>1. CASE file = "open"
      BY <1>1, <1>4, <2>2, <3>1
    <3>2. CASE file = "closed"
      BY <3>2 DEF IInv, FileInv
    <3> QED
      BY <1>2, <3>1, <3>2
  <2> QED
    BY <1>1, <1>2, <1>4, <2>3, <2>4, <2>5 DEF IInv, FileInv
<1> QED
  BY <1>3, <1>4

(* Every step keeps what is written a prefix of what was read.             *)
LEMMA FileStep ==
    ASSUME IInv, [Next]_vars PROVE FileInv'
<1> USE DEF flagVars, callVars, dataVars, deviceVars
<1>t. /\ DOMAIN log = 1 .. Len(log) /\ DOMAIN written = 1 .. Len(written)
      /\ Len(log) \in Nat /\ Len(written) \in Nat /\ read \in Nat /\ log \in Seq(Messages)
  BY DEF IInv, TypeOK
<1>0. ASSUME UNCHANGED <<file, written, read, log>>, reset => reset',
             pc' # "none" \/ UNCHANGED result, pc' = "none" => pc = "none",
             result' = "interrupted" => result = "interrupted" \/ file # "open"
      PROVE  FileInv'
  BY <1>0, <1>t, FileKept
<1>1. CASE \E f \in {"none", "open"} : Construct(f)
  <2>1. log = <<>> /\ result = "none"
    BY <1>1 DEF Construct, IInv, LogOK, FileInv
  <2> QED
    BY <1>1, <1>t, <2>1 DEF Construct, IInv, FileInv
<1>2. CASE Subscribed
  BY <1>2, <1>0 DEF Subscribed
<1>3. CASE SubscribeFails
  BY <1>3, <1>0 DEF SubscribeFails, Unsubscribe, End
<1>4. CASE RecvBytes
  BY <1>4, <1>0 DEF RecvBytes
<1>5. ASSUME NEW b \in {"stop", "del"}, Stop(b) PROVE FileInv'
  <2>1. CASE Unsubscribe
    BY <1>5, <1>0, <2>1 DEF Stop, Unsubscribe
  <2>2. CASE End(b, "nothing") \/ End(b, "failed")
    BY <1>5, <1>0, <2>2 DEF Stop, End
  <2> QED
    BY <1>5, <2>1, <2>2 DEF Stop
<1>6. CASE Check
  BY <1>6, <1>0 DEF Check, End
<1>7. CASE Caught
  <2>1. UNCHANGED <<written, read, log, reset>>
    BY <1>7 DEF Caught
  <2>2. CASE sock /\ Unsubscribe /\ UNCHANGED <<sock, file>>
    BY <2>1, <2>2, <1>0 DEF Unsubscribe
  <2>3. CASE sock /\ reset /\ ConnectionError /\ UNCHANGED <<requests, stops>>
    BY <2>1, <2>3, FileRaised
  <2>4. CASE ~sock /\ End(base, "interrupted") /\ UNCHANGED <<requests, stops, sock, file>>
    <3>1. file # "open" /\ pc' # "none"
      BY <2>4 DEF IInv, TypeOK, StackOK, End
    <3> QED
      BY <2>1, <2>4, <3>1, <1>0
  <2> QED
    BY <1>7, <2>2, <2>3, <2>4 DEF Caught
<1>8. CASE Receive
  <2> DEFINE m == log[read + 1]
  <2>0. m \in Messages /\ pc = "recv" /\ read < Len(log) /\ read' = read + 1
        /\ UNCHANGED <<flagVars, base, stops, deviceVars>>
    BY <1>8, <1>t DEF Receive
  <2>1. CASE m.kind = "end" /\ ConnectionError /\ UNCHANGED dataVars
    BY <2>0, <2>1, FileRaised
  <2>2. CASE m.kind = "error" /\ OtherError /\ UNCHANGED dataVars
    <3>1. pc' # "none" /\ result' = "failed" /\ UNCHANGED <<file, written, log, reset>>
      BY <2>0, <2>2 DEF OtherError, End
    <3> QED
      BY <1>t, <2>0, <2>2, <3>1 DEF IInv, FileInv, IsBytes
  <2>3. CASE m.kind \notin {"end", "error"} /\ Payload(m) /\ UNCHANGED <<file, sock>>
    <3>1. pc' # "none" /\ (result' = "interrupted" => result = "interrupted")
      BY <2>3 DEF Payload, End
    <3>2. CASE file = "open"
      <4>1. Len(written) = read
        <5>1. read > 0 => IsBytes(log[read])
          BY <1>t, <2>0, <2>3 DEF IInv, LogOK, IsBytes
        <5> QED
          BY <1>t, <2>0, <3>2, <5>1 DEF IInv, FileInv
      <4>2. written' = Append(written, m)
        BY <2>3, <3>2 DEF Payload, Dumped
      <4>3. Len(written') = read + 1 /\ DOMAIN written' = 1 .. read + 1
            /\ \A k \in 1 .. read + 1 : written'[k] = log[k]
        BY SMTT(20), <1>t, <2>0, <4>1, <4>2 DEF IInv, TypeOK, FileInv
      <4> QED
        BY <1>t, <2>0, <2>3, <3>1, <3>2, <4>3 DEF IInv, FileInv
    <3>3. CASE file # "open"
      <4>1. UNCHANGED <<written, file>>
        BY <2>3, <3>3 DEF Payload
      <4> QED
        BY <1>t, <2>0, <3>1, <3>3, <4>1 DEF IInv, FileInv
    <3> QED
      BY <3>2, <3>3
  <2> QED
    BY <1>8, <2>1, <2>2, <2>3 DEF Receive
<1>9. CASE RecvTimeout
  BY <1>9, <1>0 DEF RecvTimeout, TimeoutError, OtherError, End
<1>10. CASE RecvReset
  BY <1>10, FileRaised DEF RecvReset
<1>11. CASE Interrupt \/ OtherStream
  <2>1. UNCHANGED <<callVars, file, dataVars, read, deviceVars>>
    BY <1>11, Zenon DEF Interrupt, OtherStream
  <2> QED
    BY <2>1, <1>0
<1>12. CASE Device
  <2>1. PICK ms \in Seq(Messages) : DeviceStep(ms)
    BY <1>12, DeviceSends DEF IInv
  <2>2. /\ log' \in Seq(Messages) /\ Len(log') = Len(log) + Len(ms)
        /\ \A k \in DOMAIN log : log'[k] = log[k]
    BY <2>1, <1>t, LogGrows DEF IInv
  <2>3. UNCHANGED <<callVars, file, dataVars, read>> /\ (reset => reset')
    BY <1>12, DeviceLeaves DEF IInv
  <2>4. read <= Len(log) /\ Len(ms) \in Nat /\ DOMAIN log' = 1 .. Len(log')
    BY <2>2 DEF IInv, FileInv
  <2> QED
    BY <1>t, <2>2, <2>3, <2>4, FileKept
<1>13. CASE UNCHANGED vars
  BY <1>13, <1>0 DEF vars
<1> QED
  BY <1>1, <1>2, <1>3, <1>4, <1>5, <1>6, <1>7, <1>8, <1>9, <1>10, <1>11, <1>12, <1>13
     DEF Next, ClientStep, Call

(* Steps that hand out no bytes.                                           *)
LEMMA RestKept ==
    ASSUME IInv, UNCHANGED <<got, rest, read>>,
           log' \in Seq(Messages), Len(log) <= Len(log'),
           \A k \in DOMAIN log : log'[k] = log[k],
           stops' \in Nat, stops <= stops', depth' > 0 => stops' > 0, reset => reset',
           sock' => sock /\ result' # "bytes",
           depth' > 0 /\ base' = "stop" => depth > 0 /\ base = "stop",
           result' = "bytes" /\ base' = "stop" /\ ~reset' =>
               result = "bytes" /\ base = "stop" /\ ~reset /\ stops' = stops
    PROVE  RestInv'
<1>t. /\ DOMAIN log = 1 .. Len(log) /\ DOMAIN log' = 1 .. Len(log') /\ DOMAIN rest = 1 .. Len(rest)
      /\ Len(log) \in Nat /\ Len(log') \in Nat /\ Len(rest) \in Nat /\ Len(got) \in Nat
      /\ read \in Nat /\ stops \in Nat /\ read <= Len(log)
  BY DEF IInv, TypeOK, FileInv
<1>1. (stops' = 0 => rest = <<>>) /\ (sock' => result' # "bytes") /\ (depth' > 0 => stops' > 0)
  BY <1>t DEF IInv, RestInv
<1>2. depth' > 0 /\ base' = "stop" =>
          Len(rest) <= read /\ \A k \in DOMAIN rest : rest[k] = log'[read - Len(rest) + k]
  BY <1>t DEF IInv, RestInv
<1>3. ~reset' /\ sock' /\ stops' <= 1 /\ (\A k \in 1 .. read : IsBytes(log'[k])) =>
          Len(got) + Len(rest) = read
  <2> SUFFICES ASSUME ~reset', sock', stops' <= 1, \A k \in 1 .. read : IsBytes(log'[k])
               PROVE  Len(got) + Len(rest) = read
    OBVIOUS
  <2>1. \A k \in 1 .. read : IsBytes(log[k])
    BY <1>t
  <2> QED
    BY <1>t, <2>1 DEF IInv, RestInv
<1>4. result' = "bytes" /\ base' = "stop" /\ ~reset' =>
           /\ read > 0 /\ log'[read].kind = "end" /\ Len(rest) < read
           /\ \A k \in DOMAIN rest : rest[k] = log'[read - 1 - Len(rest) + k]
           /\ stops' = 1 => Len(got) + Len(rest) = read - 1
  BY <1>t DEF IInv, RestInv
<1> QED
  BY <1>1, <1>2, <1>3, <1>4 DEF RestInv

(* stop() has received the end of the stream.                              *)
LEMMA RestEnds ==
    ASSUME IInv, ConnectionError, UNCHANGED <<base, got, rest, stops, log, reset>>,
           read < Len(log), read' = read + 1, log[read + 1].kind = "end", sock
    PROVE  RestInv'
<1>t. /\ DOMAIN log = 1 .. Len(log) /\ DOMAIN rest = 1 .. Len(rest)
      /\ Len(log) \in Nat /\ Len(rest) \in Nat /\ Len(got) \in Nat
      /\ read \in Nat /\ stops \in Nat /\ depth \in Nat
  BY DEF IInv, TypeOK
<1>1. /\ depth' = 0 /\ result' \in {"ended", "bytes", "interrupted"}
      /\ sock' => result' = "ended"
      /\ result' = "bytes" => depth = 1
  BY <1>t DEF ConnectionError, End
<1>2. ~ \A k \in 1 .. read + 1 : IsBytes(log[k])
  BY <1>t DEF IsBytes
<1>3. \A k \in 1 .. read : IsBytes(log[k])
  BY <1>t DEF IInv, LogOK
<1>4. result' = "bytes" /\ base = "stop" /\ ~reset =>
           /\ Len(rest) < read + 1
           /\ \A k \in DOMAIN rest : rest[k] = log[read - Len(rest) + k]
           /\ stops = 1 => Len(got) + Len(rest) = read
  BY <1>t, <1>1, <1>3 DEF IInv, RestInv
<1> QED
  BY <1>t, <1>1, <1>2, <1>4 DEF IInv, RestInv

(* recv_bytes() has received bytes, for the application or for stop().     *)
LEMMA RestReceives ==
    ASSUME IInv, NEW m \in Messages, Payload(m),
           UNCHANGED <<base, stops, sock, log, reset>>,
           read < Len(log), read' = read + 1, m = log[read + 1], sock
    PROVE  RestInv'
<1>t. /\ DOMAIN log = 1 .. Len(log) /\ DOMAIN rest = 1 .. Len(rest)
      /\ Len(log) \in Nat /\ Len(rest) \in Nat /\ Len(got) \in Nat
      /\ read \in Nat /\ stops \in Nat /\ depth \in Nat
      /\ got \in Seq(Messages) /\ rest \in Seq(Messages)
  BY DEF IInv, TypeOK
<1>1. CASE depth = 0
  <2>1. /\ got' = Append(got, m) /\ rest' = rest /\ depth' = 0 /\ result' = "chunk"
    BY <1>1 DEF Payload, End
  <2>2. Len(got') = Len(got) + 1
    BY <1>t, <2>1
  <2>3. (\A k \in 1 .. read + 1 : IsBytes(log[k])) => \A k \in 1 .. read : IsBytes(log[k])
    BY <1>t
  <2>4. ~reset /\ sock /\ stops <= 1 /\ (\A k \in 1 .. read + 1 : IsBytes(log[k])) =>
           Len(got') + Len(rest) = read + 1
    BY <1>t, <2>2, <2>3 DEF IInv, RestInv
  <2>5. stops = 0 => rest = <<>>
    BY DEF IInv, RestInv
  <2> QED
    BY <1>t, <2>1, <2>4, <2>5 DEF RestInv
<1>2. CASE depth # 0
  <2>1. /\ got' = got /\ rest' = Append(rest, m) /\ depth' = depth /\ result' = result
    BY <1>2 DEF Payload, Accumulated
  <2>2. /\ Len(rest') = Len(rest) + 1 /\ DOMAIN rest' = 1 .. Len(rest) + 1
        /\ rest'[Len(rest) + 1] = m
        /\ \A k \in 1 .. Len(rest) : rest'[k] = rest[k]
    BY <1>t, <2>1
  <2>3. (\A k \in 1 .. read + 1 : IsBytes(log[k])) => \A k \in 1 .. read : IsBytes(log[k])
    BY <1>t
  <2>4. stops > 0 /\ result # "bytes"
    BY <1>t, <1>2 DEF IInv, RestInv
  <2>5. base = "stop" =>
           /\ Len(rest') <= read + 1
           /\ \A k \in DOMAIN rest' : rest'[k] = log[read + 1 - Len(rest') + k]
    BY SMTT(20), <1>t, <1>2, <2>2 DEF IInv, RestInv
  <2>6. ~reset /\ sock /\ stops <= 1 /\ (\A k \in 1 .. read + 1 : IsBytes(log[k])) =>
           Len(got) + Len(rest') = read + 1
    BY <1>t, <2>2, <2>3 DEF IInv, RestInv
  <2> QED
    BY <2>1, <2>4, <2>5, <2>6, <1>t DEF RestInv
<1> QED
  BY <1>1, <1>2

(* Every step keeps account of the bytes that were read.                   *)
LEMMA RestStep ==
    ASSUME IInv, [Next]_vars PROVE RestInv'
<1> USE DEF flagVars, callVars, dataVars, deviceVars
<1>t. /\ DOMAIN log = 1 .. Len(log) /\ Len(log) \in Nat /\ log \in Seq(Messages)
      /\ read \in Nat /\ stops \in Nat /\ depth \in Nat
  BY DEF IInv, TypeOK
<1>i. (sock => result # "bytes") /\ (depth > 0 => stops > 0)
  BY DEF IInv, RestInv
<1>0. ASSUME UNCHANGED <<got, rest, read, log, stops>>,
             sock' => sock /\ result' # "bytes",
             depth' > 0 => depth > 0, base' = "stop" => base = "stop", reset => reset',
             result' = "bytes" /\ ~reset' => result = "bytes" /\ ~reset
      PROVE  RestInv'
  BY <1>0, <1>t, <1>i, RestKept
<1>1. CASE \E f \in {"none", "open"} : Construct(f)
  BY <1>1, <1>0, <1>i DEF Construct
<1>2. CASE Subscribed
  BY <1>2, <1>0, <1>i DEF Subscribed
<1>3. CASE SubscribeFails
  <2>1. /\ UNCHANGED <<got, rest, read, log, sock, reset>> /\ base' = "del"
        /\ \/ stops' = stops + 1 /\ result' = result
           \/ stops' = stops /\ result' = "failed" /\ depth' = 0
    BY <1>3 DEF SubscribeFails, Unsubscribe, End
  <2> QED
    BY <2>1, <1>t, <1>i, RestKept
<1>4. CASE RecvBytes
  BY <1>4, <1>0, <1>i DEF RecvBytes
<1>5. ASSUME NEW b \in {"stop", "del"}, Stop(b) PROVE RestInv'
  <2>0. rest' = <<>> /\ UNCHANGED <<got, read, log, sock, reset>> /\ depth = 0
    BY <1>5 DEF Stop, IInv, TypeOK, StackOK
  <2>1. CASE sock /\ Unsubscribe
    <3>1. stops' = stops + 1 /\ depth' = 1 /\ result' = result
      BY <2>0, <2>1 DEF Unsubscribe
    <3>2. stops' <= 1 => rest' = rest
      BY <1>t, <2>0, <3>1 DEF IInv, RestInv
    <3>3. ~reset /\ stops' <= 1 /\ (\A k \in 1 .. read : IsBytes(log[k])) =>
              Len(got) + Len(rest) = read
      BY <1>t, <2>1, <3>1 DEF IInv, RestInv
    <3> QED
      BY <1>t, <1>i, <2>0, <2>1, <3>1, <3>2, <3>3 DEF RestInv
  <2>2. CASE ~sock /\ End(b, "nothing") /\ UNCHANGED <<requests, stops>>
    <3>1. result' = "nothing" /\ depth' = 0 /\ stops' = stops
      BY <2>2 DEF End
    <3> QED
      BY <1>t, <2>0, <2>2, <3>1 DEF RestInv
  <2>3. CASE sock /\ reset /\ End(b, "failed") /\ UNCHANGED <<requests, stops>>
    <3>1. result' = "failed" /\ depth' = 0 /\ stops' = stops
      BY <2>3 DEF End
    <3> QED
      BY <1>t, <2>0, <2>3, <3>1 DEF RestInv
  <2> QED
    BY <1>5, <2>1, <2>2, <2>3 DEF Stop
<1>6. CASE Check
  <2>1. UNCHANGED <<got, rest, read, log, stops, sock, base, reset>>
    BY <1>6 DEF Check
  <2>2. CASE UNCHANGED <<depth, result>>
    BY <1>0, <1>i, <2>1, <2>2
  <2>3. CASE End(base, "failed")
    <3>1. depth' = 0 /\ result' = "failed"
      BY <2>3 DEF End
    <3> QED
      BY <1>0, <2>1, <3>1
  <2> QED
    BY <1>6, <2>2, <2>3 DEF Check
<1>7. ASSUME ConnectionError, UNCHANGED <<got, rest, read, log, stops, base>>, reset'
      PROVE  RestInv'
  <2>1. depth' = 0 /\ (sock' => sock /\ result' = "ended")
    BY <1>7, <1>t DEF ConnectionError, End
  <2> QED
    BY <1>7, <1>0, <2>1
<1>8. CASE Caught
  <2>1. UNCHANGED <<got, rest, read, log, base, reset>> /\ pc = "caught"
    BY <1>8 DEF Caught
  <2>2. CASE sock /\ Unsubscribe /\ UNCHANGED <<sock, file>>
    <3>1. base = "stop" => depth > 0
      BY <2>1 DEF IInv, TypeOK, StackOK
    <3>2. stops' = stops + 1 /\ result' = result
      BY <2>2 DEF Unsubscribe
    <3> QED
      BY <1>t, <1>i, <2>1, <2>2, <3>1, <3>2, RestKept
  <2>3. CASE sock /\ reset /\ ConnectionError /\ UNCHANGED <<requests, stops>>
    BY <1>7, <2>1, <2>3
  <2>4. CASE ~sock /\ End(base, "interrupted") /\ UNCHANGED <<requests, stops, sock, file>>
    <3>1. depth' = 0 /\ result' = "interrupted"
      BY <2>4 DEF End
    <3> QED
      BY <1>0, <2>1, <2>4, <3>1
  <2> QED
    BY <1>8, <2>2, <2>3, <2>4 DEF Caught
<1>9. CASE Receive
  <2> DEFINE m == log[read + 1]
  <2>0. m \in Messages /\ read < Len(log) /\ read' = read + 1 /\ sock
        /\ UNCHANGED <<base, stops, deviceVars>>
    BY <1>9, <1>t DEF Receive, IInv, SockInv
  <2>1. CASE m.kind = "end" /\ ConnectionError /\ UNCHANGED dataVars
    BY <2>0, <2>1, RestEnds
  <2>2. CASE m.kind = "error" /\ OtherError /\ UNCHANGED dataVars
    <3>1. depth' = 0 /\ result' = "failed" /\ ~IsBytes(log[read + 1])
      BY <2>2 DEF OtherError, End, IsBytes
    <3> QED
      BY <1>t, <2>0, <2>2, <3>1 DEF IInv, RestInv
  <2>3. CASE Payload(m) /\ UNCHANGED <<file, sock>>
    BY <2>0, <2>3, RestReceives
  <2> QED
    BY <1>9, <2>1, <2>2, <2>3 DEF Receive
<1>10. CASE RecvTimeout
  <2>1. depth' = 0 /\ result' = "failed" /\ UNCHANGED <<got, rest, read, log, stops, sock, base, reset>>
    BY <1>10 DEF RecvTimeout, TimeoutError, OtherError, End
  <2> QED
    BY <1>0, <2>1
<1>11. CASE RecvReset
  BY <1>11, <1>7 DEF RecvReset
<1>12. CASE Interrupt \/ OtherStream
  <2>1. UNCHANGED <<callVars, base, sock, dataVars, read, stops, deviceVars>>
    BY <1>12, Zenon DEF Interrupt, OtherStream
  <2> QED
    BY <2>1, <1>0, <1>i
<1>13. CASE Device
  <2>1. PICK ms \in Seq(Messages) : DeviceStep(ms)
    BY <1>13, DeviceSends DEF IInv
  <2>2. /\ log' \in Seq(Messages) /\ Len(log') = Len(log) + Len(ms)
        /\ \A k \in DOMAIN log : log'[k] = log[k]
    BY <2>1, <1>t, LogGrows DEF IInv
  <2>3. UNCHANGED <<callVars, base, sock, dataVars, read, stops>> /\ (reset => reset')
    BY <1>13, DeviceLeaves DEF IInv
  <2>4. Len(log) <= Len(log')
    BY <1>t, <2>2
  <2> QED
    BY <1>t, <1>i, <2>2, <2>3, <2>4, RestKept
<1>14. CASE UNCHANGED vars
  BY <1>14, <1>0, <1>i DEF vars
<1> QED
  BY <1>1, <1>2, <1>3, <1>4, <1>5, <1>6, <1>8, <1>9, <1>10, <1>11, <1>12, <1>13, <1>14
     DEF Next, ClientStep, Call
-----------------------------------------------------------------------------
(* The inductive invariant.                                                *)
LEMMA Invariant == Spec => []IInv
<1>1. Init => IInv
  BY InitInv
<1>2. IInv /\ [Next]_vars => IInv'
  BY TypeStep, LogStep, FileStep, RestStep DEF IInv
<1> QED
  BY <1>1, <1>2, PTL DEF Spec

(* A sequence is the prefix of another that has its elements.              *)
LEMMA IsPrefixOf ==
    ASSUME NEW s \in Seq(Messages), NEW t \in Seq(Messages), NEW i \in Nat,
           i + Len(s) <= Len(t), \A k \in DOMAIN s : s[k] = t[i + k]
    PROVE  s = SubSeq(t, i + 1, i + Len(s))
<1> DEFINE n == Len(s)  u == SubSeq(t, i + 1, i + n)
<1>1. n \in Nat /\ Len(t) \in Nat /\ DOMAIN s = 1 .. n
      /\ \A k \in i + 1 .. i + n : t[k] \in Messages
  BY ElementOfSeq, LenProperties
<1>2. u \in Seq(Messages) /\ Len(u) = n /\ \A k \in 1 .. n : u[k] = t[i + k]
  <2>1. /\ u \in Seq(Messages)
        /\ Len(u) = IF i + 1 <= i + n THEN i + n - (i + 1) + 1 ELSE 0
        /\ \A k \in 1 .. i + n - (i + 1) + 1 : u[k] = t[i + 1 + k - 1]
    BY <1>1, SubSeqProperties
  <2> QED
    BY <1>1, <2>1
<1> QED
  BY <1>1, <1>2, SeqEqual

(* No step of a stream writes a value that other code does not understand, *)
(* and the calls of stop() on the stack are those of a call in progress,   *)
(* however often CTRL-C is pressed.                                        *)
THEOREM TypeCorrect == Spec => []TypeOK
<1>1. IInv => TypeOK
  BY DEF IInv
<1> QED
  BY <1>1, Invariant, PTL

(* The file of a raw stream has the bytes of the device in their order,    *)
(* whatever calls received them.                                           *)
THEOREM FileCorrect == Spec => []FileIsPrefix
<1>1. IInv => FileIsPrefix
  <2> SUFFICES ASSUME IInv PROVE FileIsPrefix
    OBVIOUS
  <2>1. written \in Seq(Messages) /\ log \in Seq(Messages) /\ read \in Nat
        /\ Len(written) \in Nat /\ Len(log) \in Nat
    BY DEF IInv, TypeOK
  <2>2. Len(written) <= read /\ read <= Len(log) /\ \A k \in DOMAIN written : written[k] = log[k]
    BY DEF IInv, FileInv
  <2>3. written = SubSeq(log, 0 + 1, 0 + Len(written))
    BY <2>1, <2>2, IsPrefixOf, LenProperties
  <2> QED
    BY <2>1, <2>2, <2>3 DEF FileIsPrefix
<1> QED
  BY <1>1, Invariant, PTL

(* A file that stop() has closed, called by the application, by __del__ or *)
(* by recv_bytes() after CTRL-C, is complete unless the connection was     *)
(* reset.                                                                  *)
THEOREM StopIsGraceful == Spec => []GracefulStop
<1>1. IInv => GracefulStop
  BY DEF IInv, FileInv, GracefulStop
<1> QED
  BY <1>1, Invariant, PTL

(* stop() returns exactly the bytes that recv_bytes() has left.            *)
THEOREM RestIsReturned == Spec => []StopReturnsRest
<1>1. IInv => StopReturnsRest
  <2> SUFFICES ASSUME IInv, result = "bytes", base = "stop", ~reset
               PROVE  /\ log[read].kind = "end"
                      /\ rest = SubSeq(log, read - Len(rest), read - 1)
                      /\ stops = 1 => Len(got) + Len(rest) = read - 1
    BY DEF StopReturnsRest
  <2>1. rest \in Seq(Messages) /\ log \in Seq(Messages) /\ read \in Nat
        /\ Len(rest) \in Nat /\ Len(log) \in Nat /\ read <= Len(log) /\ DOMAIN rest = 1 .. Len(rest)
    BY DEF IInv, TypeOK, FileInv
  <2>2. /\ log[read].kind = "end" /\ Len(rest) < read
        /\ \A k \in DOMAIN rest : rest[k] = log[read - 1 - Len(rest) + k]
        /\ stops = 1 => Len(got) + Len(rest) = read - 1
    BY DEF IInv, RestInv
  <2> DEFINE i == read - 1 - Len(rest)
  <2>3. i \in Nat /\ i + Len(rest) = read - 1 /\ i + 1 = read - Len(rest)
    BY <2>1, <2>2
  <2>4. i + Len(rest) <= Len(log) /\ \A k \in DOMAIN rest : rest[k] = log[i + k]
    BY <2>1, <2>2
  <2> HIDE DEF i
  <2>5. rest = SubSeq(log, i + 1, i + Len(rest))
    BY <2>1, <2>3, <2>4, IsPrefixOf
  <2> QED
    BY <2>2, <2>3, <2>5
<1> QED
  BY <1>1, Invariant, PTL
=============================================================================
