-------------------------- MODULE PyConnection_proofs --------------------------
(***************************************************************************)
(* Proofs about PyConnection, for any send buffer, any number of calls and *)
(* events, and any pieces in which the parts arrive: nothing is skipped,   *)
(* and the connection implements RequestChannel.                           *)
(***************************************************************************)
EXTENDS PyConnection, SequenceTheorems, TLAPS

(* Parts that the client has taken from the TCP stream. *)
Consumed == 4 * Len(sent) - Len(toClient)

(* What is still in the stream is the end of all that was sent. *)
WireOK ==
    /\ \A k \in DOMAIN sent : sent[k].kind \in {"reply", "event", "error", "frame"}
    /\ Len(toClient) <= 4 * Len(sent)
    /\ \A j \in DOMAIN toClient, k \in DOMAIN sent, p \in 1 .. 4 :
         Consumed + j = 4 * (k - 1) + p => toClient[j] = Part(sent[k], p)

(* The client is in the message after those that it has returned: base     *)
(* parts of it, and then data, were taken.                                 *)
Within(base) ==
    /\ need = 2
    /\ Consumed = 4 * Len(returned) + base + Len(data)
    /\ \A j \in DOMAIN data : data[j] = Part(sent[Len(returned) + 1], base + j)

InStep == CASE pc = "length" -> Within(0)
            [] pc = "body"   -> Within(2)
            [] OTHER         -> Consumed = 4 * Len(returned)

Framing ==
    ~lostParts =>
        /\ Len(returned) <= Len(sent)
        /\ \A k \in DOMAIN returned : returned[k] = sent[k]
        /\ InStep

IInv == TypeOK /\ WireOK /\ Framing
-----------------------------------------------------------------------------
LEMMA TwoAndTwo ==
    ASSUME NEW S, NEW s \in Seq(S), NEW t \in Seq(S), Len(s) = 2, Len(t) = 2
    PROVE  /\ s \o t \in Seq(S) /\ Len(s \o t) = 4
           /\ (s \o t)[1] = s[1] /\ (s \o t)[2] = s[2]
           /\ (s \o t)[3] = t[1] /\ (s \o t)[4] = t[2]
<1> DEFINE c == s \o t
<1>1. /\ c \in Seq(S) /\ Len(c) = Len(s) + Len(t)
      /\ \A i \in 1 .. Len(s) + Len(t) :
            c[i] = IF i <= Len(s) THEN s[i] ELSE t[i - Len(s)]
  BY ConcatProperties, Zenon
<1> HIDE DEF c
<1>2. c \in Seq(S) /\ Len(c) = 4 /\ c[1] = s[1] /\ c[2] = s[2] /\ c[3] = t[1] /\ c[4] = t[2]
  BY <1>1
<1> QED
  BY <1>2 DEF c

LEMMA Joined ==
    ASSUME NEW S, NEW s \in Seq(S), NEW t \in Seq(S)
    PROVE  /\ s \o t \in Seq(S) /\ Len(s \o t) = Len(s) + Len(t)
           /\ \A i \in 1 .. Len(s) + Len(t) :
                (s \o t)[i] = IF i <= Len(s) THEN s[i] ELSE t[i - Len(s)]
BY ConcatProperties, Zenon

LEMMA Taken ==
    ASSUME NEW S, NEW s \in Seq(S), NEW k \in 0 .. Len(s)
    PROVE  /\ SubSeq(s, 1, k) \in Seq(S) /\ Len(SubSeq(s, 1, k)) = k
           /\ \A i \in 1 .. k : SubSeq(s, 1, k)[i] = s[i]
           /\ SubSeq(s, k + 1, Len(s)) \in Seq(S)
           /\ Len(SubSeq(s, k + 1, Len(s))) = Len(s) - k
           /\ \A i \in 1 .. Len(s) - k : SubSeq(s, k + 1, Len(s))[i] = s[k + i]
<1>1. Len(s) \in Nat /\ k \in Int /\ Len(s) \in Int /\ 1 \in Int /\ k + 1 \in Int
  OBVIOUS
<1>2. \A i \in 1 .. k : s[i] \in S
  OBVIOUS
<1>3. \A i \in k + 1 .. Len(s) : s[i] \in S
  OBVIOUS
<1>4. /\ SubSeq(s, 1, k) \in Seq(S)
      /\ Len(SubSeq(s, 1, k)) = IF 1 <= k THEN k - 1 + 1 ELSE 0
      /\ \A i \in 1 .. k - 1 + 1 : SubSeq(s, 1, k)[i] = s[1 + i - 1]
  BY <1>1, <1>2
<1>5. /\ SubSeq(s, k + 1, Len(s)) \in Seq(S)
      /\ Len(SubSeq(s, k + 1, Len(s))) =
           IF k + 1 <= Len(s) THEN Len(s) - (k + 1) + 1 ELSE 0
      /\ \A i \in 1 .. Len(s) - (k + 1) + 1 :
           SubSeq(s, k + 1, Len(s))[i] = s[(k + 1) + i - 1]
  BY <1>1, <1>3
<1>6. \A i \in 1 .. k : 1 + i - 1 = i
  BY <1>1
<1>7. \A i \in 1 .. Len(s) - k : (k + 1) + i - 1 = k + i
  BY <1>1
<1>8. k - 1 + 1 = k /\ Len(s) - (k + 1) + 1 = Len(s) - k
  BY <1>1
<1>9. /\ Len(SubSeq(s, 1, k)) = k
      /\ Len(SubSeq(s, k + 1, Len(s))) = Len(s) - k
  BY <1>1, <1>4, <1>5
<1> QED
  BY <1>4, <1>5, <1>6, <1>7, <1>8, <1>9, Zenon

LEMMA PartsOK ==
    ASSUME NEW m \in Messages
    PROVE  /\ Prefix(m) \in Seq(Parts) /\ Body(m) \in Seq(Parts) /\ Wire(m) \in Seq(Parts)
           /\ Len(Prefix(m)) = 2 /\ Len(Body(m)) = 2 /\ Len(Wire(m)) = 4
           /\ \A p \in 1 .. 4 : Wire(m)[p] = Part(m, p)
<1>1. \A p \in 1 .. 4 : Part(m, p) \in Parts
  BY DEF Part, Parts, PrefixParts, BodyParts
<1>2. /\ Prefix(m) \in Seq(Parts) /\ Len(Prefix(m)) = 2
      /\ Prefix(m)[1] = Part(m, 1) /\ Prefix(m)[2] = Part(m, 2)
  BY <1>1 DEF Prefix
<1>3. /\ Body(m) \in Seq(Parts) /\ Len(Body(m)) = 2
      /\ Body(m)[1] = Part(m, 3) /\ Body(m)[2] = Part(m, 4)
  BY <1>1 DEF Body
<1>4. /\ Wire(m) \in Seq(Parts) /\ Len(Wire(m)) = 4
      /\ Wire(m)[1] = Part(m, 1) /\ Wire(m)[2] = Part(m, 2)
      /\ Wire(m)[3] = Part(m, 3) /\ Wire(m)[4] = Part(m, 4)
  BY <1>2, <1>3, TwoAndTwo DEF Wire
<1> QED
  BY <1>2, <1>3, <1>4

LEMMA ConstantsOK ==
    NoMessage \in Messages /\ Garbage \in Messages /\ Failure \in Messages
BY DEF NoMessage, Garbage, Failure, Message, Messages, Kinds

LEMMA InitInv == Init => IInv
<1> SUFFICES ASSUME Init PROVE IInv
  OBVIOUS
<1>1. TypeOK
  <2>1. call \in Messages /\ result \in Messages /\ answered \subseteq Nat
    BY ConstantsOK DEF Init, Message, NoMessage
  <2>2. \A S : <<>> \in Seq(S)
    OBVIOUS
  <2>3. need \in 0 .. BodyParts + 1 /\ Len(data) <= need
    BY DEF Init, BodyParts
  <2> QED
    BY <2>1, <2>2, <2>3 DEF Init, TypeOK
<1>2. WireOK
  BY DEF Init, WireOK, Consumed
<1>3. Framing
  BY DEF Init, Framing, InStep, Consumed
<1> QED
  BY <1>1, <1>2, <1>3 DEF IInv

(* A sent message starts no earlier than the last one. *)
LEMMA SendOK ==
    ASSUME TypeOK, WireOK, NEW m \in Messages, DeviceSend(m),
           m.kind \in {"reply", "event", "error", "frame"}
    PROVE  /\ toClient' \in Seq(Parts) /\ sent' \in Seq(Messages)
           /\ WireOK' /\ Consumed' = Consumed
           /\ Len(sent') = Len(sent) + 1
           /\ \A k \in DOMAIN sent : sent'[k] = sent[k]
<1>1. /\ toClient \in Seq(Parts) /\ sent \in Seq(Messages)
      /\ Len(toClient) \in Nat /\ Len(sent) \in Nat
      /\ DOMAIN toClient = 1 .. Len(toClient) /\ DOMAIN sent = 1 .. Len(sent)
  BY DEF TypeOK
<1>2. /\ toClient' \in Seq(Parts) /\ Len(toClient') = Len(toClient) + 4
      /\ \A j \in 1 .. Len(toClient) : toClient'[j] = toClient[j]
      /\ \A p \in 1 .. 4 : toClient'[Len(toClient) + p] = Part(m, p)
  <2> DEFINE w == Wire(m)
  <2>1. toClient' = toClient \o w
    BY DEF DeviceSend
  <2>2. w \in Seq(Parts) /\ Len(w) = 4 /\ \A p \in 1 .. 4 : w[p] = Part(m, p)
    BY PartsOK
  <2> HIDE DEF w
  <2>3. /\ toClient \o w \in Seq(Parts) /\ Len(toClient \o w) = Len(toClient) + Len(w)
        /\ \A i \in 1 .. Len(toClient) + Len(w) :
              (toClient \o w)[i] = IF i <= Len(toClient) THEN toClient[i]
                                  ELSE w[i - Len(toClient)]
    BY <1>1, <2>2, ConcatProperties, Zenon
  <2>4. \A i \in 1 .. Len(toClient) + 4 :
          toClient'[i] = IF i <= Len(toClient) THEN toClient[i] ELSE w[i - Len(toClient)]
    BY <2>1, <2>2, <2>3, Zenon
  <2>5. toClient' \in Seq(Parts) /\ Len(toClient') = Len(toClient) + 4
    BY <2>1, <2>2, <2>3, Zenon
  <2>6. \A j \in 1 .. Len(toClient) : toClient'[j] = toClient[j]
    BY <1>1, <2>4
  <2>7. ASSUME NEW p \in 1 .. 4 PROVE toClient'[Len(toClient) + p] = Part(m, p)
    <3>1. toClient'[Len(toClient) + p] = w[Len(toClient) + p - Len(toClient)]
      BY <1>1, <2>4
    <3>2. Len(toClient) + p - Len(toClient) = p
      BY <1>1
    <3> QED
      BY <2>2, <3>1, <3>2
  <2> QED
    BY <2>5, <2>6, <2>7
<1>3. /\ sent' \in Seq(Messages) /\ Len(sent') = Len(sent) + 1
      /\ \A k \in 1 .. Len(sent) : sent'[k] = sent[k]
      /\ sent'[Len(sent) + 1] = m
  BY <1>1 DEF DeviceSend
<1>4. Consumed' = Consumed
  BY <1>1, <1>2, <1>3 DEF Consumed
<1>5. DOMAIN toClient' = 1 .. Len(toClient) + 4 /\ DOMAIN sent' = 1 .. Len(sent) + 1
  BY <1>1, <1>2, <1>3
<1>6. ASSUME NEW j \in DOMAIN toClient', NEW k \in DOMAIN sent', NEW p \in 1 .. 4,
             Consumed + j = 4 * (k - 1) + p
      PROVE  toClient'[j] = Part(sent'[k], p)
  <2>1. CASE j <= Len(toClient)
    <3>1. k \in DOMAIN sent /\ j \in DOMAIN toClient
      BY SMTT(20), <1>1, <1>5, <1>6, <2>1 DEF Consumed
    <3> QED
      BY <1>1, <1>2, <1>3, <1>6, <3>1 DEF WireOK
  <2>2. CASE j > Len(toClient)
    <3>0. /\ j \in 1 .. Len(toClient) + 4 /\ k \in 1 .. Len(sent) + 1
          /\ 4 * Len(sent) - Len(toClient) + j = 4 * (k - 1) + p
      BY <1>5, <1>6 DEF Consumed
    <3>1. k = Len(sent) + 1 /\ j = Len(toClient) + p
      <4>1. k > Len(sent)
        BY <1>1, <2>2, <3>0
      <4>2. k = Len(sent) + 1
        BY <1>1, <3>0, <4>1
      <4> QED
        BY <1>1, <3>0, <4>2
    <3> QED
      BY <1>2, <1>3, <3>1
  <2> QED
    BY <1>1, <1>5, <2>1, <2>2
<1>7. \A k \in DOMAIN sent' : sent'[k].kind \in {"reply", "event", "error", "frame"}
  BY <1>1, <1>3, <1>5 DEF WireOK
<1>8. Len(toClient') <= 4 * Len(sent')
  BY <1>1, <1>2, <1>3 DEF WireOK
<1> QED
  BY <1>1, <1>2, <1>3, <1>4, <1>6, <1>7, <1>8 DEF WireOK
-----------------------------------------------------------------------------
(* Steps of the client that take nothing from the stream.                  *)
LEMMA WireKept ==
    ASSUME IInv, UNCHANGED <<toClient, sent>>
    PROVE  WireOK' /\ Consumed' = Consumed
BY DEF IInv, WireOK, Consumed

LEMMA WireIdle ==
    ASSUME TypeOK, WireOK
    PROVE  /\ Len(toClient) \in Nat /\ Len(sent) \in Nat /\ Len(data) \in Nat
           /\ Len(returned) \in Nat
           /\ DOMAIN toClient = 1 .. Len(toClient) /\ DOMAIN sent = 1 .. Len(sent)
           /\ DOMAIN data = 1 .. Len(data) /\ DOMAIN returned = 1 .. Len(returned)
           /\ Consumed \in Nat /\ Consumed <= 4 * Len(sent)
<1>1. /\ Len(toClient) \in Nat /\ Len(sent) \in Nat /\ Len(data) \in Nat
      /\ Len(returned) \in Nat
      /\ DOMAIN toClient = 1 .. Len(toClient) /\ DOMAIN sent = 1 .. Len(sent)
      /\ DOMAIN data = 1 .. Len(data) /\ DOMAIN returned = 1 .. Len(returned)
  BY DEF TypeOK
<1> QED
  BY <1>1 DEF WireOK, Consumed
-----------------------------------------------------------------------------
(* Every step keeps the types.                                             *)

(* Whatever send() hands to the socket, the stream gets parts.             *)
LEMMA SocketSendType ==
    ASSUME TypeOK, NEW parts \in Seq(Parts), Len(parts) = 2, SocketSend(parts)
    PROVE  toDevice' \in Seq(Parts) /\ lostParts' \in BOOLEAN
<1>1. Accepted(parts) \in 0 .. Len(parts)
  BY ParamsAssumption DEF TypeOK, SocketSend, Accepted
<1>2. SubSeq(parts, 1, Accepted(parts)) \in Seq(Parts)
  BY <1>1, Taken
<1>3. toDevice' \in Seq(Parts)
  <2>1. toDevice \in Seq(Parts) /\ toDevice' = toDevice \o SubSeq(parts, 1, Accepted(parts))
    BY DEF TypeOK, SocketSend
  <2> QED
    BY <1>2, <2>1, Joined, Zenon
<1>4. lostParts' \in BOOLEAN
  BY DEF TypeOK, SocketSend
<1> QED
  BY <1>3, <1>4

LEMMA SendFailsType ==
    ASSUME TypeOK, SocketSendFails
    PROVE  /\ pc' = "idle" /\ result' \in Messages /\ timeouts' \in Nat
           /\ lostParts' \in BOOLEAN /\ toDevice' \in Seq(Parts)
           /\ UNCHANGED <<need, data, open>>
BY ConstantsOK DEF TypeOK, SocketSendFails, End

LEMMA NothingHeld ==
    ASSUME TypeOK
    PROVE  <<>> \in Seq(Parts) /\ Len(<<>>) = 0 /\ 0 \in 0 .. BodyParts + 1
           /\ PrefixParts \in 0 .. BodyParts + 1
BY DEF PrefixParts, BodyParts

LEMMA StartRecvType ==
    ASSUME TypeOK, StartRecv
    PROVE  /\ pc' = "length" /\ need' \in 0 .. BodyParts + 1
           /\ data' \in Seq(Parts) /\ Len(data') <= need'
<1>1. need' = 2 /\ data' = <<>> /\ pc' = "length"
  BY DEF StartRecv, PrefixParts
<1>2. Len(data') = 0 /\ data' \in Seq(Parts)
  BY <1>1
<1> QED
  BY <1>1, <1>2 DEF BodyParts

LEMMA CallType ==
    ASSUME TypeOK, NEW op \in Ops, Call(op)
    PROVE  TypeOK'
<1>1. call' \in Messages /\ result' \in Messages /\ calls' \in Nat
  <2>1. op \in Kinds
    BY ParamsAssumption DEF Kinds
  <2> QED
    BY <2>1, ConstantsOK DEF Call, TypeOK, Message, Messages
<1>2. /\ pc' \in {"idle", "send", "send_body", "length", "body"}
      /\ need' \in 0 .. BodyParts + 1 /\ data' \in Seq(Parts) /\ Len(data') <= need'
  <2>1. CASE StartRecv
    BY <2>1, StartRecvType, Zenon
  <2>2. CASE pc' = pc /\ UNCHANGED <<need, data>>
    BY <2>2 DEF TypeOK
  <2>3. CASE pc' = "send" /\ UNCHANGED <<need, data>>
    BY <2>3 DEF TypeOK
  <2> QED
    BY <2>1, <2>2, <2>3, Zenon DEF Call
<1> QED
  BY <1>1, <1>2 DEF TypeOK, Call, deviceVars, historyVars

LEMMA SendPrefixType ==
    ASSUME TypeOK, SendPrefix
    PROVE  TypeOK'
<1>1. call \in Messages
  BY DEF TypeOK
<1>2. CASE SocketSend(Prefix(call)) /\ pc' = "send_body" /\ UNCHANGED <<need, data, open>>
  <2>1. toDevice' \in Seq(Parts) /\ lostParts' \in BOOLEAN
    BY <1>1, <1>2, PartsOK, SocketSendType, Zenon
  <2>2. UNCHANGED <<result, timeouts>>
    BY <1>2 DEF SocketSend
  <2> QED
    BY <1>2, <2>1, <2>2 DEF TypeOK, SendPrefix
<1>3. CASE SocketSendFails
  BY <1>3, SendFailsType DEF TypeOK, SendPrefix
<1> QED
  BY <1>2, <1>3 DEF SendPrefix

LEMMA SendBodyType ==
    ASSUME TypeOK, SendBody
    PROVE  TypeOK'
<1>1. call \in Messages
  BY DEF TypeOK
<1>2. CASE SocketSend(Body(call)) /\ ~SocketSendFails
  <2>1. toDevice' \in Seq(Parts) /\ lostParts' \in BOOLEAN
    BY <1>1, <1>2, PartsOK, SocketSendType, Zenon
  <2>2. UNCHANGED <<result, timeouts>>
    BY <1>2 DEF SocketSend
  <2>3. CASE pc' = "idle" /\ open' = FALSE /\ UNCHANGED <<need, data>>
    BY <2>1, <2>2, <2>3 DEF TypeOK, SendBody
  <2>4. CASE StartRecv /\ UNCHANGED open
    <3>1. /\ pc' = "length" /\ need' \in 0 .. BodyParts + 1
          /\ data' \in Seq(Parts) /\ Len(data') <= need'
      BY <2>4, StartRecvType, Zenon
    <3> QED
      BY <2>1, <2>2, <2>4, <3>1 DEF TypeOK, SendBody
  <2> QED
    BY <1>2, <2>3, <2>4, Zenon DEF SendBody
<1>3. CASE SocketSendFails
  BY <1>3, SendFailsType DEF TypeOK, SendBody
<1> QED
  BY <1>2, <1>3, Zenon DEF SendBody

LEMMA PacketType ==
    ASSUME TypeOK, Packet
    PROVE  TypeOK'
<1>1. PICK k \in 1 .. Missing :
        /\ k <= Len(toClient)
        /\ data' = data \o SubSeq(toClient, 1, k)
        /\ toClient' = SubSeq(toClient, k + 1, Len(toClient))
  BY DEF Packet
<1>2. /\ data \in Seq(Parts) /\ toClient \in Seq(Parts) /\ Len(data) \in Nat
      /\ Len(toClient) \in Nat /\ need \in Nat
  BY DEF TypeOK, BodyParts
<1>3. k \in 0 .. Len(toClient) /\ k \in Nat /\ k <= need - Len(data)
  BY <1>1, <1>2 DEF Missing
<1>4. /\ SubSeq(toClient, 1, k) \in Seq(Parts) /\ Len(SubSeq(toClient, 1, k)) = k
      /\ toClient' \in Seq(Parts)
  BY <1>1, <1>2, <1>3, Taken, ZenonT(20)
<1>5. data' \in Seq(Parts) /\ Len(data') = Len(data) + k
  <2> DEFINE piece == SubSeq(toClient, 1, k)
  <2>1. piece \in Seq(Parts) /\ Len(piece) = k /\ data' = data \o piece
    BY <1>1, <1>4
  <2> HIDE DEF piece
  <2>2. data \o piece \in Seq(Parts) /\ Len(data \o piece) = Len(data) + Len(piece)
    BY <1>2, <2>1, Joined, Zenon
  <2> QED
    BY <2>1, <2>2, Zenon
<1>6. Len(data') <= need
  BY <1>2, <1>3, <1>5
<1> QED
  BY <1>4, <1>5, <1>6 DEF TypeOK, Packet, historyVars

LEMMA FailType ==
    ASSUME TypeOK, Fail
    PROVE  /\ pc' = "idle" /\ result' \in Messages /\ need' \in 0 .. BodyParts + 1
           /\ data' \in Seq(Parts) /\ Len(data') <= need'
<1>1. /\ pc' = "idle" /\ result' \in Messages /\ need' = 0 /\ data' = <<>>
  BY ConstantsOK DEF Fail, End
<1>2. Len(data') = 0 /\ data' \in Seq(Parts)
  BY <1>1
<1> QED
  BY <1>1, <1>2 DEF BodyParts

LEMMA GiveUpType ==
    ASSUME TypeOK, SocketTimeout \/ EmptyPacket
    PROVE  TypeOK'
<1>1. CASE SocketTimeout
  <2>1. /\ pc' = "idle" /\ result' \in Messages /\ need' \in 0 .. BodyParts + 1
        /\ data' \in Seq(Parts) /\ Len(data') <= need'
    BY <1>1, FailType, Zenon DEF SocketTimeout
  <2> QED
    BY <1>1, <2>1 DEF TypeOK, SocketTimeout, deviceVars
<1>2. CASE EmptyPacket
  <2>1. /\ pc' = "idle" /\ result' \in Messages /\ need' \in 0 .. BodyParts + 1
        /\ data' \in Seq(Parts) /\ Len(data') <= need'
    BY <1>2, FailType, Zenon DEF EmptyPacket
  <2> QED
    BY <1>2, <2>1 DEF TypeOK, EmptyPacket, deviceVars, historyVars
<1> QED
  BY <1>1, <1>2

LEMMA LengthType ==
    ASSUME TypeOK, Length
    PROVE  TypeOK'
<1>1. /\ need' \in 0 .. BodyParts + 1 /\ pc' = "body" /\ data' = <<>>
  BY DEF Length, Lengths, BodyParts
<1>2. Len(data') = 0 /\ data' \in Seq(Parts)
  BY <1>1
<1>3. Len(data') <= need'
  BY <1>1, <1>2 DEF BodyParts
<1> QED
  BY <1>1, <1>2, <1>3 DEF TypeOK, Length, deviceVars, historyVars

LEMMA ParseType ==
    ASSUME TypeOK, Parse
    PROVE  TypeOK'
<1>1. PICK m \in Parsed(data) :
        /\ End(m)
        /\ returned' = IF m = Failure THEN returned ELSE Append(returned, m)
  BY DEF Parse
<1>2. m \in Messages
  <2>1. CASE data # <<>> /\ data = Body(data[1].of)
    <3>1. data[1] \in Parts
      BY <2>1 DEF TypeOK
    <3> QED
      BY <1>1, <2>1, <3>1 DEF Parsed, Parts
  <2>2. CASE ~(data # <<>> /\ data = Body(data[1].of))
    BY <1>1, <2>2, ConstantsOK DEF Parsed
  <2> QED
    BY <2>1, <2>2
<1>3. pc' = "idle" /\ result' \in Messages /\ returned' \in Seq(Messages)
  BY <1>1, <1>2 DEF End, TypeOK
<1>4. need' = 0 /\ data' = <<>>
  BY DEF Parse
<1>5. /\ need' \in 0 .. BodyParts + 1 /\ data' \in Seq(Parts) /\ Len(data') <= need'
  <2>1. Len(data') = 0 /\ data' \in Seq(Parts)
    BY <1>4
  <2> QED
    BY <1>4, <2>1 DEF BodyParts
<1> QED
  BY <1>3, <1>5 DEF TypeOK, Parse, deviceVars

(* What the device does with a request it has received in whole. *)
LEMMA DeviceAnswerType ==
    ASSUME TypeOK, WireOK, DeviceAnswer
    PROVE  /\ TypeOK' /\ WireOK' /\ Consumed' = Consumed
           /\ Len(sent') = Len(sent) + 1 /\ \A k \in DOMAIN sent : sent'[k] = sent[k]
<1> DEFINE q == toDevice[1].of
<1>1. /\ toDevice \in Seq(Parts) /\ Len(toDevice) \in Nat /\ Len(toDevice) >= 4
  BY DEF TypeOK, DeviceAnswer
<1>2. q \in Messages /\ q.id \in Nat
  <2>1. toDevice[1] \in Parts
    BY <1>1
  <2> QED
    BY <2>1 DEF Parts, Messages
<1>3. PICK m \in Messages : DeviceSend(m) /\ m.kind \in {"reply", "event", "error"}
  <2>1. \A k \in {"reply", "event", "error"} :
          Message(k, q.id) \in Messages /\ Message(k, q.id).kind = k
    BY <1>2 DEF Message, Messages, Kinds
  <2>2. \E k \in {"reply", "event", "error"} : DeviceSend(Message(k, q.id))
    BY DEF DeviceAnswer
  <2> QED
    BY <2>1, <2>2
<1>4. /\ toClient' \in Seq(Parts) /\ sent' \in Seq(Messages) /\ WireOK'
      /\ Consumed' = Consumed /\ Len(sent') = Len(sent) + 1
      /\ \A k \in DOMAIN sent : sent'[k] = sent[k]
  <2>1. m.kind \in {"reply", "event", "error", "frame"}
    BY <1>3
  <2> QED
    BY <1>3, <2>1, SendOK, Zenon
<1>5. toDevice' \in Seq(Parts)
  BY <1>1 DEF DeviceAnswer
<1>6. streaming' \in BOOLEAN /\ answered' \subseteq Nat
  BY <1>2 DEF DeviceAnswer, TypeOK
<1>7. TypeOK'
  BY <1>4, <1>5, <1>6 DEF TypeOK, DeviceAnswer, clientVars
<1> QED
  BY <1>4, <1>7

LEMMA DeviceEventType ==
    ASSUME TypeOK, WireOK, DeviceEvent
    PROVE  /\ TypeOK' /\ WireOK' /\ Consumed' = Consumed
           /\ Len(sent') = Len(sent) + 1 /\ \A k \in DOMAIN sent : sent'[k] = sent[k]
<1> DEFINE m == Message("frame", events + 1)
<1>1. /\ m \in Messages /\ m.kind \in {"reply", "event", "error", "frame"}
      /\ DeviceSend(m)
  BY DEF TypeOK, DeviceEvent, Message, Messages, Kinds
<1>2. /\ toClient' \in Seq(Parts) /\ sent' \in Seq(Messages) /\ WireOK'
      /\ Consumed' = Consumed /\ Len(sent') = Len(sent) + 1
      /\ \A k \in DOMAIN sent : sent'[k] = sent[k]
  BY <1>1, SendOK, Zenon
<1>3. TypeOK'
  BY <1>2 DEF TypeOK, DeviceEvent, clientVars
<1> QED
  BY <1>2, <1>3

LEMMA DeviceCloseType ==
    ASSUME TypeOK, DeviceClose
    PROVE  TypeOK' /\ UNCHANGED <<toClient, sent>>
BY DEF TypeOK, DeviceClose, clientVars, historyVars

LEMMA StutterType ==
    ASSUME TypeOK, UNCHANGED vars
    PROVE  TypeOK'
BY DEF TypeOK, vars, clientVars, deviceVars, historyVars
-----------------------------------------------------------------------------
(* Every step keeps the place of the client in the stream.  The steps that *)
(* neither take a part nor return a message:                               *)
LEMMA FramingKept ==
    ASSUME IInv, TypeOK', UNCHANGED <<toClient, sent, returned, lostParts, closed>>,
           \/ pc' = pc /\ UNCHANGED <<need, data>>
           \/ pc \notin {"length", "body"} /\ pc' \notin {"length", "body"}
           \/ pc \notin {"length", "body"} /\ StartRecv
    PROVE  Framing'
<1> SUFFICES ASSUME ~lostParts' PROVE Framing'
  BY DEF Framing
<1>1. /\ Len(returned) <= Len(sent) /\ \A k \in DOMAIN returned : returned[k] = sent[k]
      /\ InStep
  BY DEF IInv, Framing
<1>2. Consumed' = Consumed
  BY DEF Consumed
<1>3. CASE pc' = pc /\ UNCHANGED <<need, data>>
  BY <1>1, <1>2, <1>3 DEF Framing, InStep, Within
<1>4. CASE pc \notin {"length", "body"} /\ pc' \notin {"length", "body"}
  BY <1>1, <1>2, <1>4 DEF Framing, InStep
<1>5. CASE pc \notin {"length", "body"} /\ StartRecv
  <2>1. pc' = "length" /\ need' = 2 /\ data' = <<>> /\ Len(data') = 0 /\ DOMAIN data' = {}
    BY <1>5 DEF StartRecv, PrefixParts
  <2>2. Consumed = 4 * Len(returned)
    BY <1>1, <1>5 DEF InStep
  <2>3. InStep'
    <3>1. 4 * Len(returned) + 0 + 0 = 4 * Len(returned)
      BY DEF IInv, TypeOK
    <3> QED
      BY <1>2, <2>1, <2>2, <3>1 DEF InStep, Within
  <2> QED
    BY <1>1, <2>3 DEF Framing
<1> QED
  BY <1>3, <1>4, <1>5

(* The device sends; nothing that the client has got so far is disturbed. *)
LEMMA FramingSend ==
    ASSUME IInv, TypeOK', WireOK', UNCHANGED <<clientVars, returned, lostParts, closed>>,
           ~closed, Consumed' = Consumed,
           Len(sent') = Len(sent) + 1, \A k \in DOMAIN sent : sent'[k] = sent[k]
    PROVE  Framing'
<1> SUFFICES ASSUME ~lostParts' PROVE Framing'
  BY DEF Framing
<1>1. /\ Len(returned) <= Len(sent) /\ \A k \in DOMAIN returned : returned[k] = sent[k]
      /\ InStep
  BY DEF IInv, Framing
<1>2. /\ Len(sent) \in Nat /\ Len(returned) \in Nat /\ Len(data) \in Nat
      /\ DOMAIN sent = 1 .. Len(sent) /\ DOMAIN returned = 1 .. Len(returned)
      /\ DOMAIN data = 1 .. Len(data) /\ Consumed <= 4 * Len(sent)
  BY WireIdle DEF IInv
<1>3. Len(returned') <= Len(sent') /\ \A k \in DOMAIN returned' : returned'[k] = sent'[k]
  BY <1>1, <1>2
<1>4. /\ pc' = pc /\ need' = need /\ data' = data /\ returned' = returned
  BY DEF clientVars
<1>5. ASSUME NEW base \in {0, 2}, Within(base) PROVE Within(base)'
  <2>1. ASSUME NEW j \in DOMAIN data
        PROVE  sent'[Len(returned) + 1] = sent[Len(returned) + 1]
    <3>1. Len(data) > 0
      BY <1>2, <2>1
    <3>2. Len(returned) + 1 \in DOMAIN sent
      BY <1>2, <1>5, <3>1 DEF Within
    <3> QED
      BY <3>2
  <2> QED
    BY <1>4, <1>5, <2>1 DEF Within
<1>6. InStep'
  BY <1>1, <1>4, <1>5 DEF InStep
<1> QED
  BY <1>3, <1>6 DEF Framing

LEMMA FramingClose ==
    ASSUME IInv, DeviceClose
    PROVE  Framing'
BY DEF IInv, DeviceClose, Framing, InStep, Within, Consumed, clientVars, historyVars

LEMMA CallFraming ==
    ASSUME IInv, TypeOK', NEW op \in Ops, Call(op)
    PROVE  Framing'
<1>1. /\ pc = "idle" /\ UNCHANGED <<toClient, sent, returned, lostParts, closed>>
  BY DEF Call, deviceVars, historyVars
<1>2. \/ StartRecv
      \/ pc' = pc /\ UNCHANGED <<need, data>>
      \/ pc' = "send"
  BY DEF Call
<1> QED
  BY <1>1, <1>2, FramingKept

LEMMA SendFraming ==
    ASSUME IInv, TypeOK', SendPrefix \/ SendBody
    PROVE  Framing'
<1> SUFFICES ASSUME ~lostParts' PROVE Framing'
  BY DEF Framing
<1>1. UNCHANGED lostParts
  <2>1. lostParts => lostParts'
    BY DEF SendPrefix, SendBody, SocketSend, SocketSendFails
  <2> QED
    BY <2>1 DEF IInv, TypeOK
<1>2. UNCHANGED <<toClient, sent, returned, closed>> /\ pc \notin {"length", "body"}
  BY DEF SendPrefix, SendBody
<1>3. pc' \notin {"length", "body"} \/ StartRecv
  BY DEF SendPrefix, SendBody, SocketSendFails, End
<1> QED
  BY <1>1, <1>2, <1>3, FramingKept

(* A part that is taken from the stream is the next one of the message.    *)
LEMMA PacketFraming ==
    ASSUME IInv, TypeOK', Packet
    PROVE  WireOK' /\ Framing'
<1>1. PICK k \in 1 .. Missing :
        /\ k <= Len(toClient)
        /\ data' = data \o SubSeq(toClient, 1, k)
        /\ toClient' = SubSeq(toClient, k + 1, Len(toClient))
  BY DEF Packet
<1>2. /\ data \in Seq(Parts) /\ toClient \in Seq(Parts) /\ need \in Nat
      /\ Len(toClient) \in Nat /\ Len(sent) \in Nat /\ Len(data) \in Nat
      /\ Len(returned) \in Nat
      /\ DOMAIN toClient = 1 .. Len(toClient) /\ DOMAIN sent = 1 .. Len(sent)
      /\ DOMAIN data = 1 .. Len(data) /\ DOMAIN data' = 1 .. Len(data')
      /\ DOMAIN toClient' = 1 .. Len(toClient') /\ Len(data') \in Nat
      /\ Len(toClient) <= 4 * Len(sent)
  BY SMTT(20) DEF IInv, TypeOK, WireOK, BodyParts
<1>3. k \in 1 .. Len(toClient) /\ k \in Nat /\ k <= need - Len(data)
  <2>1. k \in 1 .. need - Len(data) /\ k <= Len(toClient)
    BY <1>1 DEF Missing
  <2>2. need \in Nat /\ Len(data) \in Nat /\ Len(toClient) \in Nat
    BY <1>2
  <2> QED
    BY <2>1, <2>2
<1>4. /\ UNCHANGED <<pc, need, closed, sent, returned, lostParts>>
      /\ pc \in {"length", "body"}
  BY DEF Packet, historyVars, Receiving
<1> DEFINE piece == SubSeq(toClient, 1, k)
<1>5. /\ piece \in Seq(Parts) /\ Len(piece) = k
      /\ \A i \in 1 .. k : piece[i] = toClient[i]
      /\ Len(toClient') = Len(toClient) - k
      /\ \A i \in 1 .. Len(toClient) - k : toClient'[i] = toClient[k + i]
  <2>1. k \in 0 .. Len(toClient)
    BY <1>3
  <2> QED
    BY <1>1, <1>2, <2>1, Taken, ZenonT(20)
<1>6. /\ Len(data') = Len(data) + k
      /\ \A i \in 1 .. Len(data) + k :
           data'[i] = IF i <= Len(data) THEN data[i] ELSE toClient[i - Len(data)]
  <2>1. data' = data \o piece
    BY <1>1
  <2> HIDE DEF piece
  <2>2. /\ Len(data \o piece) = Len(data) + Len(piece)
        /\ \A i \in 1 .. Len(data) + Len(piece) :
             (data \o piece)[i] = IF i <= Len(data) THEN data[i] ELSE piece[i - Len(data)]
    BY <1>2, <1>5, Joined, Zenon
  <2>3. \A i \in 1 .. Len(data) + k : i > Len(data) => i - Len(data) \in 1 .. k
    BY <1>2, <1>3
  <2>4. Len(data') = Len(data) + k
    BY <1>5, <2>1, <2>2, Zenon
  <2>5. \A i \in 1 .. Len(data) + k :
          data'[i] = IF i <= Len(data) THEN data[i] ELSE piece[i - Len(data)]
    BY <1>5, <2>1, <2>2, Zenon
  <2> QED
    BY <1>2, <1>3, <1>5, <2>3, <2>4, <2>5
<1> HIDE DEF piece
<1>7. Consumed' = Consumed + k
  BY <1>2, <1>3, <1>4, <1>5 DEF Consumed
<1>8. WireOK'
  <2>1. ASSUME NEW j \in DOMAIN toClient', NEW i \in DOMAIN sent', NEW p \in 1 .. 4,
               Consumed' + j = 4 * (i - 1) + p
        PROVE  toClient'[j] = Part(sent'[i], p)
    <3>1. j \in 1 .. Len(toClient) - k /\ i \in DOMAIN sent
      BY <1>2, <1>4, <1>5, <2>1
    <3>2. k + j \in DOMAIN toClient
      BY <1>2, <1>3, <3>1
    <3>3. Consumed + (k + j) = 4 * (i - 1) + p
      <4>1. Consumed \in Nat /\ j \in Nat /\ k \in Nat
        BY <1>3, <3>1, WireIdle DEF IInv
      <4>2. Consumed + k + j = 4 * (i - 1) + p
        BY <1>7, <2>1
      <4> QED
        BY <4>1, <4>2
    <3>4. toClient[k + j] = Part(sent[i], p)
      BY <3>1, <3>2, <3>3 DEF IInv, WireOK
    <3> QED
      BY <1>4, <1>5, <3>1, <3>4
  <2>2. Len(toClient') <= 4 * Len(sent')
    BY <1>2, <1>3, <1>4, <1>5
  <2>3. \A i \in DOMAIN sent' : sent'[i].kind \in {"reply", "event", "error", "frame"}
    BY <1>4 DEF IInv, WireOK
  <2> QED
    BY <2>1, <2>2, <2>3 DEF WireOK
<1>9. Framing'
  <2> SUFFICES ASSUME ~lostParts' PROVE Framing'
    BY DEF Framing
  <2>1. /\ Len(returned) <= Len(sent) /\ \A i \in DOMAIN returned : returned[i] = sent[i]
        /\ InStep
    BY <1>4 DEF IInv, Framing
  <2>2. InStep
    BY <2>1
  <2>3. ASSUME NEW base \in {0, 2}, Within(base) PROVE Within(base)'
    <3>1. /\ need = 2 /\ Consumed = 4 * Len(returned) + base + Len(data)
          /\ \A j \in DOMAIN data : data[j] = Part(sent[Len(returned) + 1], base + j)
      BY <2>3 DEF Within
    <3>2. Consumed' = 4 * Len(returned) + base + Len(data')
      BY <1>2, <1>3, <1>6, <1>7, <3>1
    <3>3. Len(returned) + 1 \in DOMAIN sent
      <4>1. Consumed + k <= 4 * Len(sent)
        BY <1>2, <1>3 DEF Consumed
      <4> QED
        BY <1>2, <1>3, <3>1, <4>1
    <3>4. ASSUME NEW j \in DOMAIN data'
          PROVE  data'[j] = Part(sent[Len(returned) + 1], base + j)
      <4>1. j \in 1 .. Len(data) + k
        BY <1>2, <1>6
      <4>2. CASE j <= Len(data)
        BY <1>2, <1>6, <3>1, <4>1, <4>2
      <4>3. CASE j > Len(data)
        <5> DEFINE i == j - Len(data)
        <5>1. i \in 1 .. k /\ i \in DOMAIN toClient /\ j = Len(data) + i
          BY <1>2, <1>3, <4>1, <4>3
        <5>2. base + j \in 1 .. 4
          <6>1. Len(data) \in Nat /\ k <= need - Len(data) /\ need = 2 /\ k \in Nat
            BY <1>2, <1>3, <3>1
          <6>2. j \in 1 .. 2
            BY <4>1, <6>1
          <6> QED
            BY <6>2
        <5>3. Consumed + i = 4 * ((Len(returned) + 1) - 1) + (base + j)
          BY SMTT(20), <1>2, <3>1, <5>1
        <5>4. toClient[i] = Part(sent[Len(returned) + 1], base + j)
          BY <3>3, <5>1, <5>2, <5>3 DEF IInv, WireOK
        <5> QED
          BY <1>6, <4>1, <4>3, <5>4
      <4> QED
        BY <1>2, <4>1, <4>2, <4>3
    <3> QED
      BY <1>4, <3>1, <3>2, <3>4 DEF Within
  <2>4. InStep'
    BY <1>4, <2>2, <2>3 DEF InStep
  <2> QED
    BY <1>4, <2>1, <2>4 DEF Framing
<1> QED
  BY <1>8, <1>9

(* A timeout before the first part of a message loses nothing; later, it   *)
(* does (lostParts).                                                       *)
LEMMA TimeoutFraming ==
    ASSUME IInv, SocketTimeout
    PROVE  Framing'
<1> SUFFICES ASSUME ~lostParts' PROVE Framing'
  BY DEF Framing
<1>1. /\ ~lostParts /\ data = <<>> /\ pc = "length" /\ pc' = "idle"
      /\ UNCHANGED <<toClient, sent, returned, closed>>
  BY DEF SocketTimeout, Receiving, Fail, End, deviceVars
<1>2. /\ Len(returned) <= Len(sent) /\ \A k \in DOMAIN returned : returned[k] = sent[k]
      /\ InStep
  BY <1>1 DEF IInv, Framing
<1>3. Consumed' = Consumed
  BY <1>1 DEF Consumed
<1>4. InStep'
  <2>1. Consumed = 4 * Len(returned) + 0 + Len(data) /\ Len(data) = 0
    BY <1>1, <1>2 DEF InStep, Within
  <2>2. Consumed = 4 * Len(returned)
    BY <2>1 DEF IInv, TypeOK
  <2> QED
    BY <1>1, <1>3, <2>2 DEF InStep
<1> QED
  BY <1>1, <1>2, <1>4 DEF Framing

(* The device sends whole messages: the stream ends between two of them.   *)
LEMMA EndOfStream ==
    ASSUME IInv, EmptyPacket, ~lostParts
    PROVE  Consumed = 4 * Len(returned) /\ Len(returned) = Len(sent)
<1>1. /\ toClient = <<>> /\ Len(data) < need /\ pc \in {"length", "body"}
  BY DEF EmptyPacket, Receiving
<1>2. /\ Len(data) \in Nat /\ Len(returned) \in Nat /\ Len(sent) \in Nat
  BY WireIdle DEF IInv
<1>3. Consumed = 4 * Len(sent)
  BY <1>1, <1>2 DEF Consumed
<1>4. PICK base \in {0, 2} : need = 2 /\ Consumed = 4 * Len(returned) + base + Len(data)
  BY <1>1 DEF IInv, Framing, InStep, Within
<1>5. 4 * Len(sent) = 4 * Len(returned) + base + Len(data) /\ base + Len(data) \in 0 .. 3
  BY <1>1, <1>2, <1>3, <1>4
<1> QED
  BY <1>2, <1>3, <1>5

LEMMA EmptyPacketFraming ==
    ASSUME IInv, EmptyPacket
    PROVE  Framing'
<1>1. /\ pc' = "idle" /\ UNCHANGED <<toClient, sent, returned, lostParts>>
  BY DEF EmptyPacket, Fail, End, deviceVars, historyVars
<1>2. ~lostParts => Consumed' = 4 * Len(returned')
  BY <1>1, EndOfStream DEF Consumed
<1> QED
  BY <1>1, <1>2 DEF IInv, Framing, InStep

(* In step, the two parts in data are a length prefix.                     *)
LEMMA LengthFraming ==
    ASSUME IInv, TypeOK', Length
    PROVE  Framing'
<1> SUFFICES ASSUME ~lostParts' PROVE Framing'
  BY DEF Framing
<1>1. /\ pc = "length" /\ pc' = "body" /\ data' = <<>> /\ need' \in Lengths(data)
      /\ ~(Len(data) < need)
      /\ UNCHANGED <<toClient, sent, returned, closed, lostParts>>
  BY DEF Length, Receiving, deviceVars, historyVars
<1>2. /\ Len(returned) <= Len(sent) /\ \A k \in DOMAIN returned : returned[k] = sent[k]
      /\ InStep
  BY <1>1 DEF IInv, Framing
<1>3. /\ Len(data) \in Nat /\ Len(returned) \in Nat /\ DOMAIN data = 1 .. Len(data)
      /\ data \in Seq(Parts) /\ need \in Nat /\ Len(data) <= need
  BY SMTT(20) DEF IInv, TypeOK, BodyParts
<1>5. /\ need = 2 /\ Consumed = 4 * Len(returned) + 0 + Len(data)
      /\ \A j \in DOMAIN data : data[j] = Part(sent[Len(returned) + 1], 0 + j)
  BY <1>1, <1>2 DEF InStep, Within
<1>6. Len(data) = 2
  BY <1>1, <1>3, <1>5
<1> DEFINE m == sent[Len(returned) + 1]
<1>7. data[1] = Part(m, 1) /\ data[2] = Part(m, 2)
  <2>1. 1 \in DOMAIN data /\ 2 \in DOMAIN data /\ 0 + 1 = 1 /\ 0 + 2 = 2
    BY <1>3, <1>6
  <2> QED
    BY <1>5, <2>1
<1>8. data = Prefix(data[1].of)
  <2>1. data[1].of = m
    BY <1>7 DEF Part
  <2>2. data = <<data[1], data[2]>>
    BY <1>3, <1>6
  <2> QED
    BY <1>7, <2>1, <2>2 DEF Prefix
<1>9. need' = 2
  BY <1>1, <1>8 DEF Lengths, BodyParts
<1>10. Len(data') = 0 /\ DOMAIN data' = {}
  BY <1>1
<1>11. Consumed' = 4 * Len(returned') + 2 + Len(data')
  <2>1. Consumed' = Consumed
    BY <1>1 DEF Consumed
  <2> QED
    <3>1. Consumed' = 4 * Len(returned) + 0 + 2 /\ returned' = returned /\ Len(data') = 0
      BY <1>1, <1>5, <1>6, <1>10, <2>1
    <3>2. Len(returned) \in Nat
      BY <1>3
    <3>3. 4 * Len(returned) + 0 + 2 = 4 * Len(returned) + 2 + 0
      BY <3>2
    <3> QED
      BY <3>1, <3>3
<1>12. InStep'
  BY <1>1, <1>9, <1>10, <1>11 DEF InStep, Within
<1> QED
  BY <1>1, <1>2, <1>12 DEF Framing

(* In step, they are the body of the next message.                         *)
LEMMA ParseFraming ==
    ASSUME IInv, TypeOK', Parse
    PROVE  Framing'
<1> SUFFICES ASSUME ~lostParts' PROVE Framing'
  BY DEF Framing
<1>1. PICK r \in Parsed(data) :
        /\ End(r)
        /\ returned' = IF r = Failure THEN returned ELSE Append(returned, r)
  BY DEF Parse
<1>2. /\ pc = "body" /\ pc' = "idle" /\ ~(Len(data) < need)
      /\ UNCHANGED <<toClient, sent, closed, lostParts>>
  BY <1>1 DEF Parse, Receiving, End, deviceVars
<1>3. /\ Len(returned) <= Len(sent) /\ \A k \in DOMAIN returned : returned[k] = sent[k]
      /\ InStep /\ ~lostParts
  BY <1>2 DEF IInv, Framing
<1>4. /\ Len(data) \in Nat /\ Len(returned) \in Nat /\ Len(sent) \in Nat
      /\ Len(toClient) \in Nat /\ DOMAIN sent = 1 .. Len(sent)
      /\ DOMAIN data = 1 .. Len(data) /\ returned \in Seq(Messages)
      /\ data \in Seq(Parts) /\ Len(data) <= need /\ need \in Nat
      /\ DOMAIN returned = 1 .. Len(returned)
  BY SMTT(20) DEF IInv, TypeOK, BodyParts
<1>5. /\ need = 2 /\ Consumed = 4 * Len(returned) + 2 + Len(data)
      /\ \A j \in DOMAIN data : data[j] = Part(sent[Len(returned) + 1], 2 + j)
  BY <1>2, <1>3 DEF InStep, Within
<1>6. Len(data) = 2
  BY <1>2, <1>4, <1>5
<1>7. Len(returned) + 1 \in DOMAIN sent /\ Consumed = 4 * Len(returned) + 4
  BY <1>4, <1>5, <1>6 DEF Consumed
<1> DEFINE m == sent[Len(returned) + 1]
<1>8. data[1] = Part(m, 3) /\ data[2] = Part(m, 4)
  <2>1. 1 \in DOMAIN data /\ 2 \in DOMAIN data /\ 2 + 1 = 3 /\ 2 + 2 = 4
    BY <1>4, <1>6
  <2> QED
    BY <1>5, <2>1
<1>9. r = m
  <2>1. data[1].of = m
    BY <1>8 DEF Part
  <2>2. data = <<data[1], data[2]>>
    <3>1. data \in Seq(Parts) /\ Len(data) = 2
      BY <1>4, <1>6
    <3> QED
      BY <3>1
  <2>4. data # <<>>
    BY <1>6
  <2>3. data = Body(data[1].of)
    BY <1>8, <2>1, <2>2 DEF Body
  <2> QED
    BY <1>1, <2>1, <2>3, <2>4 DEF Parsed
<1>10. r # Failure
  <2>1. m.kind \in {"reply", "event", "error", "frame"}
    BY <1>7 DEF IInv, WireOK
  <2> QED
    BY <1>9, <2>1 DEF Failure, Message
<1>11. /\ returned' = Append(returned, m) /\ m \in Messages
  <2>1. m \in Messages
    BY SMTT(20), <1>4, <1>7 DEF IInv, TypeOK
  <2> QED
    BY <1>1, <1>9, <1>10, <2>1
<1>12. /\ Len(returned') = Len(returned) + 1 /\ DOMAIN returned' = 1 .. Len(returned) + 1
       /\ \A k \in 1 .. Len(returned) : returned'[k] = returned[k]
       /\ returned'[Len(returned) + 1] = m
  BY <1>4, <1>11
<1>13. Len(returned') <= Len(sent') /\ \A k \in DOMAIN returned' : returned'[k] = sent'[k]
  BY <1>2, <1>3, <1>4, <1>7, <1>12
<1>14. InStep'
  <2>1. Consumed' = Consumed
    BY <1>2 DEF Consumed
  <2> QED
    BY <1>2, <1>4, <1>7, <1>12, <2>1 DEF InStep
<1> QED
  BY <1>13, <1>14 DEF Framing
-----------------------------------------------------------------------------
LEMMA StepInv == IInv /\ [Next]_vars => IInv'
<1> SUFFICES ASSUME IInv, [Next]_vars PROVE IInv'
  OBVIOUS
<1>0. TypeOK /\ WireOK /\ Framing
  BY DEF IInv
<1>1. ASSUME NEW op \in Ops, Call(op) PROVE IInv'
  <2>1. TypeOK'
    BY <1>0, <1>1, CallType
  <2>2. UNCHANGED <<toClient, sent>>
    BY <1>1 DEF Call, deviceVars, historyVars
  <2> QED
    BY <1>1, <2>1, <2>2, WireKept, CallFraming DEF IInv
<1>2. CASE SendPrefix \/ SendBody
  <2>1. TypeOK'
    BY <1>0, <1>2, SendPrefixType, SendBodyType
  <2>2. UNCHANGED <<toClient, sent>>
    BY <1>2 DEF SendPrefix, SendBody
  <2> QED
    BY <1>2, <2>1, <2>2, WireKept, SendFraming DEF IInv
<1>3. CASE Packet
  BY <1>0, <1>3, PacketType, PacketFraming DEF IInv
<1>4. CASE SocketTimeout \/ EmptyPacket
  <2>1. TypeOK'
    BY <1>0, <1>4, GiveUpType
  <2>2. UNCHANGED <<toClient, sent>>
    BY <1>4 DEF SocketTimeout, EmptyPacket, deviceVars, historyVars
  <2> QED
    BY <1>4, <2>1, <2>2, WireKept, TimeoutFraming, EmptyPacketFraming DEF IInv
<1>5. CASE Length
  <2>1. TypeOK' /\ UNCHANGED <<toClient, sent>>
    BY <1>0, <1>5, LengthType DEF Length, deviceVars, historyVars
  <2> QED
    BY <1>5, <2>1, WireKept, LengthFraming DEF IInv
<1>6. CASE Parse
  <2>1. TypeOK' /\ UNCHANGED <<toClient, sent>>
    BY <1>0, <1>6, ParseType DEF Parse, deviceVars
  <2> QED
    BY <1>6, <2>1, WireKept, ParseFraming DEF IInv
<1>7. CASE DeviceAnswer
  <2>1. /\ TypeOK' /\ WireOK' /\ Consumed' = Consumed
        /\ Len(sent') = Len(sent) + 1 /\ \A k \in DOMAIN sent : sent'[k] = sent[k]
    BY <1>0, <1>7, DeviceAnswerType
  <2>2. UNCHANGED <<clientVars, returned, lostParts, closed>> /\ ~closed
    BY <1>7 DEF DeviceAnswer
  <2> QED
    BY <2>1, <2>2, FramingSend DEF IInv
<1>8. CASE DeviceEvent
  <2>1. /\ TypeOK' /\ WireOK' /\ Consumed' = Consumed
        /\ Len(sent') = Len(sent) + 1 /\ \A k \in DOMAIN sent : sent'[k] = sent[k]
    BY <1>0, <1>8, DeviceEventType
  <2>2. UNCHANGED <<clientVars, returned, lostParts, closed>> /\ ~closed
    BY <1>8 DEF DeviceEvent
  <2> QED
    BY <2>1, <2>2, FramingSend DEF IInv
<1>9. CASE DeviceClose
  BY <1>0, <1>9, DeviceCloseType, WireKept, FramingClose DEF IInv
<1>10. CASE UNCHANGED vars
  <2>1. TypeOK' /\ UNCHANGED <<toClient, sent, returned, lostParts, closed, pc, need, data>>
    BY <1>0, <1>10, StutterType DEF vars, clientVars, deviceVars, historyVars
  <2> QED
    BY <2>1, WireKept, FramingKept DEF IInv
<1> QED
  BY <1>1, <1>2, <1>3, <1>4, <1>5, <1>6, <1>7, <1>8, <1>9, <1>10
     DEF Next, ClientStep, Finished

(* The inductive invariant: the connection is in step with the stream.     *)
THEOREM InStepAlways == Spec => []IInv
BY InitInv, StepInv, PTL DEF Spec

(* Every variable has its type, and recv() never holds more parts than it  *)
(* asked for, in whatever pieces they arrive.                              *)
THEOREM TypeCorrect == Spec => []TypeOK
<1>1. IInv => TypeOK
  BY DEF IInv
<1> QED
  BY <1>1, InStepAlways, PTL

(* As long as no message lost a part, the application gets the messages    *)
(* that the device sent, each once and in order, after any number of       *)
(* timeouts.                                                               *)
THEOREM NothingIsSkipped == Spec => []NothingSkipped
<1>1. IInv => NothingSkipped
  <2> SUFFICES ASSUME IInv, ~lostParts
               PROVE  Len(returned) <= Len(sent) /\ returned = SubSeq(sent, 1, Len(returned))
    BY DEF NothingSkipped
  <2>1. /\ Len(returned) <= Len(sent) /\ \A k \in DOMAIN returned : returned[k] = sent[k]
        /\ returned \in Seq(Messages) /\ sent \in Seq(Messages)
    BY DEF IInv, Framing, TypeOK
  <2> DEFINE t == SubSeq(sent, 1, Len(returned))
  <2>2. Len(returned) \in 0 .. Len(sent) /\ DOMAIN returned = 1 .. Len(returned)
    BY <2>1
  <2>3. /\ t \in Seq(Messages) /\ Len(t) = Len(returned)
        /\ \A i \in 1 .. Len(returned) : t[i] = sent[i]
    BY <2>1, <2>2, Taken, ZenonT(20)
  <2> HIDE DEF t
  <2>4. returned = t
    BY <2>1, <2>2, <2>3, SeqEqual
  <2> QED
    BY <2>1, <2>4 DEF t
<1> QED
  BY <1>1, InStepAlways, PTL
-----------------------------------------------------------------------------
(* The connection as a channel.  Until a timeout or the loss of a part,    *)
(* and without the calls that are not requests:                            *)
Fresh == timeouts = 0 /\ ~lostParts /\ call.kind \in {"none", "get", "subscribe"}

(* the latest request is not answered, and nothing else is on its way, ... *)
Unanswered(onTheWay) ==
    /\ call.id \notin answered /\ Len(sent) = Len(returned)
    /\ closed \/ toDevice = onTheWay

(* ... or its answer is the next message of the stream, ...                *)
AnswerNext ==
    /\ call.id \in answered /\ (closed \/ toDevice = <<>>)
    /\ Len(sent) > Len(returned) /\ sent[Len(returned) + 1].id = call.id
    /\ call.kind = "get" => Len(sent) = Len(returned) + 1

(* ... or the call has ended.  Frames follow a subscription only.          *)
AtRest == /\ closed \/ toDevice = <<>>
          /\ call.kind # "subscribe" => Len(sent) = Len(returned)

CallOK == /\ call.id = calls
          /\ pc # "idle" => result = NoMessage /\ calls > 0 /\ call.kind # "none"

TurnOK == /\ answered \subseteq 1 .. calls
          /\ streaming => call.kind = "subscribe" /\ call.id \in answered
          /\ CASE pc = "idle"      -> AtRest
               [] pc = "send"      -> Unanswered(<<>>)
               [] pc = "send_body" -> Unanswered(Prefix(call))
               [] OTHER            -> Unanswered(Wire(call)) \/ AnswerNext

Turn == CallOK /\ (Fresh => TurnOK)
-----------------------------------------------------------------------------
LEMMA InitTurn == Init => Turn
<1> SUFFICES ASSUME Init PROVE Turn
  OBVIOUS
<1>1. CallOK
  BY DEF Init, CallOK, Message
<1>2. TurnOK
  BY DEF Init, TurnOK, AtRest
<1> QED
  BY <1>1, <1>2 DEF Turn

(* What is lost stays lost, and after a stream there are no requests.      *)
LEMMA FreshBefore ==
    ASSUME IInv, [Next]_vars, Fresh'
    PROVE  Fresh
<1>0. TypeOK
  BY DEF IInv
<1>1. ASSUME NEW op \in Ops, Call(op) PROVE Fresh
  <2>1. op \in {"get", "subscribe"} /\ timeouts = 0 /\ ~lostParts
    BY <1>1, ParamsAssumption DEF Fresh, Call, Message, historyVars
  <2>2. call.kind \in {"none", "get"}
    BY <1>1, <2>1 DEF Call, MayCall
  <2> QED
    BY <2>1, <2>2 DEF Fresh
<1>2. CASE SendPrefix \/ SendBody
  BY <1>0, <1>2
     DEF SendPrefix, SendBody, SocketSend, SocketSendFails, Fresh, TypeOK
<1>3. CASE SocketTimeout
  BY <1>0, <1>3 DEF SocketTimeout, Fresh, TypeOK
<1>4. CASE Packet \/ EmptyPacket \/ Length \/ Parse
  BY <1>4 DEF Packet, EmptyPacket, Length, Parse, Fresh, historyVars
<1>5. CASE DeviceAnswer \/ DeviceEvent \/ DeviceClose \/ UNCHANGED vars
  BY <1>5 DEF DeviceAnswer, DeviceEvent, DeviceClose, Fresh, clientVars, historyVars, vars
<1> QED
  BY <1>1, <1>2, <1>3, <1>4, <1>5 DEF Next, ClientStep, Finished

LEMMA TurnSame ==
    ASSUME Turn, Fresh' => Fresh,
           UNCHANGED <<pc, call, result, calls, sent, returned, answered, toDevice,
                       streaming>>, closed => closed'
    PROVE  Turn'
<1>1. CallOK'
  BY DEF Turn, CallOK
<1>2. TurnOK => TurnOK'
  BY DEF TurnOK, AtRest, Unanswered, AnswerNext
<1> QED
  BY <1>1, <1>2 DEF Turn

LEMMA CallTurn ==
    ASSUME IInv, Turn, NEW op \in Ops, Call(op), Fresh' => Fresh
    PROVE  Turn'
<1>1. CallOK'
  BY ParamsAssumption DEF IInv, TypeOK, Turn, CallOK, Call, Message
<1>2. ASSUME Fresh' PROVE TurnOK'
  <2>1. op \in {"get", "subscribe"}
    BY <1>2, ParamsAssumption DEF Fresh, Call, Message
  <2>2. /\ pc = "idle" /\ call.kind \in {"none", "get"} /\ pc' = "send"
        /\ call' = Message(op, calls + 1) /\ calls' = calls + 1
        /\ UNCHANGED <<deviceVars, historyVars>>
    BY <2>1 DEF Call, MayCall, StartRecv
  <2>3. TurnOK /\ calls \in Nat /\ call'.id = calls + 1
    BY <1>2, <2>2 DEF Turn, IInv, TypeOK, Message
  <2>4. /\ answered \subseteq 1 .. calls /\ ~streaming /\ Len(sent) = Len(returned)
        /\ closed \/ toDevice = <<>>
    BY <2>2, <2>3 DEF TurnOK, AtRest
  <2>5. calls + 1 \notin answered /\ answered \subseteq 1 .. calls + 1
    BY <2>3, <2>4
  <2> QED
    BY <2>2, <2>3, <2>4, <2>5 DEF TurnOK, Unanswered, deviceVars, historyVars
<1> QED
  BY <1>1, <1>2 DEF Turn

LEMMA FullSend ==
    ASSUME TypeOK, NEW parts \in Seq(Parts), Len(parts) = 2, SocketSend(parts), ~lostParts'
    PROVE  toDevice' = toDevice \o parts
<1>1. Accepted(parts) = Len(parts)
  <2>1. ~(Accepted(parts) < Len(parts))
    BY Zenon DEF SocketSend
  <2>2. toDevice \in Seq(Parts)
    BY DEF TypeOK
  <2> QED
    BY <2>1, <2>2, ParamsAssumption DEF Accepted
<1>2. SubSeq(parts, 1, Len(parts)) = parts
  BY SubSeqFull
<1> QED
  BY <1>1, <1>2, Zenon DEF SocketSend

LEMMA SendFailsTurn ==
    ASSUME IInv, Turn, SendPrefix \/ SendBody, SocketSendFails, Fresh', TurnOK
    PROVE  TurnOK'
<1>1. closed /\ pc = "send"
  BY DEF SocketSendFails, Fresh, IInv, TypeOK, SendPrefix, SendBody
<1>2. /\ pc' = "idle"
      /\ UNCHANGED <<call, calls, closed, streaming, sent, returned, answered>>
  BY DEF SocketSendFails, End, SendPrefix, SendBody
<1> QED
  BY <1>1, <1>2 DEF TurnOK, AtRest, Unanswered

LEMMA SendTurn ==
    ASSUME IInv, Turn, SendPrefix \/ SendBody, Fresh' => Fresh
    PROVE  Turn'
<1>0. call \in Messages /\ TypeOK
  BY DEF IInv, TypeOK
<1>1. CallOK'
  BY DEF Turn, CallOK, SendPrefix, SendBody, SocketSend, SocketSendFails, End
<1>2. ASSUME Fresh', ~SocketSendFails, SendPrefix PROVE TurnOK'
  <2>1. /\ pc = "send" /\ pc' = "send_body" /\ SocketSend(Prefix(call))
        /\ UNCHANGED <<call, calls, closed, streaming, sent, returned, answered>>
    BY <1>2 DEF SendPrefix
  <2>2. toDevice' = toDevice \o Prefix(call)
    BY <1>0, <1>2, <2>1, FullSend, PartsOK, Zenon DEF Fresh
  <2>3. <<>> \o Prefix(call) = Prefix(call)
    BY <1>0, PartsOK, ConcatEmptySeq, Zenon
  <2>4. TurnOK
    BY <1>2 DEF Turn
  <2>5. Unanswered(Prefix(call))'
    BY <2>1, <2>2, <2>3, <2>4 DEF TurnOK, Unanswered
  <2> QED
    BY <2>1, <2>4, <2>5 DEF TurnOK
<1>3. ASSUME Fresh', ~SocketSendFails, SendBody PROVE TurnOK'
  <2>1. /\ pc = "send_body" /\ SocketSend(Body(call)) /\ pc' = "length"
        /\ UNCHANGED <<call, calls, closed, streaming, sent, returned, answered>>
    BY <1>3 DEF SendBody, StartRecv, Fresh
  <2>2. toDevice' = toDevice \o Body(call)
    BY <1>0, <1>3, <2>1, FullSend, PartsOK, Zenon DEF Fresh
  <2>4. TurnOK
    BY <1>3 DEF Turn
  <2>5. Unanswered(Wire(call))'
    BY <2>1, <2>2, <2>4 DEF TurnOK, Unanswered, Wire
  <2> QED
    BY <2>1, <2>4, <2>5 DEF TurnOK
<1>4. ASSUME Fresh', SocketSendFails PROVE TurnOK'
  BY <1>4, SendFailsTurn DEF Turn
<1> QED
  BY <1>1, <1>2, <1>3, <1>4 DEF Turn

LEMMA EmptyPacketTurn ==
    ASSUME IInv, Turn, EmptyPacket, Fresh' => Fresh
    PROVE  Turn'
<1>1. /\ pc \in {"length", "body"} /\ pc' = "idle" /\ closed'
      /\ UNCHANGED <<call, calls, streaming, sent, returned, answered, lostParts>>
  BY DEF EmptyPacket, Receiving, Fail, End, deviceVars, historyVars
<1>2. CallOK'
  BY <1>1 DEF Turn, CallOK
<1>3. ASSUME Fresh' PROVE TurnOK'
  <2>1. TurnOK /\ Len(returned) = Len(sent)
    BY <1>1, <1>3, EndOfStream DEF Turn, Fresh
  <2> QED
    BY <1>1, <2>1 DEF TurnOK, AtRest
<1> QED
  BY <1>2, <1>3 DEF Turn

LEMMA LengthTurn ==
    ASSUME IInv, Turn, Length, Fresh' => Fresh
    PROVE  Turn'
<1>1. /\ pc = "length" /\ pc' = "body"
      /\ UNCHANGED <<call, calls, result, closed, toDevice, streaming, sent, returned, answered>>
  BY DEF Length, deviceVars, historyVars
<1>2. CallOK'
  BY <1>1 DEF Turn, CallOK
<1>3. ASSUME Fresh' PROVE TurnOK'
  BY <1>1, <1>3 DEF Turn, TurnOK, Unanswered, AnswerNext
<1> QED
  BY <1>2, <1>3 DEF Turn

(* What recv() returns is the answer to the latest request.                *)
LEMMA ParsedIsAnswer ==
    ASSUME IInv, Turn, Parse, Fresh, IInv'
    PROVE  /\ AnswerNext /\ result' = sent[Len(returned) + 1]
           /\ Len(returned') = Len(returned) + 1 /\ pc' = "idle"
           /\ result'.kind \in {"reply", "event", "error", "frame"}
<1>1. /\ pc = "body" /\ ~lostParts /\ TurnOK
      /\ UNCHANGED <<sent, lostParts, toClient>>
  BY DEF Parse, Turn, Fresh, deviceVars
<1>2. PICK r \in Parsed(data) :
        /\ pc' = "idle" /\ result' = r
        /\ returned' = IF r = Failure THEN returned ELSE Append(returned, r)
  BY DEF Parse, End
<1>3. /\ Len(returned') <= Len(sent)
      /\ \A k \in DOMAIN returned' : returned'[k] = sent[k]
      /\ Consumed' = 4 * Len(returned') /\ Consumed' = Consumed
  BY <1>1, <1>2 DEF IInv, Framing, InStep, Consumed
<1>4. /\ returned \in Seq(Messages) /\ returned' \in Seq(Messages)
      /\ sent \in Seq(Messages)
      /\ Len(returned) \in Nat /\ Len(returned') \in Nat /\ Len(data) \in Nat
  BY SMTT(20) DEF IInv, TypeOK
<1>5. Consumed = 4 * Len(returned) + 2 + Len(data)
  BY <1>1 DEF IInv, Framing, InStep, Within
<1>6. r # Failure
  <2>1. Len(returned') # Len(returned)
    BY <1>3, <1>4, <1>5
  <2> QED
    BY <1>2, <2>1
<1>7. /\ Len(returned') = Len(returned) + 1 /\ returned'[Len(returned) + 1] = r
      /\ Len(returned) + 1 \in DOMAIN returned' /\ Len(returned) + 1 \in DOMAIN sent
  <2>1. returned' = Append(returned, r)
    BY <1>2, <1>6
  <2>2. Len(returned') = Len(returned) + 1 /\ returned'[Len(returned) + 1] = r
    BY <1>4, <2>1
  <2>3. DOMAIN returned' = 1 .. Len(returned') /\ DOMAIN sent = 1 .. Len(sent)
        /\ Len(sent) \in Nat
    BY <1>4
  <2> QED
    BY <1>3, <1>4, <2>2, <2>3
<1>8. result' = sent[Len(returned) + 1]
  BY <1>2, <1>3, <1>7
<1>9. Len(sent) # Len(returned)
  BY <1>3, <1>4, <1>7
<1>10. AnswerNext
  BY <1>1, <1>9 DEF TurnOK, Unanswered
<1>11. result'.kind \in {"reply", "event", "error", "frame"}
  BY <1>7, <1>8 DEF IInv, WireOK
<1> QED
  BY <1>2, <1>7, <1>8, <1>10, <1>11

LEMMA ParseTurn ==
    ASSUME IInv, Turn, Parse, IInv', Fresh' => Fresh
    PROVE  Turn'
<1>1. /\ UNCHANGED <<call, calls, closed, toDevice, streaming, sent, answered>>
      /\ pc' = "idle" /\ pc = "body"
  BY DEF Parse, End, deviceVars
<1>2. CallOK'
  BY <1>1 DEF Turn, CallOK
<1>3. ASSUME Fresh' PROVE TurnOK'
  <2>1. AnswerNext /\ Len(returned') = Len(returned) + 1 /\ TurnOK
        /\ call.kind \in {"none", "get", "subscribe"}
    BY <1>3, ParsedIsAnswer DEF Turn, Fresh
  <2>2. call.kind # "none"
    BY <1>1 DEF Turn, CallOK
  <2> QED
    BY <1>1, <2>1, <2>2 DEF TurnOK, AtRest, AnswerNext
<1> QED
  BY <1>2, <1>3 DEF Turn

(* The device has got a request: it is the latest one. *)
LEMMA AnswersLatest ==
    ASSUME IInv, Turn, Fresh, DeviceAnswer
    PROVE  /\ Unanswered(Wire(call)) /\ toDevice = Wire(call) /\ pc \in {"length", "body"}
           /\ toDevice[1].of = call
<1>1. toDevice \in Seq(Parts) /\ Len(toDevice) >= 4 /\ ~closed /\ call \in Messages
      /\ pc \in {"idle", "send", "send_body", "length", "body"}
  BY DEF IInv, TypeOK, DeviceAnswer
<1>2. TurnOK
  BY DEF Turn
<1>3. toDevice # <<>> /\ toDevice # Prefix(call)
  <2>1. Len(Prefix(call)) = 2
    BY <1>1, PartsOK
  <2>2. Len(toDevice) # 2 /\ Len(toDevice) # 0
    <3>1. Len(toDevice) \in Nat /\ Len(toDevice) >= 4
      BY <1>1
    <3>2. \A n \in Nat : n >= 4 => n # 2 /\ n # 0
      OBVIOUS
    <3> QED
      BY <3>1, <3>2, Zenon
  <2>3. toDevice # Prefix(call)
    BY <2>1, <2>2, Zenon
  <2>4. toDevice # <<>>
    BY <2>2
  <2> QED
    BY <2>3, <2>4
<1>4. Unanswered(Wire(call)) /\ pc \in {"length", "body"}
  BY <1>1, <1>2, <1>3 DEF TurnOK, AtRest, Unanswered, AnswerNext
<1>5. toDevice = Wire(call)
  BY <1>1, <1>4 DEF Unanswered
<1>6. toDevice[1] = Part(call, 1)
  <2>1. \A p \in 1 .. 4 : Wire(call)[p] = Part(call, p)
    BY <1>1, PartsOK
  <2> QED
    BY <1>5, <2>1
<1> QED
  BY <1>4, <1>5, <1>6 DEF Part

LEMMA DeviceAnswerTurn ==
    ASSUME IInv, Turn, DeviceAnswer, IInv', Fresh' => Fresh
    PROVE  Turn'
<1>1. UNCHANGED <<pc, call, calls, result, closed, returned>> /\ ~closed
  BY DEF DeviceAnswer, clientVars
<1>2. CallOK'
  BY <1>1 DEF Turn, CallOK
<1>3. ASSUME Fresh' PROVE TurnOK'
  <2>1. /\ Unanswered(Wire(call)) /\ toDevice = Wire(call) /\ pc \in {"length", "body"}
        /\ toDevice[1].of = call /\ TurnOK /\ CallOK /\ Fresh
    BY <1>3, AnswersLatest DEF Turn
  <2>2. /\ call \in Messages /\ calls \in Nat /\ sent \in Seq(Messages)
        /\ Len(sent) \in Nat /\ Len(returned) \in Nat
    BY DEF IInv, TypeOK
  <2>3. /\ answered' = answered \union {call.id}
        /\ streaming' = (streaming \/ call.kind = "subscribe") \/ streaming' = streaming
        /\ \E k \in {"reply", "event", "error"} : sent' = Append(sent, Message(k, call.id))
    BY <2>1, Zenon DEF DeviceAnswer, DeviceSend
  <2>4. Len(sent') = Len(sent) + 1 /\ sent'[Len(sent) + 1].id = call.id
    BY <2>2, <2>3 DEF Message
  <2>5. toDevice' = <<>>
    <3>1. Len(Wire(call)) = 4
      BY <2>2, PartsOK
    <3>2. toDevice' = SubSeq(toDevice, 5, Len(toDevice))
      BY DEF DeviceAnswer
    <3>3. toDevice' = SubSeq(toDevice, 5, 4)
      BY <2>1, <3>1, <3>2, Zenon
    <3> QED
      BY <3>3, SubSeqEmpty
  <2>6. AnswerNext'
    BY <1>1, <2>1, <2>2, <2>3, <2>4, <2>5 DEF AnswerNext, Unanswered
  <2>7. answered' \subseteq 1 .. calls
    BY <2>1, <2>2, <2>3 DEF TurnOK, CallOK
  <2>8. streaming' => call.kind = "subscribe" /\ call.id \in answered'
    BY <2>1, <2>3 DEF TurnOK
  <2> QED
    BY <1>1, <2>1, <2>6, <2>7, <2>8 DEF TurnOK
<1> QED
  BY <1>2, <1>3 DEF Turn

LEMMA DeviceEventTurn ==
    ASSUME IInv, Turn, DeviceEvent, Fresh' => Fresh
    PROVE  Turn'
<1>1. /\ UNCHANGED <<pc, call, calls, result, closed, returned, toDevice, answered, streaming>>
      /\ streaming
  BY DEF DeviceEvent, clientVars
<1>2. CallOK'
  BY <1>1 DEF Turn, CallOK
<1>3. ASSUME Fresh' PROVE TurnOK'
  <2>1. TurnOK /\ call.kind = "subscribe" /\ call.id \in answered
    BY <1>1, <1>3 DEF Turn, TurnOK
  <2>2. /\ sent \in Seq(Messages) /\ Len(sent) \in Nat /\ Len(returned) \in Nat
    BY DEF IInv, TypeOK
  <2>3. /\ Len(sent') = Len(sent) + 1
        /\ \A k \in 1 .. Len(sent) : sent'[k] = sent[k]
    BY <2>2 DEF DeviceEvent, DeviceSend
  <2>4. AnswerNext => AnswerNext'
    BY <1>1, <2>1, <2>2, <2>3 DEF AnswerNext
  <2>5. AtRest => AtRest'
    BY <1>1, <2>1 DEF AtRest
  <2> QED
    BY <1>1, <2>1, <2>4, <2>5 DEF TurnOK, Unanswered
<1> QED
  BY <1>2, <1>3 DEF Turn

LEMMA StepTurn ==
    ASSUME IInv, IInv', Turn, [Next]_vars
    PROVE  Turn'
<1>0. Fresh' => Fresh
  BY FreshBefore
<1>1. ASSUME NEW op \in Ops, Call(op) PROVE Turn'
  BY <1>0, <1>1, CallTurn
<1>2. CASE SendPrefix \/ SendBody
  BY <1>0, <1>2, SendTurn
<1>3. CASE Packet \/ DeviceClose \/ UNCHANGED vars
  <2>1. /\ UNCHANGED <<pc, call, result, calls, sent, returned, answered, toDevice, streaming>>
        /\ closed => closed'
    BY <1>3 DEF Packet, DeviceClose, vars, clientVars, deviceVars, historyVars
  <2> QED
    BY <1>0, <2>1, TurnSame
<1>4. CASE SocketTimeout
  <2>1. ~Fresh' /\ pc' = "idle" /\ UNCHANGED <<call, calls>>
    BY <1>4 DEF IInv, TypeOK, SocketTimeout, Fail, End, Fresh
  <2> QED
    BY <2>1 DEF Turn, CallOK
<1>5. CASE EmptyPacket
  BY <1>0, <1>5, EmptyPacketTurn
<1>6. CASE Length
  BY <1>0, <1>6, LengthTurn
<1>7. CASE Parse
  BY <1>0, <1>7, ParseTurn
<1>8. CASE DeviceAnswer
  BY <1>0, <1>8, DeviceAnswerTurn
<1>9. CASE DeviceEvent
  BY <1>0, <1>9, DeviceEventTurn
<1> QED
  BY <1>1, <1>2, <1>3, <1>4, <1>5, <1>6, <1>7, <1>8, <1>9 DEF Next, ClientStep, Finished
-----------------------------------------------------------------------------
(* A step of the connection is one of the channel, or changes nothing of   *)
(* it; the comments say which.                                             *)
StaysInChannel == timeouts' = 0 /\ ~lostParts' /\ call'.kind \in {"get", "subscribe"}

LEMMA Unmoved ==
    ASSUME UNCHANGED <<calls, answered>>, UNCHANGED <<call, result>>, pc' = "idle" <=> pc = "idle"
    PROVE  UNCHANGED Channel!vars
BY DEF Channel!vars

(* Call: Ask. *)
LEMMA CallAsks ==
    ASSUME IInv, NEW op \in Ops, Call(op), StaysInChannel
    PROVE  Channel!Next
<1>1. op \in {"get", "subscribe"} /\ pc = "idle" /\ pc' = "send" /\ result' = NoMessage
      /\ calls' = calls + 1 /\ call' = Message(op, calls + 1) /\ UNCHANGED answered
  BY ParamsAssumption DEF Call, StaysInChannel, StartRecv, Message, historyVars
<1>2. call'.id = calls + 1 /\ result'.kind = "none"
  BY <1>1 DEF Message, NoMessage
<1>3. Channel!Ask("app")
  BY <1>1, <1>2 DEF Channel!Ask
<1> QED
  BY <1>3 DEF Channel!Next

(* A failure: End without an outcome. *)
LEMMA FailureEnds ==
    ASSUME Turn, pc # "idle", End(Failure), UNCHANGED <<call, calls, answered>>
    PROVE  Channel!Next
<1>1. result.kind = "none" /\ result'.kind = "failure" /\ pc' = "idle"
  BY DEF Turn, CallOK, End, Failure, NoMessage, Message
<1>2. Channel!End("app")
  BY <1>1 DEF Channel!End
<1> QED
  BY <1>2 DEF Channel!Next

(* Parse: End with the answer. *)
LEMMA ParseEnds ==
    ASSUME IInv, IInv', Turn, Parse, Fresh
    PROVE  Channel!Next
<1>1. pc = "body" /\ UNCHANGED <<call, calls, answered>>
  BY DEF Parse
<1>2. /\ pc' = "idle" /\ result'.id = call.id /\ call.id \in answered
      /\ result'.kind \in {"reply", "event", "error", "frame"}
  BY ParsedIsAnswer DEF AnswerNext
<1>3. Channel!End("app")
  BY <1>1, <1>2 DEF Channel!End
<1> QED
  BY <1>3 DEF Channel!Next

(* DeviceAnswer: Answer. *)
LEMMA DeviceAnswers ==
    ASSUME IInv, Turn, DeviceAnswer, Fresh
    PROVE  Channel!Next
<1>1. /\ Unanswered(Wire(call)) /\ toDevice[1].of = call /\ pc \in {"length", "body"}
  BY AnswersLatest
<1>2. /\ UNCHANGED <<pc, call, calls, result>>
      /\ answered' = answered \union {call.id}
  BY <1>1 DEF DeviceAnswer, clientVars
<1>3. call.id \in 1 .. calls /\ call.id \notin answered
  BY <1>1 DEF Turn, CallOK, Unanswered, IInv, TypeOK
<1>4. Channel!Answer(call.id)
  BY <1>2, <1>3 DEF Channel!Answer
<1> QED
  BY <1>3, <1>4 DEF Channel!Next

LEMMA StepRefines ==
    ASSUME IInv, IInv', Turn, [Next]_vars, StaysInChannel
    PROVE  [Channel!Next]_Channel!vars
<1>0. Fresh
  BY FreshBefore DEF StaysInChannel, Fresh
<1>1. ASSUME NEW op \in Ops, Call(op) PROVE Channel!Next
  BY <1>1, CallAsks
<1>2. CASE SendPrefix \/ SendBody
  <2>1. CASE SocketSendFails
    BY <1>2, <2>1, FailureEnds DEF SocketSendFails, SendPrefix, SendBody
  <2>2. CASE ~SocketSendFails
    <3>1. /\ UNCHANGED <<call, calls, answered, result>> /\ pc # "idle" /\ pc' # "idle"
      BY <1>2, <2>2 DEF SendPrefix, SendBody, SocketSend, StaysInChannel, StartRecv
    <3> QED
      BY <3>1, Unmoved
  <2> QED
    BY <2>1, <2>2
<1>3. CASE Packet \/ Length \/ DeviceEvent \/ DeviceClose \/ UNCHANGED vars
  <2>1. UNCHANGED <<call, calls, answered, result>> /\ (pc' = "idle" <=> pc = "idle")
    BY <1>3 DEF Packet, Length, DeviceEvent, DeviceClose, vars, clientVars, deviceVars,
                historyVars
  <2> QED
    BY <2>1, Unmoved
<1>4. CASE SocketTimeout
  BY <1>4 DEF IInv, TypeOK, SocketTimeout, StaysInChannel
<1>5. CASE EmptyPacket
  BY <1>5, FailureEnds DEF EmptyPacket, Receiving, Fail, historyVars
<1>6. CASE Parse
  BY <1>0, <1>6, ParseEnds
<1>7. CASE DeviceAnswer
  BY <1>0, <1>7, DeviceAnswers
<1> QED
  BY <1>1, <1>2, <1>3, <1>4, <1>5, <1>6, <1>7 DEF Next, ClientStep, Finished

(* Until a timeout or the loss of a part, every request on the connection, *)
(* the subscription of a stream included, is answered at most once and     *)
(* ends with its own answer or with a failure.                             *)
THEOREM ConnectionImplementsChannel == Spec => ImplementsChannel
<1>1. Init => Channel!Init
  BY DEF Init, Channel!Init, Message, NoMessage
<1>2. IInv /\ IInv' /\ Turn /\ [Next]_vars => Turn'
  BY StepTurn
<1>3. IInv /\ IInv' /\ Turn /\ [Next]_vars
      => [timeouts' = 0 /\ ~lostParts' /\ call'.kind \in {"get", "subscribe"}
          => [Channel!Next]_Channel!vars]_vars
  BY StepRefines DEF StaysInChannel
<1> QED
  BY <1>1, <1>2, <1>3, InitTurn, InStepAlways, PTL DEF Spec, ImplementsChannel
=============================================================================
