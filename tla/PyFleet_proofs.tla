---------------------------- MODULE PyFleet_proofs ----------------------------
(***************************************************************************)
(* An application that searches for its devices uses PyScanner as it is    *)
(* meant to be used, so that what is proved of PyScanner holds of it too,  *)
(* for any network, search, application and other clients.                 *)
(***************************************************************************)
EXTENDS PyFleet, PyScanner_proofs, FiniteSetTheorems

LEMMA NoInfos ==
    ASSUME NEW seq, seq = <<>>
    PROVE  /\ seq \in Seq(Network \cup {NoInfo}) /\ seq \in Seq(Network)
           /\ 0 \in 0 .. Len(seq) /\ 0 \in 0 .. Duration /\ Duration \in 0 .. Duration
           /\ {} \subseteq 1 .. Len(seq)
<1>1. Len(seq) = 0
  OBVIOUS
<1>2. seq \in Seq(Network \cup {NoInfo}) /\ seq \in Seq(Network)
  OBVIOUS
<1> QED
  BY <1>1, <1>2, DiscoveryAssumption

LEMMA DiscoveryStepOK ==
    ASSUME DiscoveryTypeOK, [DiscoveryNext]_discoveryVars PROVE DiscoveryTypeOK'
<1> USE DiscoveryAssumption
<1>1. CASE UNCHANGED discoveryVars
  BY <1>1 DEF DiscoveryTypeOK, discoveryVars
<1>2. ASSUME NEW info \in Network \cup {NoInfo}, AddService(info) PROVE DiscoveryTypeOK'
  <2>1. infos' \in Seq(Network \cup {NoInfo}) /\ Len(infos') = Len(infos) + 1 /\ Len(infos) \in Nat
    BY <1>2 DEF AddService, DiscoveryTypeOK
  <2>2. tried' \in 0 .. Len(infos') /\ refused' \subseteq 1 .. Len(infos')
    BY <1>2, <2>1 DEF AddService, DiscoveryTypeOK
  <2> QED
    BY <1>2, <2>1, <2>2 DEF AddService, DiscoveryTypeOK
<1>3. ASSUME NEW elapsed \in 0 .. Duration, elapsed <= duration, WaitReturns(elapsed)
      PROVE  DiscoveryTypeOK'
  <2>1. duration' \in 0 .. Duration
    BY <1>3 DEF WaitReturns, Remaining, DiscoveryTypeOK
  <2>2. phase' \in {"search", "connect", "done"} /\ notified' \in BOOLEAN
    BY <1>3 DEF WaitReturns
  <2> QED
    BY <1>3, <2>1, <2>2 DEF WaitReturns, DiscoveryTypeOK
<1>4. ASSUME NEW succeeds \in BOOLEAN, TryConnect(succeeds) PROVE DiscoveryTypeOK'
  <2> DEFINE info == infos[tried + 1]
  <2>1. Len(infos) \in Nat /\ (infos # <<>> => Len(infos) >= 1)
    BY EmptySeq DEF DiscoveryTypeOK
  <2>2. ToTry \in 0 .. Len(infos)
    BY <2>1 DEF ToTry
  <2>3. tried + 1 \in 1 .. Len(infos)
    BY <1>4, <2>1, <2>2 DEF TryConnect, Connects, DiscoveryTypeOK
  <2>4. info \in Network \cup {NoInfo}
    BY <2>3 DEF DiscoveryTypeOK
  <2>5. found' \in Seq(Network)
    BY <1>4, <2>4 DEF TryConnect, Connects, DiscoveryTypeOK
  <2>6. tried' = tried + 1 /\ refused' \subseteq refused \cup {tried + 1}
    BY <1>4 DEF TryConnect, Connects, NextInfo
  <2>7. tried' \in 0 .. Len(infos) /\ refused' \subseteq 1 .. Len(infos)
    BY <2>1, <2>3, <2>6 DEF DiscoveryTypeOK
  <2> QED
    BY <1>4, <2>5, <2>7 DEF TryConnect, Connects, DiscoveryTypeOK
<1>5. CASE SearchReturns
  <2>1. /\ infos' = <<>> /\ tried' = 0 /\ refused' = {} /\ duration' = 0
        /\ one' = FALSE /\ notified' = FALSE /\ phase' = "done" /\ found' = found
    BY <1>5 DEF SearchReturns
  <2> QED
    BY <2>1, NoInfos DEF DiscoveryTypeOK
<1> QED
  BY <1>1, <1>2, <1>3, <1>4, <1>5 DEF DiscoveryNext

-----------------------------------------------------------------------------
(* What has been found after any number of tries.                          *)
Matched ==
    phase # "done" =>
        /\ tried <= ToTry /\ (phase = "search" => tried = 0)
        /\ refused \subseteq 1 .. tried
        /\ Len(found) = Cardinality(Kept(tried))
        /\ \A k \in Kept(tried) : found[Cardinality(Kept(k))] = infos[k]

LEMMA KeptIsFinite ==
    ASSUME NEW k \in Nat
    PROVE  IsFiniteSet(Kept(k)) /\ Cardinality(Kept(k)) \in Nat
<1>1. IsFiniteSet(1 .. k)
  BY FS_Interval
<1> QED
  BY <1>1, FS_Difference, FS_CardinalityType DEF Kept

(* The positions up to k are fewer than those up to a later one.           *)
LEMMA KeptGrows ==
    ASSUME NEW n \in Nat, NEW k \in Kept(n)
    PROVE  Cardinality(Kept(k)) \in 1 .. Cardinality(Kept(n))
<1>1. k \in Nat /\ k \in Kept(k) /\ Kept(k) \subseteq Kept(n)
  BY DEF Kept
<1>2. Cardinality(Kept(k)) <= Cardinality(Kept(n))
  BY <1>1, KeptIsFinite, FS_Subset
<1>3. Cardinality(Kept(k)) # 0
  BY <1>1, KeptIsFinite, FS_EmptySet
<1> QED
  BY <1>1, <1>2, <1>3, KeptIsFinite

LEMMA MatchedNext ==
    ASSUME DiscoveryTypeOK, Matched, [DiscoveryNext]_discoveryVars PROVE Matched'
<1> SUFFICES ASSUME phase' # "done" PROVE Matched'
  BY DEF Matched
<1>1. /\ infos \in Seq(Network \cup {NoInfo}) /\ Len(infos) \in Nat /\ tried \in Nat
      /\ found \in Seq(Network) /\ Len(found) \in Nat /\ (infos = <<>> => Len(infos) = 0)
      /\ (infos # <<>> => Len(infos) >= 1)
  BY EmptySeq DEF DiscoveryTypeOK
<1>2. /\ phase # "done" => /\ tried <= ToTry /\ (phase = "search" => tried = 0)
                          /\ refused \subseteq 1 .. tried
                          /\ Len(found) = Cardinality(Kept(tried))
                          /\ \A k \in Kept(tried) : found[Cardinality(Kept(k))] = infos[k]
      /\ ToTry \in 0 .. Len(infos)
  BY <1>1 DEF Matched, ToTry
<1>3. CASE UNCHANGED discoveryVars
  BY <1>3 DEF Matched, discoveryVars, ToTry, Kept
<1>4. ASSUME NEW info \in Network \cup {NoInfo}, AddService(info) PROVE Matched'
  <2>1. tried' = 0 /\ refused' \subseteq 1 .. tried' /\ Len(found') = Cardinality(Kept(tried))
        /\ refused' = refused /\ tried' = tried
    BY <1>2, <1>4 DEF AddService
  <2>2. infos' \in Seq(Network \cup {NoInfo}) /\ Len(infos') = Len(infos) + 1
    BY <1>1, <1>4 DEF AddService
  <2>3. ToTry' >= 0
    BY <1>1, <2>2 DEF ToTry
  <2>4. \A k \in Kept(0) : FALSE
    BY DEF Kept
  <2> QED
    BY <2>1, <2>3, <2>4 DEF Matched, Kept
<1>5. ASSUME NEW elapsed \in 0 .. Duration, WaitReturns(elapsed) PROVE Matched'
  BY <1>2, <1>5 DEF WaitReturns, Matched, ToTry, Kept
<1>6. ASSUME NEW succeeds \in BOOLEAN, TryConnect(succeeds) PROVE Matched'
  <2> DEFINE n == tried + 1
  <2>1. /\ phase # "done" /\ tried < ToTry /\ n \in 1 .. Len(infos) /\ n \in Nat /\ tried' = n
        /\ UNCHANGED <<one, phase, infos>> /\ phase = "connect"
    BY <1>1, <1>2, <1>6 DEF TryConnect, NextInfo
  <2>2. ToTry' = ToTry /\ n <= ToTry
    BY <1>1, <1>2, <2>1 DEF ToTry
  <2>3. n \notin Kept(tried) /\ n \notin refused
    BY <1>1, <1>2, <2>1 DEF Kept
  <2>4. CASE Connects(infos[n], succeeds)
    <3>1. found' = Append(found, infos[n]) /\ refused' = refused
      BY <1>6, <2>4 DEF TryConnect
    <3>2. /\ Len(found') = Len(found) + 1 /\ found'[Len(found) + 1] = infos[n]
          /\ \A i \in 1 .. Len(found) : found'[i] = found[i]
      BY <1>1, <2>1, <3>1 DEF DiscoveryTypeOK
    <3>3. Kept(n) = Kept(tried) \cup {n}
      BY <1>1, <2>1, <2>3 DEF Kept
    <3>4. Cardinality(Kept(n)) = Len(found) + 1
      <4>1. IsFiniteSet(Kept(tried)) /\ Cardinality(Kept(tried)) = Len(found)
        BY <1>1, <1>2, <2>1, KeptIsFinite
      <4>2. Cardinality(Kept(tried) \cup {n}) = Cardinality(Kept(tried)) + 1
        BY <2>3, <4>1, FS_AddElement
      <4> QED
        BY <3>3, <4>1, <4>2
    <3>5. ASSUME NEW k \in Kept(n) PROVE found'[Cardinality(Kept(k))] = infos[k]
      <4>1. CASE k = n
        BY <3>2, <3>4, <4>1
      <4>2. CASE k \in Kept(tried)
        BY <1>1, <1>2, <2>1, <3>2, <4>2, KeptGrows
      <4> QED
        BY <3>3, <3>5, <4>1, <4>2
    <3>6. Kept(tried)' = Kept(n) /\ \A k \in Nat : Kept(k)' = Kept(k)
      BY <2>1, <3>1 DEF Kept
    <3>7. Kept(n) \subseteq Nat /\ refused' \subseteq 1 .. n
      BY <1>1, <1>2, <2>1, <3>1 DEF Kept
    <3>8. \A k \in Kept(tried)' : found'[Cardinality(Kept(k)')] = infos'[k]
      BY <2>1, <3>5, <3>6, <3>7
    <3> QED
      BY <2>1, <2>2, <3>2, <3>4, <3>6, <3>7, <3>8 DEF Matched
  <2>5. CASE ~Connects(infos[n], succeeds)
    <3>1. found' = found /\ refused' = refused \cup {n}
      BY <1>6, <2>5 DEF TryConnect
    <3>2. Kept(tried)' = Kept(tried) /\ refused' \subseteq 1 .. n
      <4>1. Kept(tried)' = 1 .. n \ refused' /\ 1 .. n = 1 .. tried \cup {n}
        BY <1>1, <2>1 DEF Kept
      <4> QED
        BY <1>1, <1>2, <2>1, <2>3, <3>1, <4>1 DEF Kept
    <3>3. \A k \in Kept(tried) : Kept(k)' = Kept(k)
      BY <1>1, <2>1, <3>1 DEF Kept
    <3>4. \A k \in Kept(tried) : found'[Cardinality(Kept(k)')] = infos'[k]
      BY <1>2, <2>1, <3>1, <3>3
    <3> QED
      BY <1>2, <2>1, <2>2, <3>1, <3>2, <3>4 DEF Matched
  <2> QED
    BY <2>4, <2>5
<1>7. CASE SearchReturns
  BY <1>7 DEF SearchReturns
<1> QED
  BY <1>3, <1>4, <1>5, <1>6, <1>7 DEF DiscoveryNext

(* A step of the composition is one of the search, or one that PyScanner   *)
(* allows: the application calls methods of the scanners that it found.    *)
LEMMA FleetStep ==
    ASSUME DiscoveryTypeOK, [FleetNext]_fleetVars
    PROVE  [DiscoveryNext]_discoveryVars /\ [Next]_vars
<1>1. found \in Seq(Devices) /\ \A k \in DOMAIN found : found[k] \in Devices
  <2>1. found \in Seq(Network) /\ Network \subseteq Devices
    BY FleetAssumption DEF DiscoveryTypeOK
  <2>2. DOMAIN found = 1 .. Len(found) /\ \A k \in DOMAIN found : found[k] \in Devices
    BY <2>1
  <2> QED
    BY <2>1, <2>2
<1>2. CASE UNCHANGED fleetVars
  BY <1>2 DEF fleetVars
<1>3. CASE DiscoveryNext /\ UNCHANGED vars
  BY <1>3
<1>4. CASE /\ UNCHANGED discoveryVars
           /\ \/ \E c \in Clients : Step(c)
              \/ \E c \in Clients \ {App}, d \in Devices : Call(c, d)
              \/ \E k \in DOMAIN found : Call(App, found[k])
              \/ Sync(App, found)
              \/ \E d \in Devices : DeviceStep(d)
  BY <1>1, <1>4, FleetAssumption DEF Next
<1> QED
  BY <1>2, <1>3, <1>4 DEF FleetNext

LEMMA DiscoveryInvariance == FleetSpec => []DiscoveryTypeOK
<1>1. FleetInit => DiscoveryTypeOK
  BY NoInfos DEF FleetInit, DiscoveryInit, DiscoveryTypeOK
<1>2. DiscoveryTypeOK /\ [FleetNext]_fleetVars => DiscoveryTypeOK'
  BY FleetStep, DiscoveryStepOK
<1> QED
  BY <1>1, <1>2, PTL DEF FleetSpec

(* The composition implements PyScanner: searching first, and calling only *)
(* the methods of what was found, adds no behaviour.                       *)
THEOREM FleetImplementsScanner == FleetSpec => Spec
<1>1. FleetInit => Init
  BY DEF FleetInit
<1>2. DiscoveryTypeOK /\ [FleetNext]_fleetVars => [Next]_vars
  BY FleetStep
<1> QED
  BY <1>1, <1>2, DiscoveryInvariance, PTL DEF FleetSpec, Spec

(* The search leaves out what it could not connect to, and nothing else.   *)
THEOREM FoundIsInOrder == FleetSpec => []FoundInOrder
<1>1. FleetInit => Matched
  <2> SUFFICES ASSUME FleetInit PROVE Matched
    OBVIOUS
  <2>1. /\ phase = "search" /\ infos = <<>> /\ tried = 0 /\ found = <<>> /\ refused = {}
        /\ Kept(0) = {} /\ Len(infos) = 0 /\ Len(found) = 0
    BY DEF FleetInit, DiscoveryInit, Kept
  <2> QED
    BY <2>1, FS_EmptySet DEF Matched, ToTry
<1>2. DiscoveryTypeOK /\ Matched /\ [FleetNext]_fleetVars => Matched'
  BY FleetStep, MatchedNext
<1>3. DiscoveryTypeOK /\ Matched => FoundInOrder
  <2> SUFFICES ASSUME DiscoveryTypeOK, Matched, phase = "connect", tried >= ToTry
               PROVE  tried = ToTry
    BY DEF FoundInOrder, Matched
  <2>1. tried \in Nat /\ tried <= ToTry /\ Len(infos) \in Nat
    BY DEF DiscoveryTypeOK, Matched
  <2> QED
    BY <2>1 DEF ToTry
<1> QED
  BY <1>1, <1>2, <1>3, DiscoveryInvariance, PTL DEF FleetSpec

(* Types of the search and of the scanners together.                       *)
THEOREM FleetTypeCorrect == FleetSpec => []FleetTypeOK
BY FleetImplementsScanner, DiscoveryInvariance, TypeCorrect, PTL DEF FleetTypeOK

(* The four properties of the methods hold for what the search found.      *)
THEOREM FleetCorrect ==
    FleetSpec => []SameRate /\ []ClocksAgree /\ OtherPartKept /\ SyncedAsAsked
BY FleetImplementsScanner, RatesAreSame, ClocksDoAgree, OtherPartIsKept, SyncedIsAsAsked, PTL
=============================================================================
