--------------------------- MODULE PyScanner_proofs ---------------------------
(***************************************************************************)
(* Proofs about PyScanner, for any number of clients, devices, calls and   *)
(* changes, any scan patterns, frame rates and clocks.                     *)
(***************************************************************************)
EXTENDS PyScanner, SequenceTheorems, TLAPS

(* A client that is not in a method, after one or before its first one.    *)
Results == {"none", "set", "synced", "not synced", "in sync", "not in sync",
            "error", "restarted"}

LEMMA IdleOK ==
    /\ TaskOK(Idle)
    /\ \A t : \A r \in Results : TaskOK(Ended(t, r))
<1>1. Idle \in Task
  BY DEF Idle, Task, NoChange, Default, Changes, Algorithms, Configs, Kinds, Hosts
<1>2. TaskOK(Idle)
  BY <1>1 DEF TaskOK, Idle
<1>3. ASSUME NEW t, NEW r \in Results PROVE TaskOK(Ended(t, r))
  <2>1. Ended(t, r) \in Task
    BY <1>1, <1>3 DEF Ended, Task, Results
  <2> QED
    BY <2>1 DEF TaskOK, Ended, Idle
<1> QED
  BY <1>2, <1>3

(* The tasks stay what they should be if the one that changes does.        *)
TasksOK == DOMAIN task = Clients /\ \A c \in Clients : TaskOK(task[c])

LEMMA GoesOK ==
    ASSUME TypeOK, NEW c \in Clients, NEW t, TaskOK(t), Goes(c, t)
    PROVE  TasksOK' /\ calls' \in Nat /\ changes' \in Nat
BY DEF TypeOK, TasksOK, Goes

LEMMA StartOK ==
    ASSUME TypeOK, NEW c \in Clients, NEW t, TaskOK(t), Start(c, t)
    PROVE  TypeOK'
BY DEF TypeOK, Start, deviceVars

LEMMA WritesOK ==
    ASSUME TypeOK, NEW c \in Clients, NEW d, NEW t, NEW S, TaskOK(t), Writes(c, d, t, S)
    PROVE  TasksOK' /\ changes' \in Nat
<1>1. ASSUME NEW x \in Clients PROVE TaskOK([task[x] EXCEPT !.disturbed = TRUE])
  <2> DEFINE t1 == [task[x] EXCEPT !.disturbed = TRUE]
  <2>1. TaskOK(task[x])
    BY DEF TypeOK
  <2>2. t1 \in Task
    BY <2>1 DEF TaskOK, Task
  <2>3. /\ t1.pc = task[x].pc /\ t1.i = task[x].i /\ t1.devices = task[x].devices
        /\ t1.result = task[x].result /\ t1.left = task[x].left /\ t1.change = task[x].change
        /\ t1.rate = task[x].rate /\ t1.filled = task[x].filled /\ t1.stamps = task[x].stamps
    BY <2>1 DEF TaskOK, Task
  <2> QED
    BY <2>1, <2>2, <2>3 DEF TaskOK
<1> QED
  BY <1>1 DEF TypeOK, TasksOK, Writes

(* The methods start with what TaskOK says.                                *)
LEMMA CallOK ==
    ASSUME TypeOK, NEW c \in Clients, NEW d \in Devices, Call(c, d)
    PROVE  TypeOK'
<1>1. Idle \in Task /\ TaskOK(Idle) /\ <<d>> \in Seq(Devices) /\ Len(<<d>>) = 1
  BY IdleOK DEF TaskOK
<1>2. CASE SetAlgorithms(c, d)
  <2>1. PICK a \in Algorithms, persist \in Persist(FALSE) :
          Start(c, [Idle EXCEPT !.pc = "get", !.devices = <<d>>, !.persist = persist,
                                !.change = [part |-> "algorithms", value |-> a]])
    BY <1>2 DEF SetAlgorithms
  <2>2. [part |-> "algorithms", value |-> a] \in Changes /\ persist \in BOOLEAN
    BY DEF Changes, Persist
  <2>3. TaskOK([Idle EXCEPT !.pc = "get", !.devices = <<d>>, !.persist = persist,
                            !.change = [part |-> "algorithms", value |-> a]])
    <3> DEFINE t == [Idle EXCEPT !.pc = "get", !.devices = <<d>>, !.persist = persist,
                            !.change = [part |-> "algorithms", value |-> a]]
    <3>1. t \in Task
      BY <1>1, <2>2 DEF Task
    <3>2. /\ t.pc = "get" /\ t.i = 1 /\ t.devices = <<d>> /\ t.result = "none"
          /\ t.left = None /\ Len(t.stamps) = 0
      BY DEF Idle
    <3> HIDE DEF t
    <3>3. t.i \in 1 .. Len(t.devices) /\ Len(t.devices) = 1
      BY <1>1, <3>2
    <3>4. t.pc # "poll" /\ t.pc # "pattern" /\ t.pc # "stamp" /\ t.pc # "fill"
      BY <3>2
    <3>5. Len(t.stamps) = IF t.pc = "stamp" THEN t.i - 1 ELSE 0
      BY <3>2, <3>4
    <3>6. TaskOK(t)
      BY <3>1, <3>2, <3>3, <3>4, <3>5 DEF TaskOK
    <3> QED
      BY <3>6 DEF t
  <2> QED
    BY <2>1, <2>3, StartOK
<1>3. CASE SetTimeSynchronization(c, d)
  <2>1. PICK kind \in Kinds, hosts \in {None, "own"}, persist \in Persist(TRUE),
             wait \in {None, MaxDuration} :
          Start(c, [Idle EXCEPT !.pc = "get", !.devices = <<d>>, !.persist = persist,
                                !.left = wait,
                                !.change = [part |-> "time", kind |-> kind, hosts |-> hosts]])
    BY <1>3 DEF SetTimeSynchronization
  <2>2. [part |-> "time", kind |-> kind, hosts |-> hosts] \in Changes /\ persist \in BOOLEAN
    BY DEF Changes, Persist, Hosts
  <2>3. TaskOK([Idle EXCEPT !.pc = "get", !.devices = <<d>>, !.persist = persist, !.left = wait,
                            !.change = [part |-> "time", kind |-> kind, hosts |-> hosts]])
    <3> DEFINE t == [Idle EXCEPT !.pc = "get", !.devices = <<d>>, !.persist = persist, !.left = wait,
                            !.change = [part |-> "time", kind |-> kind, hosts |-> hosts]]
    <3>1. t \in Task
      BY <1>1, <2>2, ScannerAssumption DEF Task
    <3>2. /\ t.pc = "get" /\ t.i = 1 /\ t.devices = <<d>> /\ t.result = "none"
          /\ t.change.part = "time" /\ Len(t.stamps) = 0
      BY DEF Idle
    <3> HIDE DEF t
    <3>3. t.i \in 1 .. Len(t.devices) /\ Len(t.devices) = 1
      BY <1>1, <3>2
    <3>4. t.pc # "poll" /\ t.pc # "pattern" /\ t.pc # "stamp" /\ t.pc # "fill"
      BY <3>2
    <3>5. Len(t.stamps) = IF t.pc = "stamp" THEN t.i - 1 ELSE 0
      BY <3>2, <3>4
    <3>6. TaskOK(t)
      BY <3>1, <3>2, <3>3, <3>4, <3>5 DEF TaskOK
    <3> QED
      BY <3>6 DEF t
  <2> QED
    BY <2>1, <2>3, StartOK
<1>4. CASE SetScanPattern(c, d)
  <2>1. /\ calls' = calls + 1 /\ UNCHANGED <<config, synced>>
        /\ Writes(c, d, [Idle EXCEPT !.result = "set"], {"max", "fill", "pattern", "stamp"})
    BY <1>4 DEF SetScanPattern
  <2>2. TaskOK([Idle EXCEPT !.result = "set"])
    BY IdleOK DEF Ended, Results
  <2>3. TasksOK' /\ changes' \in Nat
    BY <2>1, <2>2, WritesOK
  <2>4. PICK shape \in Shapes, persist \in Persist(FALSE) :
          /\ pattern' = [pattern EXCEPT ![d] = [shape |-> shape, target |-> 0]]
          /\ saved' = IF persist THEN [saved EXCEPT ![d].pattern = pattern'[d]] ELSE saved
    BY <1>4 DEF SetScanPattern
  <2>5. pattern' \in [Devices -> Patterns]
    BY <2>4 DEF TypeOK, Patterns
  <2>6. saved' \in [Devices -> [config : Configs, pattern : Patterns]]
    BY <2>4, <2>5 DEF TypeOK
  <2> QED
    BY <2>1, <2>3, <2>5, <2>6 DEF TypeOK, TasksOK
<1> QED
  BY <1>2, <1>3, <1>4 DEF Call

LEMMA SyncOK ==
    ASSUME TypeOK, NEW c \in Clients, NEW devices \in Seq(Devices), Sync(c, devices)
    PROVE  TypeOK'
<1>1. PICK shape \in Shapes \cup {None}, target \in {0, 1} :
         Start(c, [Idle EXCEPT !.pc = "max", !.devices = devices, !.shape = shape,
                               !.target = target])
  BY DEF Sync
<1>2. Idle \in Task /\ TaskOK(Idle) /\ Len(devices) \in Nat /\ Len(devices) > 0
  BY IdleOK, EmptySeq DEF TaskOK, Sync
<1>3. TaskOK([Idle EXCEPT !.pc = "max", !.devices = devices, !.shape = shape, !.target = target])
  <2> DEFINE t == [Idle EXCEPT !.pc = "max", !.devices = devices, !.shape = shape,
                               !.target = target]
  <2>0. target \in Nat
    OBVIOUS
  <2>1. t \in Task
    BY <1>2, <2>0 DEF Task
  <2>2. /\ t.pc = "max" /\ t.i = 1 /\ t.devices = devices /\ t.result = "none" /\ t.stamps = <<>>
    BY DEF Idle
  <2> QED
    BY <1>2, <2>1, <2>2 DEF TaskOK
<1> QED
  BY <1>1, <1>3, StartOK

(* The requests of the methods.                                            *)
LEMMA ChangedOK ==
    ASSUME NEW cfg \in Configs, NEW change \in Changes
    PROVE  Changed(cfg, change) \in Configs
<1>1. CASE change.part = "algorithms"
  <2>1. change.value \in Algorithms
    BY <1>1 DEF Changes
  <2> QED
    BY <1>1, <2>1 DEF Changed, Configs
<1>2. CASE change.part # "algorithms"
  <2>1. change.kind \in Kinds /\ change.hosts \in Hosts \cup {None}
    BY <1>2 DEF Changes
  <2>2. WithTime(cfg.time, change) \in [kind : Kinds, hosts : Hosts]
    BY <2>1 DEF WithTime, Configs, Hosts
  <2> QED
    BY <1>2, <2>2 DEF Changed, Configs
<1> QED
  BY <1>1, <1>2

(* Every request keeps the types.                                         *)
LEMMA StepOK ==
    ASSUME TypeOK, NEW c \in Clients, Step(c) PROVE TypeOK'
<1> DEFINE t == task[c]
<1>0. /\ TaskOK(t) /\ t \in Task
  BY DEF TypeOK, TaskOK
<1>t. /\ t.pc \in {"idle", "get", "set", "poll", "max", "fill", "pattern", "stamp"}
      /\ t.devices \in Seq(Devices) /\ t.i \in Nat \ {0} /\ t.change \in Changes
      /\ t.copy \in Configs /\ t.left \in Nat \cup {None} /\ t.shape \in Shapes \cup {None}
      /\ t.target \in Nat /\ t.rate \in Nat /\ t.filled \in Shapes \cup {None}
      /\ t.stamps \in Seq(Int) /\ t.persist \in BOOLEAN
  BY <1>0 DEF Task
<1>l. Len(t.devices) \in Nat /\ Len(t.stamps) \in Nat
  BY <1>t, LenProperties
<1>d. t.pc # "idle" => Target(t) \in Devices
  BY <1>0, <1>t DEF TaskOK, Target
<1>e. ASSUME NEW r \in Results PROVE TaskOK(Ended(t, r))
  BY IdleOK
<1>i. t.pc # "idle" => /\ NextI(t) \in 1 .. Len(t.devices) /\ NextI(t) \in Nat \ {0}
                       /\ ~IsLast(t) => NextI(t) = t.i + 1
                       /\ IsLast(t) => NextI(t) = 1
  BY SMTT(20), <1>0, <1>t, <1>l DEF TaskOK, NextI, IsLast
<1>g. ASSUME NEW u, TaskOK(u), Goes(c, u), UNCHANGED deviceVars PROVE TypeOK'
  BY <1>g, GoesOK DEF TypeOK, TasksOK, deviceVars
<1>1. CASE Get(c)
  <2> DEFINE u == [t EXCEPT !.pc = "set", !.copy = config[Target(t)], !.disturbed = FALSE]
  <2>1. t.pc = "get" /\ Goes(c, u) /\ UNCHANGED deviceVars
    BY <1>1 DEF Get
  <2>2. config[Target(t)] \in Configs
    BY <1>d, <2>1 DEF TypeOK
  <2>3. u \in Task
    BY <1>0, <2>2 DEF Task
  <2>4. /\ u.pc = "set" /\ u.i = t.i /\ u.devices = t.devices /\ u.result = t.result
        /\ u.stamps = t.stamps
    BY <1>0 DEF Task
  <2>5. TaskOK(u)
    BY <1>0, <2>1, <2>3, <2>4 DEF TaskOK
  <2> QED
    BY <1>g, <2>1, <2>5
<1>2. CASE Set(c)
  <2> DEFINE d == Target(t)
             cfg == Changed(t.copy, t.change)
             u == IF t.left = None THEN Ended(t, "set")
                  ELSE [t EXCEPT !.pc = "poll", !.disturbed = FALSE]
  <2>1. /\ t.pc = "set" /\ config' = [config EXCEPT ![d] = cfg]
        /\ synced' = [synced EXCEPT ![d] = @ /\ cfg.time = config[d].time]
        /\ saved' = IF t.persist THEN [saved EXCEPT ![d].config = cfg] ELSE saved
        /\ Writes(c, d, u, {"set", "poll"}) /\ UNCHANGED <<pattern, calls>>
    BY <1>2 DEF Set
  <2>2. cfg \in Configs /\ d \in Devices
    BY <1>t, <1>d, <2>1, ChangedOK
  <2>3. TaskOK(u)
    <3>1. CASE t.left = None
      BY <3>1, <1>e DEF Results
    <3>2. CASE t.left # None
      <4> DEFINE v == [t EXCEPT !.pc = "poll", !.disturbed = FALSE]
      <4>1. v \in Task
        BY <1>0 DEF Task
      <4>2. /\ v.pc = "poll" /\ v.i = t.i /\ v.devices = t.devices /\ v.result = t.result
            /\ v.stamps = t.stamps /\ v.left = t.left /\ v.change = t.change
        BY <1>0 DEF Task
      <4> QED
        BY <1>0, <2>1, <3>2, <4>1, <4>2 DEF TaskOK
    <3> QED
      BY <3>1, <3>2
  <2>4. TasksOK' /\ changes' \in Nat
    BY <2>1, <2>3, WritesOK
  <2>5. config' \in [Devices -> Configs] /\ synced' \in [Devices -> BOOLEAN]
    BY <2>1, <2>2 DEF TypeOK
  <2>6. saved' \in [Devices -> [config : Configs, pattern : Patterns]]
    BY <2>1, <2>2 DEF TypeOK
  <2> QED
    BY <2>1, <2>4, <2>5, <2>6 DEF TypeOK, TasksOK
<1>3. CASE Poll(c)
  <2> DEFINE u == [t EXCEPT !.left = @ - 1]
  <2>1. t.pc = "poll" /\ UNCHANGED deviceVars
        /\ (Goes(c, Ended(t, "not synced")) \/ Goes(c, Ended(t, "synced"))
            \/ (t.left # 0 /\ Goes(c, u)))
    BY <1>3 DEF Poll
  <2>2. t.left # 0 => TaskOK(u)
    <3> SUFFICES ASSUME t.left # 0 PROVE TaskOK(u)
      OBVIOUS
    <3>0. t.left # None
      BY <1>0, <2>1 DEF TaskOK
    <3>a. t.left \in Nat
      BY <1>t, <3>0
    <3>1. t.left - 1 \in Nat /\ t.left # None
      BY <3>0, <3>a
    <3>2. u \in Task
      BY <1>0, <3>1 DEF Task
    <3>3. /\ u.pc = t.pc /\ u.i = t.i /\ u.devices = t.devices /\ u.result = t.result
          /\ u.stamps = t.stamps /\ u.left = t.left - 1 /\ u.change = t.change
      BY <1>0 DEF Task
    <3> QED
      BY <1>0, <1>t, <2>1, <3>1, <3>2, <3>3, ScannerAssumption DEF TaskOK
  <2> QED
    BY <1>g, <1>e, <2>1, <2>2 DEF Results
<1>m. t.pc # "idle" => MaxRate[Target(t)][ShapeFor(t)] \in Nat \ {0}
  BY <1>t, <1>d, ScannerAssumption DEF ShapeFor, TypeOK, Patterns
<1>4. CASE SyncMax(c)
  <2> DEFINE max == Smallest(t.rate, MaxRate[Target(t)][ShapeFor(t)])
             pc1 == IF IsLast(t) THEN "fill" ELSE "max"
             rate1 == IF IsLast(t) /\ t.target \in 1 .. max THEN t.target ELSE max
             u == [t EXCEPT !.i = NextI(t), !.pc = pc1, !.rate = rate1]
  <2>1. t.pc = "max" /\ Goes(c, u) /\ UNCHANGED deviceVars
    BY <1>4 DEF SyncMax
  <2>2. max \in Nat \ {0}
    BY <1>t, <1>m, <2>1 DEF Smallest
  <2>3. rate1 \in Nat \ {0} /\ pc1 \in {"fill", "max"}
    BY <2>2, <1>t
  <2> HIDE DEF max, pc1, rate1
  <2>4. u \in Task
    BY <1>0, <1>t, <1>i, <2>1, <2>3 DEF Task
  <2>5. /\ u.pc = pc1 /\ u.i = NextI(t) /\ u.devices = t.devices /\ u.result = t.result
        /\ u.stamps = t.stamps /\ u.rate = rate1
    BY <1>0 DEF Task
  <2>6. TaskOK(u)
    BY <1>0, <1>i, <2>1, <2>3, <2>4, <2>5 DEF TaskOK
  <2> QED
    BY <1>g, <2>1, <2>6
<1>5. CASE SyncFill(c)
  <2> DEFINE u == [t EXCEPT !.pc = "pattern", !.filled = ShapeFor(t)]
  <2>1. t.pc = "fill" /\ Goes(c, u) /\ UNCHANGED deviceVars
    BY <1>5 DEF SyncFill
  <2>2. ShapeFor(t) \in Shapes
    BY <1>t, <1>d, <2>1 DEF ShapeFor, TypeOK, Patterns
  <2>3. u \in Task
    BY <1>0, <2>2 DEF Task
  <2>4. /\ u.pc = "pattern" /\ u.i = t.i /\ u.devices = t.devices /\ u.result = t.result
        /\ u.stamps = t.stamps /\ u.rate = t.rate /\ u.filled = ShapeFor(t)
    BY <1>0 DEF Task
  <2>5. TaskOK(u)
    BY <1>0, <2>1, <2>2, <2>3, <2>4, ScannerAssumption DEF TaskOK
  <2> QED
    BY <1>g, <2>1, <2>5
<1>6. CASE SyncPattern(c)
  <2> DEFINE d == Target(t)
             pc1 == IF IsLast(t) THEN "stamp" ELSE "fill"
             u == [t EXCEPT !.i = NextI(t), !.pc = pc1]
  <2>1. /\ t.pc = "pattern" /\ pattern' = [pattern EXCEPT ![d] = [shape |-> t.filled, target |-> t.rate]]
        /\ Writes(c, d, u, {"max", "fill", "pattern", "stamp"})
        /\ UNCHANGED <<config, saved, synced, calls>>
    BY <1>6 DEF SyncPattern
  <2>2. pc1 \in {"stamp", "fill"} /\ (pc1 = "stamp" => NextI(t) = 1)
    BY <1>i, <2>1
  <2> HIDE DEF pc1
  <2>3. u \in Task
    BY <1>0, <1>t, <1>i, <2>1, <2>2 DEF Task
  <2>4. /\ u.pc = pc1 /\ u.i = NextI(t) /\ u.devices = t.devices /\ u.result = t.result
        /\ u.stamps = t.stamps /\ u.rate = t.rate
    BY <1>0 DEF Task
  <2>5. TaskOK(u)
    BY <1>0, <1>i, <2>1, <2>2, <2>3, <2>4 DEF TaskOK
  <2>6. TasksOK' /\ changes' \in Nat
    BY <2>1, <2>5, WritesOK
  <2>7. pattern' \in [Devices -> Patterns]
    BY <1>0, <1>t, <2>1 DEF TypeOK, Patterns, TaskOK
  <2> QED
    BY <2>1, <2>6, <2>7 DEF TypeOK, TasksOK
<1>7. CASE SyncStamp(c)
  <2> DEFINE stamps == Append(t.stamps, Clock(Target(t)))
             u == [t EXCEPT !.i = NextI(t), !.stamps = stamps]
             v == [Ended(t, "in sync") EXCEPT !.stamps = stamps]
  <2>1. t.pc = "stamp" /\ UNCHANGED deviceVars
        /\ \/ ~IsLast(t) /\ Goes(c, u)
           \/ Goes(c, Ended(t, "not in sync"))
           \/ Goes(c, v)
    BY <1>7 DEF SyncStamp
  <2>2. Clock(Target(t)) \in Int
    <3>1. Drift[Target(t)] \in Int
      BY <1>d, <2>1, ScannerAssumption
    <3> QED
      BY <3>1 DEF Clock
  <2>3. stamps \in Seq(Int) /\ Len(stamps) = Len(t.stamps) + 1
    BY <1>t, <2>2
  <2> HIDE DEF stamps
  <2>4. ~IsLast(t) => TaskOK(u)
    <3>1. u \in Task
      BY <1>0, <1>t, <1>i, <2>1, <2>3 DEF Task
    <3>2. /\ u.pc = t.pc /\ u.i = NextI(t) /\ u.devices = t.devices /\ u.result = t.result
          /\ u.stamps = stamps /\ u.rate = t.rate
      BY <1>0 DEF Task
    <3>3. ~IsLast(t) => Len(u.stamps) = u.i - 1
      <4>1. Len(t.stamps) = t.i - 1
        BY <1>0, <2>1 DEF TaskOK
      <4> QED
        <5>1. ~IsLast(t) => NextI(t) = t.i + 1
          BY <1>i, <2>1
        <5>2. t.i \in Nat /\ Len(stamps) = t.i
          BY <1>t, <1>l, <2>3, <4>1
        <5> HIDE DEF u
        <5> QED
          BY <3>2, <5>1, <5>2
    <3>4. t.result = "none" /\ t.rate > 0
      BY <1>0, <2>1 DEF TaskOK
    <3>5. ~IsLast(t) => /\ u.pc = "stamp" /\ u.result = "none" /\ u.rate > 0
                        /\ u.i \in 1 .. Len(u.devices)
      BY <1>i, <2>1, <3>2, <3>4
    <3> QED
      BY <3>1, <3>3, <3>5 DEF TaskOK
  <2>5. TaskOK(v)
    <3>1. Ended(t, "in sync") \in Task /\ Ended(t, "in sync").pc = "idle"
      BY ZenonT(20), <1>e DEF Results, TaskOK, Ended, Idle
    <3>2. v \in Task /\ v.pc = "idle"
      BY <2>3, <3>1 DEF Task
    <3> QED
      BY <3>2 DEF TaskOK
  <2> QED
    BY <1>g, <1>e, <2>1, <2>4, <2>5 DEF Results
<1>8. CASE Fail(c)
  BY <1>8, <1>e, <1>g DEF Fail, Results
<1> QED
  BY <1>1, <1>2, <1>3, <1>4, <1>5, <1>6, <1>7, <1>8 DEF Step

(* What the devices do on their own.                                       *)
LEMMA DeviceStepOK ==
    ASSUME TypeOK, NEW d \in Devices, DeviceStep(d) PROVE TypeOK'
<1>1. CASE DeviceSync(d)
  BY <1>1 DEF DeviceSync, TypeOK
<1>2. CASE PowerCycle(d)
  <2>1. TasksOK'
    BY <1>2, IdleOK DEF PowerCycle, TypeOK, TasksOK, Results
  <2>2. /\ config' \in [Devices -> Configs] /\ pattern' \in [Devices -> Patterns]
        /\ synced' \in [Devices -> BOOLEAN]
    BY <1>2 DEF PowerCycle, TypeOK
  <2> QED
    BY <1>2, <2>1, <2>2 DEF PowerCycle, TypeOK, TasksOK
<1> QED
  BY <1>1, <1>2 DEF DeviceStep

LEMMA NextOK ==
    ASSUME TypeOK, [Next]_vars PROVE TypeOK'
<1>1. CASE UNCHANGED vars
  BY <1>1 DEF TypeOK, vars, deviceVars
<1>2. CASE Next
  BY <1>2, StepOK, CallOK, SyncOK, DeviceStepOK DEF Next
<1> QED
  BY <1>1, <1>2

LEMMA InitOK ==
    ASSUME Init PROVE TypeOK
<1>1. Default \in Configs
  BY DEF Default, Configs, Algorithms, Kinds, Hosts
<1>2. /\ config \in [Devices -> Configs] /\ pattern \in [Devices -> Patterns]
      /\ \A d \in Devices : config[d] \in Configs /\ pattern[d] \in Patterns
  BY <1>1 DEF Init, Patterns
<1> QED
  BY <1>2, IdleOK DEF Init, TypeOK

(* The methods of all clients stay within their loops, and the devices have*)
(* the configurations and patterns that the protocol knows.                *)
THEOREM TypeCorrect == Spec => []TypeOK
<1>1. Init => TypeOK
  BY InitOK
<1>2. TypeOK /\ [Next]_vars => TypeOK'
  BY NextOK
<1> QED
  BY <1>1, <1>2, PTL DEF Spec
-----------------------------------------------------------------------------
(* What a method knows of its devices, which have the configurations cf and*)
(* the scan patterns pt, between two requests, unless it has been          *)
(* disturbed: the configuration that it writes back is the present one;    *)
CopyInv(t, cf) ==
    t.pc = "set" /\ ~t.disturbed => t.copy = cf[Target(t)]

(* while it waits, the device has the synchronisation that was asked for;  *)
PollInv(t, cf) ==
    t.pc = "poll" /\ ~t.disturbed =>
        /\ cf[Target(t)].time.kind = t.change.kind
        /\ t.change.hosts # None => cf[Target(t)].time.hosts = t.change.hosts

(* the rate that sync() has found suits the devices that it has looked at, *)
(* all of them after the first loop, and those that it has set have it.    *)
Syncing == {"max", "fill", "pattern", "stamp"}
ShapeAt(t, pt, k) == IF t.shape = None THEN pt[t.devices[k]].shape ELSE t.shape
Suits(t, pt, k) == t.rate <= MaxRate[t.devices[k]][ShapeAt(t, pt, k)]
IsSet(t, pt, k) == pt[t.devices[k]] = [shape |-> ShapeAt(t, pt, k), target |-> t.rate]
RateInv(t, pt) ==
    t.pc \in Syncing /\ ~t.disturbed =>
        /\ t.pc = "max" => t.i = 1 \/ t.rate > 0
        /\ t.pc = "pattern" => t.filled = ShapeAt(t, pt, t.i)
        /\ \A k \in DOMAIN t.devices :
             /\ (t.pc = "max" => k < t.i) => Suits(t, pt, k)
             /\ (t.pc \in {"fill", "pattern"} /\ k < t.i) \/ t.pc = "stamp" => IsSet(t, pt, k)

(* The timestamps of a sync() that has returned.                           *)
StampsInv(t) ==
    t.result = "in sync" => \A k, l \in DOMAIN t.stamps :
        t.stamps[k] - t.stamps[l] <= 2 * MaxDiff

TaskInv(t, cf, pt) == CopyInv(t, cf) /\ PollInv(t, cf) /\ RateInv(t, pt) /\ StampsInv(t)
IInv == TypeOK /\ \A c \in Clients : TaskInv(task[c], config, pattern)

LEMMA DevicesOK ==
    ASSUME NEW t, TaskOK(t)
    PROVE  /\ DOMAIN t.devices = 1 .. Len(t.devices) /\ Len(t.devices) \in Nat
           /\ \A k \in DOMAIN t.devices : t.devices[k] \in Devices
           /\ t.pc # "idle" => t.i \in DOMAIN t.devices /\ Target(t) \in Devices
<1>1. t.devices \in Seq(Devices)
  BY DEF TaskOK, Task
<1>2. DOMAIN t.devices = 1 .. Len(t.devices) /\ Len(t.devices) \in Nat
  BY <1>1
<1>3. \A k \in DOMAIN t.devices : t.devices[k] \in Devices
  BY <1>1, <1>2
<1>4. t.pc # "idle" => t.i \in DOMAIN t.devices
  BY <1>2 DEF TaskOK
<1> QED
  BY <1>2, <1>3, <1>4 DEF Target

(* Nothing is known, and nothing is needed, of a client in no method.      *)
LEMMA IdleInv ==
    ASSUME NEW t, NEW cf, NEW pt, t.pc = "idle", t.result # "in sync"
    PROVE  TaskInv(t, cf, pt)
BY DEF TaskInv, CopyInv, PollInv, RateInv, StampsInv, Syncing

(* What is known of a method depends on its own devices only: it is not    *)
(* lost when others change, unless the method becomes disturbed.           *)
LEMMA OtherInv ==
    ASSUME NEW t, TaskOK(t), NEW u, NEW cf, NEW cf2, NEW pt, NEW pt2,
           TaskInv(t, cf, pt),
           u = t \/ u = [t EXCEPT !.disturbed = TRUE],
           ~u.disturbed => /\ t.pc \in {"set", "poll"} => cf2[Target(t)] = cf[Target(t)]
                           /\ t.pc \in Syncing => \A k \in DOMAIN t.devices :
                                                    pt2[t.devices[k]] = pt[t.devices[k]]
    PROVE  TaskInv(u, cf2, pt2)
<1>1. CASE u = t /\ ~u.disturbed
  <2>1. CopyInv(u, cf2) /\ PollInv(u, cf2)
    BY <1>1 DEF TaskInv, CopyInv, PollInv
  <2>2. RateInv(u, pt2)
    <3> SUFFICES ASSUME t.pc \in Syncing PROVE RateInv(t, pt2)
      BY <1>1 DEF RateInv
    <3>1. \A k \in DOMAIN t.devices : pt2[t.devices[k]] = pt[t.devices[k]]
      BY <1>1
    <3>2. t.i \in DOMAIN t.devices
      BY DevicesOK DEF Syncing
    <3> QED
      BY <1>1, <3>1, <3>2 DEF TaskInv, RateInv, ShapeAt, Suits, IsSet
  <2> QED
    BY <1>1, <2>1, <2>2 DEF TaskInv, StampsInv
<1>2. CASE u.disturbed /\ u.result = t.result /\ u.stamps = t.stamps
  BY <1>2 DEF TaskInv, CopyInv, PollInv, RateInv, StampsInv
<1>3. u = [t EXCEPT !.disturbed = TRUE] => u.disturbed /\ u.result = t.result /\ u.stamps = t.stamps
  BY DEF TaskOK, Task
<1> QED
  BY <1>1, <1>2, <1>3

(* A write of another client on device d disturbs what the method of client*)
(* x is doing there.                                                       *)
LEMMA OthersKept ==
    ASSUME IInv, NEW c \in Clients, NEW x \in Clients, x # c,
           \/ Step(c)
           \/ \E d \in Devices : Call(c, d)
           \/ \E devices \in Seq(Devices) : Sync(c, devices)
    PROVE  /\ TaskInv(task'[x], config', pattern')
           /\ task'[x] = task[x] \/ task'[x] = [task[x] EXCEPT !.disturbed = TRUE]
<1>1. TaskOK(task[x]) /\ TaskInv(task[x], config, pattern) /\ x \in DOMAIN task
  BY DEF IInv, TypeOK
<1>d. task[x].pc # "idle" => Target(task[x]) \in Devices
                             /\ task[x].i \in DOMAIN task[x].devices
  BY <1>1, DevicesOK
<1>f. config \in [Devices -> Configs] /\ pattern \in [Devices -> Patterns]
  BY DEF IInv, TypeOK
<1>2. ASSUME task'[x] = task[x], UNCHANGED <<config, pattern>>
      PROVE  TaskInv(task'[x], config', pattern')
  BY <1>1, <1>2
<1>3. ASSUME NEW t, Goes(c, t), UNCHANGED deviceVars
      PROVE  task'[x] = task[x] /\ UNCHANGED <<config, pattern>>
  BY <1>1, <1>3 DEF Goes, deviceVars
<1>4. ASSUME NEW t, Start(c, t)
      PROVE  task'[x] = task[x] /\ UNCHANGED <<config, pattern>>
  BY <1>1, <1>4 DEF Start, deviceVars
<1>5. ASSUME NEW d, NEW t, NEW S, Writes(c, d, t, S)
      PROVE  /\ task'[x] = task[x] \/ task'[x] = [task[x] EXCEPT !.disturbed = TRUE]
             /\ ~task'[x].disturbed /\ task[x].pc \in S =>
                    \A k \in DOMAIN task[x].devices : task[x].devices[k] # d
  <2>1. task'[x] = IF task[x].pc \in S /\ \E k \in DOMAIN task[x].devices : task[x].devices[k] = d
                   THEN [task[x] EXCEPT !.disturbed = TRUE] ELSE task[x]
    BY <1>5 DEF Writes
  <2>2. [task[x] EXCEPT !.disturbed = TRUE].disturbed
    BY <1>1 DEF TaskOK, Task
  <2> QED
    BY <2>1, <2>2
<1>6. CASE Set(c)
  <2>1. PICK d, t, v : /\ config' = [config EXCEPT ![d] = v]
                       /\ Writes(c, d, t, {"set", "poll"}) /\ pattern' = pattern
    BY <1>6 DEF Set
  <2>2. /\ task'[x] = task[x] \/ task'[x] = [task[x] EXCEPT !.disturbed = TRUE]
        /\ ~task'[x].disturbed /\ task[x].pc \in {"set", "poll"} =>
               \A k \in DOMAIN task[x].devices : task[x].devices[k] # d
    BY <2>1, <1>5
  <2>3. ~task'[x].disturbed /\ task[x].pc \in {"set", "poll"} =>
            config'[Target(task[x])] = config[Target(task[x])]
    BY <2>1, <2>2, <1>d, <1>f DEF Target
  <2> QED
    BY <1>1, <2>1, <2>2, <2>3, OtherInv
<1>7. ASSUME NEW d, NEW t, NEW v, Writes(c, d, t, {"max", "fill", "pattern", "stamp"}),
             pattern' = [pattern EXCEPT ![d] = v], config' = config
      PROVE  /\ TaskInv(task'[x], config', pattern')
             /\ task'[x] = task[x] \/ task'[x] = [task[x] EXCEPT !.disturbed = TRUE]
  <2>1. /\ task'[x] = task[x] \/ task'[x] = [task[x] EXCEPT !.disturbed = TRUE]
        /\ ~task'[x].disturbed /\ task[x].pc \in Syncing =>
               \A k \in DOMAIN task[x].devices : task[x].devices[k] # d
    BY <1>5, <1>7 DEF Syncing
  <2>2. \A k \in DOMAIN task[x].devices : task[x].devices[k] \in Devices
    BY <1>1, DevicesOK
  <2>3. ~task'[x].disturbed /\ task[x].pc \in Syncing =>
            \A k \in DOMAIN task[x].devices :
                pattern'[task[x].devices[k]] = pattern[task[x].devices[k]]
    BY <1>7, <2>1, <2>2, <1>f
  <2> QED
    BY <1>1, <1>7, <2>1, <2>3, OtherInv
<1>8. CASE SyncPattern(c)
  BY <1>7, <1>8 DEF SyncPattern
<1>9. ASSUME NEW d \in Devices, SetScanPattern(c, d)
      PROVE  /\ TaskInv(task'[x], config', pattern')
             /\ task'[x] = task[x] \/ task'[x] = [task[x] EXCEPT !.disturbed = TRUE]
  <2>1. PICK shape \in Shapes : pattern' = [pattern EXCEPT ![d] = [shape |-> shape, target |-> 0]]
    BY <1>9 DEF SetScanPattern
  <2> QED
    BY <1>7, <1>9, <2>1 DEF SetScanPattern
<1>10. CASE Get(c) \/ Poll(c) \/ SyncMax(c) \/ SyncFill(c) \/ SyncStamp(c) \/ Fail(c)
  <2>1. UNCHANGED deviceVars /\ \E t : Goes(c, t)
    BY <1>10 DEF Get, Poll, SyncMax, SyncFill, SyncStamp, Fail
  <2> QED
    BY <2>1, <1>2, <1>3
<1>11. CASE (\E d \in Devices : SetAlgorithms(c, d) \/ SetTimeSynchronization(c, d))
            \/ \E devices \in Seq(Devices) : Sync(c, devices)
  <2>1. \E t : Start(c, t)
    BY <1>11 DEF SetAlgorithms, SetTimeSynchronization, Sync
  <2> QED
    BY <2>1, <1>2, <1>4
<1> QED
  BY <1>6, <1>8, <1>9, <1>10, <1>11 DEF Step, Call

(* The client's own step.                                                  *)
LEMMA StartInv ==
    ASSUME IInv, NEW c \in Clients, NEW d \in Devices, Call(c, d)
    PROVE  TaskInv(task'[c], config', pattern')
<1>1. c \in DOMAIN task
  BY DEF IInv, TypeOK
<1>2. CASE SetAlgorithms(c, d) \/ SetTimeSynchronization(c, d)
  <2>1. task'[c].pc = "get" /\ task'[c].result = "none"
    BY ZenonT(20), <1>1, <1>2 DEF SetAlgorithms, SetTimeSynchronization, Start, Idle
  <2> QED
    BY <2>1 DEF TaskInv, CopyInv, PollInv, RateInv, StampsInv, Syncing
<1>3. CASE SetScanPattern(c, d)
  <2>1. task'[c].pc = "idle" /\ task'[c].result = "set"
    BY <1>1, <1>3 DEF SetScanPattern, Writes, Idle
  <2> QED
    BY <2>1, IdleInv
<1> QED
  BY <1>2, <1>3 DEF Call

LEMMA SyncInv ==
    ASSUME IInv, NEW c \in Clients, NEW devices \in Seq(Devices), Sync(c, devices)
    PROVE  TaskInv(task'[c], config', pattern')
<1>1. c \in DOMAIN task
  BY DEF IInv, TypeOK
<1>2. /\ task'[c].pc = "max" /\ task'[c].result = "none" /\ task'[c].i = 1
      /\ task'[c].devices = devices
  BY ZenonT(20), <1>1 DEF Sync, Start, Idle
<1>3. \A k \in DOMAIN devices : ~(k < 1)
  OBVIOUS
<1> QED
  BY <1>2, <1>3 DEF TaskInv, CopyInv, PollInv, RateInv, StampsInv, Syncing

(* Changed() changes the one part, and makes of the time synchronisation   *)
(* what was asked for.                                                     *)
LEMMA ChangedWhat ==
    ASSUME NEW cfg \in Configs, NEW change \in Changes
    PROVE  /\ OtherPart(Changed(cfg, change), change) = OtherPart(cfg, change)
           /\ change.part = "time" =>
                  LET time == Changed(cfg, change).time IN
                  /\ time.kind = change.kind
                  /\ change.hosts # None => time.hosts = change.hosts
<1>1. CASE change.part = "algorithms"
  BY <1>1 DEF Changed, OtherPart, Configs
<1>2. CASE change.part = "time"
  <2>1. /\ Changed(cfg, change).time = WithTime(cfg.time, change)
        /\ Changed(cfg, change).algorithms = cfg.algorithms
    BY <1>2 DEF Changed, Configs
  <2>2. /\ WithTime(cfg.time, change).kind = change.kind
        /\ change.hosts # None => WithTime(cfg.time, change).hosts = change.hosts
    BY DEF WithTime
  <2> QED
    BY <1>2, <2>1, <2>2 DEF OtherPart
<1> QED
  BY <1>1, <1>2 DEF Changes

LEMMA ConfigInv ==
    ASSUME IInv, NEW c \in Clients, Get(c) \/ Set(c) \/ Poll(c) \/ Fail(c)
    PROVE  TaskInv(task'[c], config', pattern')
<1> DEFINE t == task[c]
<1>1. /\ c \in DOMAIN task /\ TaskOK(t) /\ t \in Task /\ TaskInv(t, config, pattern)
      /\ config \in [Devices -> Configs]
  BY DEF IInv, TypeOK, TaskOK
<1>2. t.copy \in Configs /\ t.change \in Changes
  BY <1>1 DEF Task
<1>3. ASSUME NEW r, r # "in sync", task'[c] = Ended(t, r)
      PROVE  TaskInv(task'[c], config', pattern')
  <2>1. task'[c].pc = "idle" /\ task'[c].result = r
    BY <1>3 DEF Ended, Idle
  <2> QED
    BY <1>3, <2>1, IdleInv
<1>4. CASE Get(c)
  <2>1. /\ task'[c] = [t EXCEPT !.pc = "set", !.copy = config[Target(t)], !.disturbed = FALSE]
        /\ config' = config /\ t.pc = "get"
    BY <1>1, <1>4 DEF Get, Goes, deviceVars
  <2>2. t.result = "none"
    BY <1>1, <2>1 DEF TaskOK
  <2>3. /\ task'[c].pc = "set" /\ task'[c].copy = config[Target(t)]
        /\ Target(task'[c]) = Target(t) /\ task'[c].result = "none"
    BY <1>1, <2>1, <2>2 DEF Task, Target
  <2> QED
    BY <2>1, <2>3 DEF TaskInv, CopyInv, PollInv, RateInv, StampsInv, Syncing
<1>5. CASE Set(c)
  <2> DEFINE cfg == Changed(t.copy, t.change)
             u == [t EXCEPT !.pc = "poll", !.disturbed = FALSE]
  <2>1. /\ t.pc = "set" /\ config' = [config EXCEPT ![Target(t)] = cfg]
        /\ task'[c] = IF t.left = None THEN Ended(t, "set") ELSE u
    BY <1>1, <1>5 DEF Set, Writes
  <2>2. CASE t.left = None
    BY <1>3, <2>1, <2>2
  <2>3. CASE t.left # None
    <3>1. task'[c] = u /\ t.change.part = "time" /\ t.result = "none"
      BY <1>1, <2>1, <2>3 DEF TaskOK
    <3>2. /\ u.pc = "poll" /\ Target(u) = Target(t) /\ u.result = "none" /\ u.change = t.change
      BY <1>1, <3>1 DEF Task, Target
    <3>3. config'[Target(t)] = cfg
      BY <1>1, <2>1, DevicesOK
    <3>4. /\ cfg.time.kind = t.change.kind
          /\ t.change.hosts # None => cfg.time.hosts = t.change.hosts
      BY <1>2, <3>1, ChangedWhat
    <3> HIDE DEF u, cfg
    <3> QED
      BY <3>1, <3>2, <3>3, <3>4 DEF TaskInv, CopyInv, PollInv, RateInv, StampsInv, Syncing
  <2> QED
    BY <2>2, <2>3
<1>6. CASE Poll(c)
  <2> DEFINE u == [t EXCEPT !.left = @ - 1]
  <2>1. /\ t.pc = "poll" /\ config' = config
        /\ task'[c] \in {Ended(t, "not synced"), Ended(t, "synced"), u}
    BY <1>1, <1>6 DEF Poll, Goes, deviceVars
  <2>2. t.result = "none"
    BY <1>1, <2>1 DEF TaskOK
  <2>3. /\ u.pc = "poll" /\ Target(u) = Target(t) /\ u.result = "none" /\ u.change = t.change
        /\ u.disturbed = t.disturbed
    BY <1>1, <2>1, <2>2 DEF Task, Target
  <2>4. CASE task'[c] = u
    <3> HIDE DEF u
    <3> QED
      BY <1>1, <2>1, <2>3, <2>4 DEF TaskInv, CopyInv, PollInv, RateInv, StampsInv, Syncing
  <2> QED
    BY <1>3, <2>1, <2>4
<1>7. CASE Fail(c)
  <2>1. task'[c] = Ended(t, "error")
    BY <1>1, <1>7 DEF Fail, Goes
  <2> QED
    BY <1>3, <2>1
<1> QED
  BY <1>4, <1>5, <1>6, <1>7

(* The first loop of sync(): the rate only gets smaller.                   *)
LEMMA SmallestOK ==
    ASSUME NEW a \in Nat, NEW b \in Nat \ {0}
    PROVE  /\ Smallest(a, b) \in Nat \ {0} /\ Smallest(a, b) <= b
           /\ a > 0 => Smallest(a, b) <= a
BY DEF Smallest

LEMMA MaxInv ==
    ASSUME IInv, NEW c \in Clients, SyncMax(c)
    PROVE  TaskInv(task'[c], config', pattern')
<1> DEFINE t == task[c]
           m == MaxRate[Target(t)][ShapeFor(t)]
           max == Smallest(t.rate, m)
           rate1 == IF IsLast(t) /\ t.target \in 1 .. max THEN t.target ELSE max
           pc1 == IF IsLast(t) THEN "fill" ELSE "max"
           u == [t EXCEPT !.i = NextI(t), !.pc = pc1, !.rate = rate1]
<1>1. /\ c \in DOMAIN task /\ TaskOK(t) /\ t \in Task /\ RateInv(t, pattern)
      /\ pattern \in [Devices -> Patterns]
  BY DEF IInv, TypeOK, TaskOK, TaskInv
<1>2. t.pc = "max" /\ task'[c] = u /\ pattern' = pattern /\ config' = config
  BY <1>1 DEF SyncMax, Goes, deviceVars
<1>3. /\ t.result = "none" /\ t.i \in DOMAIN t.devices /\ Target(t) \in Devices
      /\ DOMAIN t.devices = 1 .. Len(t.devices) /\ Len(t.devices) \in Nat
      /\ \A k \in DOMAIN t.devices : t.devices[k] \in Devices
  BY <1>1, <1>2, DevicesOK DEF TaskOK
<1>4. t.rate \in Nat /\ t.target \in Nat /\ t.shape \in Shapes \cup {None}
  BY <1>1 DEF Task
<1>5. \A k \in DOMAIN t.devices : MaxRate[t.devices[k]][ShapeAt(t, pattern, k)] \in Nat \ {0}
  BY <1>1, <1>3, <1>4, ScannerAssumption DEF ShapeAt, Patterns
<1>6. m = MaxRate[t.devices[t.i]][ShapeAt(t, pattern, t.i)] /\ m \in Nat \ {0}
  BY <1>3, <1>5 DEF ShapeFor, ShapeAt, Target
<1>7. max \in Nat \ {0} /\ max <= m /\ (t.rate > 0 => max <= t.rate)
  BY <1>4, <1>6, SmallestOK
<1> HIDE DEF max, m
<1>8. rate1 \in Nat \ {0} /\ rate1 <= max
  BY <1>4, <1>7
<1>9. (IsLast(t) => t.i = Len(t.devices)) /\ (~IsLast(t) => NextI(t) = t.i + 1)
  BY DEF IsLast, NextI
<1> HIDE DEF rate1
<1>10. /\ u.pc = pc1 /\ u.rate = rate1 /\ u.devices = t.devices /\ u.shape = t.shape
       /\ u.i = NextI(t) /\ u.result = "none" /\ u.disturbed = t.disturbed
  BY <1>1, <1>3 DEF Task
<1>11. pc1 \in {"fill", "max"} /\ (pc1 = "max" <=> ~IsLast(t))
  OBVIOUS
<1> HIDE DEF u, pc1
<1>12. ASSUME ~t.disturbed PROVE RateInv(u, pattern)
  <2>1. \A k \in DOMAIN t.devices : k <= t.i => rate1 <= MaxRate[t.devices[k]][ShapeAt(t, pattern, k)]
    <3> SUFFICES ASSUME NEW k \in DOMAIN t.devices, k <= t.i
                 PROVE  rate1 <= MaxRate[t.devices[k]][ShapeAt(t, pattern, k)]
      OBVIOUS
    <3>1. CASE k = t.i
      BY <3>1, <1>6, <1>7, <1>8
    <3>2. CASE k < t.i
      <4>1. t.rate > 0 /\ t.rate <= MaxRate[t.devices[k]][ShapeAt(t, pattern, k)]
        BY <1>1, <1>2, <1>3, <1>12, <3>2 DEF RateInv, Syncing, Suits
      <4>2. MaxRate[t.devices[k]][ShapeAt(t, pattern, k)] \in Nat
        BY <1>5
      <4> QED
        BY <4>1, <4>2, <1>4, <1>7, <1>8
    <3> QED
      BY <3>1, <3>2, <1>3
  <2>2. \A k \in DOMAIN t.devices : (u.pc = "max" => k < u.i) => k <= t.i
    BY <1>3, <1>9, <1>10, <1>11
  <2>3. \A k : ShapeAt(u, pattern, k) = ShapeAt(t, pattern, k)
    BY <1>10 DEF ShapeAt
  <2>4. \A k \in DOMAIN u.devices : (u.pc = "max" => k < u.i) => Suits(u, pattern, k)
    BY <1>10, <2>1, <2>2, <2>3 DEF Suits
  <2>5. \A k \in DOMAIN u.devices : u.pc = "fill" => ~(k < u.i)
    BY <1>3, <1>10, <1>11 DEF NextI
  <2> QED
    BY <1>8, <1>10, <1>11, <2>4, <2>5 DEF RateInv
<1>13. ~u.disturbed => RateInv(u, pattern)
  BY <1>10, <1>12
<1> QED
  BY <1>2, <1>10, <1>11, <1>13 DEF TaskInv, CopyInv, PollInv, StampsInv, RateInv

LEMMA FillInv ==
    ASSUME IInv, NEW c \in Clients, SyncFill(c)
    PROVE  TaskInv(task'[c], config', pattern')
<1> DEFINE t == task[c]
           u == [t EXCEPT !.pc = "pattern", !.filled = ShapeFor(t)]
<1>1. /\ c \in DOMAIN task /\ TaskOK(t) /\ t \in Task /\ RateInv(t, pattern)
  BY DEF IInv, TypeOK, TaskOK, TaskInv
<1>2. t.pc = "fill" /\ task'[c] = u /\ pattern' = pattern /\ config' = config
  BY <1>1 DEF SyncFill, Goes, deviceVars
<1>3. t.result = "none"
  BY <1>1, <1>2 DEF TaskOK
<1>4. /\ u.pc = "pattern" /\ u.rate = t.rate /\ u.devices = t.devices /\ u.shape = t.shape
      /\ u.i = t.i /\ u.result = "none" /\ u.disturbed = t.disturbed /\ u.filled = ShapeFor(t)
  BY <1>1, <1>3 DEF Task
<1> HIDE DEF u
<1>5. \A k : /\ Suits(u, pattern, k) <=> Suits(t, pattern, k)
             /\ IsSet(u, pattern, k) <=> IsSet(t, pattern, k)
  BY <1>4 DEF Suits, IsSet, ShapeAt
<1>6. u.filled = ShapeAt(u, pattern, u.i)
  BY <1>4 DEF ShapeAt, ShapeFor, Target
<1>7. ~u.disturbed => RateInv(u, pattern)
  BY <1>1, <1>2, <1>4, <1>5, <1>6 DEF RateInv, Syncing
<1> QED
  BY <1>2, <1>4, <1>7 DEF TaskInv, CopyInv, PollInv, StampsInv, RateInv

(* The second loop: setting the pattern of one device does not change what *)
(* is known of the shapes, even if the device is in the list twice.        *)
LEMMA PatternInv ==
    ASSUME IInv, NEW c \in Clients, SyncPattern(c)
    PROVE  TaskInv(task'[c], config', pattern')
<1> DEFINE t == task[c]
           pc1 == IF IsLast(t) THEN "stamp" ELSE "fill"
           u == [t EXCEPT !.i = NextI(t), !.pc = pc1]
<1>1. /\ c \in DOMAIN task /\ TaskOK(t) /\ t \in Task /\ RateInv(t, pattern)
      /\ pattern \in [Devices -> Patterns]
  BY DEF IInv, TypeOK, TaskOK, TaskInv
<1>2. /\ t.pc = "pattern" /\ task'[c] = u /\ config' = config
      /\ pattern' = [pattern EXCEPT ![Target(t)] = [shape |-> t.filled, target |-> t.rate]]
  BY <1>1 DEF SyncPattern, Writes
<1>3. /\ t.result = "none" /\ t.i \in DOMAIN t.devices /\ Target(t) \in Devices
      /\ DOMAIN t.devices = 1 .. Len(t.devices) /\ Len(t.devices) \in Nat
      /\ \A k \in DOMAIN t.devices : t.devices[k] \in Devices
  BY <1>1, <1>2, DevicesOK DEF TaskOK
<1>4. /\ u.pc = pc1 /\ u.rate = t.rate /\ u.devices = t.devices /\ u.shape = t.shape
      /\ u.i = NextI(t) /\ u.result = "none" /\ u.disturbed = t.disturbed
  BY <1>1, <1>3 DEF Task
<1>5. pc1 \in {"fill", "stamp"} /\ (pc1 = "fill" <=> ~IsLast(t))
  OBVIOUS
<1>6. (IsLast(t) => t.i = Len(t.devices)) /\ (~IsLast(t) => NextI(t) = t.i + 1)
  BY DEF IsLast, NextI
<1> HIDE DEF u, pc1
<1>7. ASSUME ~t.disturbed PROVE RateInv(u, pattern')
  <2>1. t.filled = ShapeAt(t, pattern, t.i)
    BY <1>1, <1>2, <1>7 DEF RateInv, Syncing
  <2>2. pattern'[Target(t)] = [shape |-> t.filled, target |-> t.rate]
    BY <1>1, <1>2, <1>3
  <2>3. \A k \in DOMAIN t.devices : t.devices[k] # Target(t) =>
            pattern'[t.devices[k]] = pattern[t.devices[k]]
    BY <1>1, <1>2, <1>3
  <2>4. \A k \in DOMAIN t.devices : t.devices[k] = Target(t) =>
            ShapeAt(t, pattern, k) = t.filled
    BY <2>1 DEF ShapeAt, Target
  <2>5. \A k \in DOMAIN t.devices : ShapeAt(u, pattern', k) = ShapeAt(t, pattern, k)
    <3> SUFFICES ASSUME NEW k \in DOMAIN t.devices
                 PROVE  ShapeAt(u, pattern', k) = ShapeAt(t, pattern, k)
      OBVIOUS
    <3>1. CASE t.devices[k] = Target(t)
      BY <1>4, <2>2, <2>4, <3>1 DEF ShapeAt
    <3>2. CASE t.devices[k] # Target(t)
      BY <1>4, <2>3, <3>2 DEF ShapeAt
    <3> QED
      BY <3>1, <3>2
  <2>6. \A k \in DOMAIN t.devices : Suits(u, pattern', k)
    <3>1. \A k \in DOMAIN t.devices : Suits(t, pattern, k)
      BY <1>1, <1>2, <1>7 DEF RateInv, Syncing
    <3> QED
      BY <1>4, <2>5, <3>1 DEF Suits
  <2>7. \A k \in DOMAIN t.devices : k <= t.i => IsSet(u, pattern', k)
    <3> SUFFICES ASSUME NEW k \in DOMAIN t.devices, k <= t.i PROVE IsSet(u, pattern', k)
      OBVIOUS
    <3>1. CASE t.devices[k] = Target(t)
      BY <1>4, <2>2, <2>4, <2>5, <3>1 DEF IsSet
    <3>2. CASE t.devices[k] # Target(t)
      <4>1. k # t.i
        BY <3>2 DEF Target
      <4>2. k < t.i
        BY <4>1, <1>3
      <4>3. IsSet(t, pattern, k)
        BY <4>2, <1>1, <1>2, <1>7 DEF RateInv, Syncing
      <4> QED
        BY <4>3, <1>4, <2>3, <2>5, <3>2 DEF IsSet
    <3> QED
      BY <3>1, <3>2
  <2>8. \A k \in DOMAIN t.devices :
            (u.pc \in {"fill", "pattern"} /\ k < u.i) \/ u.pc = "stamp" => k <= t.i
    BY <1>3, <1>4, <1>5, <1>6
  <2> QED
    BY <1>4, <1>5, <2>6, <2>7, <2>8 DEF RateInv
<1>8. ~u.disturbed => RateInv(u, pattern')
  BY <1>4, <1>7
<1> QED
  BY <1>2, <1>4, <1>5, <1>8 DEF TaskInv, CopyInv, PollInv, StampsInv, RateInv

(* The third loop: all timestamps are near the first one, so no two are    *)
(* further apart than twice as much.                                       *)
LEMMA NearTheFirst ==
    ASSUME NEW s \in Seq(Int),
           ~ \E k \in 2 .. Len(s) : Difference(s[1], s[k]) > MaxDiff
    PROVE  \A k, l \in DOMAIN s : s[k] - s[l] <= 2 * MaxDiff
<1> SUFFICES ASSUME NEW k \in DOMAIN s, NEW l \in DOMAIN s PROVE s[k] - s[l] <= 2 * MaxDiff
  OBVIOUS
<1>1. MaxDiff \in Nat
  BY ScannerAssumption
<1>2. DOMAIN s = 1 .. Len(s) /\ Len(s) \in Nat
  OBVIOUS
<1>3. 1 \in DOMAIN s
  BY <1>2
<1>4. s[1] \in Int /\ s[k] \in Int /\ s[l] \in Int
  BY <1>2, <1>3
<1>5. \A j \in {k, l} : j # 1 => ~(Difference(s[1], s[j]) > MaxDiff)
  BY <1>2
<1>6. \A j \in {k, l} : s[j] - s[1] <= MaxDiff /\ s[1] - s[j] <= MaxDiff
  BY <1>1, <1>4, <1>5 DEF Difference
<1>7. /\ s[k] - s[1] <= MaxDiff
      /\ s[1] - s[l] <= MaxDiff
  BY <1>6
<1> QED
  BY <1>1, <1>4, <1>7

LEMMA StampInv ==
    ASSUME IInv, NEW c \in Clients, SyncStamp(c)
    PROVE  TaskInv(task'[c], config', pattern')
<1> DEFINE t == task[c]
           stamps == Append(t.stamps, Clock(Target(t)))
           u == [t EXCEPT !.i = NextI(t), !.stamps = stamps]
           v == [Ended(t, "in sync") EXCEPT !.stamps = stamps]
<1>1. /\ c \in DOMAIN task /\ TaskOK(t) /\ t \in Task /\ RateInv(t, pattern)
  BY DEF IInv, TypeOK, TaskOK, TaskInv
<1>2. /\ t.pc = "stamp" /\ config' = config /\ pattern' = pattern
      /\ \/ task'[c] = u
         \/ task'[c] = Ended(t, "not in sync")
         \/ /\ ~ \E k \in 2 .. Len(stamps) : Difference(stamps[1], stamps[k]) > MaxDiff
            /\ task'[c] = v
  BY <1>1 DEF SyncStamp, Goes, deviceVars
<1>3. t.result = "none" /\ Target(t) \in Devices
  BY <1>1, <1>2, DevicesOK DEF TaskOK
<1>4. CASE task'[c] = u
  <2>1. /\ u.pc = "stamp" /\ u.rate = t.rate /\ u.devices = t.devices /\ u.shape = t.shape
        /\ u.result = "none" /\ u.disturbed = t.disturbed
    BY <1>1, <1>2, <1>3 DEF Task
  <2> HIDE DEF u
  <2>2. \A k : /\ Suits(u, pattern, k) <=> Suits(t, pattern, k)
               /\ IsSet(u, pattern, k) <=> IsSet(t, pattern, k)
    BY <2>1 DEF Suits, IsSet, ShapeAt
  <2>3. RateInv(u, pattern)
    BY <1>1, <1>2, <2>1, <2>2 DEF RateInv, Syncing
  <2> QED
    BY <1>2, <1>4, <2>1, <2>3 DEF TaskInv, CopyInv, PollInv, StampsInv
<1>5. CASE task'[c] = Ended(t, "not in sync")
  <2>1. task'[c].pc = "idle" /\ task'[c].result = "not in sync"
    BY <1>5 DEF Ended, Idle
  <2> QED
    BY <2>1, IdleInv
<1>6. CASE /\ ~ \E k \in 2 .. Len(stamps) : Difference(stamps[1], stamps[k]) > MaxDiff
           /\ task'[c] = v
  <2>1. v.pc = "idle" /\ v.stamps = stamps
    BY DEF Ended, Idle
  <2>2. Drift[Target(t)] \in Int
    BY <1>3, ScannerAssumption
  <2>3. Clock(Target(t)) \in Int
    BY <2>2 DEF Clock
  <2>4. stamps \in Seq(Int)
    <3>1. t.stamps \in Seq(Int)
      BY <1>1 DEF Task
    <3> HIDE DEF t
    <3> QED
      BY <2>3, <3>1
  <2> HIDE DEF stamps, v
  <2>5. \A k, l \in DOMAIN stamps : stamps[k] - stamps[l] <= 2 * MaxDiff
    BY <1>6, <2>4, NearTheFirst
  <2> QED
    BY <1>6, <2>1, <2>5 DEF TaskInv, CopyInv, PollInv, StampsInv, RateInv, Syncing
<1> QED
  BY <1>2, <1>4, <1>5, <1>6

LEMMA DeviceInv ==
    ASSUME IInv, NEW d \in Devices, DeviceStep(d), NEW x \in Clients
    PROVE  /\ TaskInv(task'[x], config', pattern')
           /\ task'[x] = task[x] \/ task'[x] = Ended(task[x], "restarted")
<1>1. TaskOK(task[x]) /\ TaskInv(task[x], config, pattern)
      /\ config \in [Devices -> Configs] /\ pattern \in [Devices -> Patterns]
  BY DEF IInv, TypeOK
<1>2. CASE DeviceSync(d)
  BY <1>1, <1>2 DEF DeviceSync
<1>3. CASE PowerCycle(d)
  <2> DEFINE t == task[x]
  <2>1. CASE \E k \in DOMAIN t.devices : t.devices[k] = d
    <3>1. task'[x] = Ended(task[x], "restarted")
      BY <1>3, <2>1 DEF PowerCycle
    <3>2. task'[x].pc = "idle" /\ task'[x].result = "restarted"
      BY <3>1 DEF Ended, Idle
    <3> QED
      BY <3>1, <3>2, IdleInv
  <2>2. CASE \A k \in DOMAIN t.devices : t.devices[k] # d
    <3>1. task'[x] = task[x]
      BY <1>3, <2>2 DEF PowerCycle
    <3>2. \A k \in DOMAIN t.devices : t.devices[k] \in Devices
      BY <1>1, DevicesOK
    <3>3. \A k \in DOMAIN t.devices : /\ pattern'[t.devices[k]] = pattern[t.devices[k]]
                                     /\ config'[t.devices[k]] = config[t.devices[k]]
      BY <1>1, <1>3, <2>2, <3>2 DEF PowerCycle
    <3>4. t.pc # "idle" => config'[Target(t)] = config[Target(t)]
      BY <1>1, <3>3, DevicesOK DEF Target
    <3> QED
      BY <1>1, <3>1, <3>3, <3>4, OtherInv
  <2> QED
    BY <2>1, <2>2
<1> QED
  BY <1>2, <1>3 DEF DeviceStep

LEMMA OwnInv ==
    ASSUME IInv, NEW c \in Clients,
           \/ Step(c)
           \/ \E d \in Devices : Call(c, d)
           \/ \E devices \in Seq(Devices) : Sync(c, devices)
    PROVE  TaskInv(task'[c], config', pattern')
BY StartInv, SyncInv, ConfigInv, MaxInv, FillInv, PatternInv, StampInv DEF Step

LEMMA Inductive ==
    ASSUME IInv, [Next]_vars PROVE IInv'
<1>1. TypeOK'
  BY NextOK DEF IInv
<1>2. ASSUME NEW x \in Clients PROVE TaskInv(task'[x], config', pattern')
  <2>1. CASE UNCHANGED vars
    BY <1>2, <2>1 DEF IInv, vars, deviceVars
  <2>2. CASE \E d \in Devices : DeviceStep(d)
    BY <1>2, <2>2, DeviceInv
  <2>3. ASSUME NEW c \in Clients,
               \/ Step(c)
               \/ \E d \in Devices : Call(c, d)
               \/ \E devices \in Seq(Devices) : Sync(c, devices)
        PROVE  TaskInv(task'[x], config', pattern')
    <3>1. CASE x = c
      BY <2>3, <3>1, OwnInv
    <3>2. CASE x # c
      BY <1>2, <2>3, <3>2, OthersKept
    <3> QED
      BY <3>1, <3>2
  <2> QED
    BY <2>1, <2>2, <2>3 DEF Next
<1> QED
  BY <1>1, <1>2 DEF IInv

THEOREM Invariance == Spec => []IInv
<1>1. Init => IInv
  <2>1. ASSUME Init, NEW c \in Clients PROVE TaskInv(task[c], config, pattern)
    <3>1. task[c].pc = "idle" /\ task[c].result = "none"
      BY <2>1 DEF Init, Idle
    <3> QED
      BY <3>1, IdleInv
  <2> QED
    BY <2>1, InitOK DEF IInv
<1>2. IInv /\ [Next]_vars => IInv'
  BY Inductive
<1> QED
  BY <1>1, <1>2, PTL DEF Spec
-----------------------------------------------------------------------------
(* After sync() has set the patterns of its devices they have the same     *)
(* target frame rate, which every one of them can run.                     *)
THEOREM RatesAreSame == Spec => []SameRate
<1>1. IInv => SameRate
  <2> SUFFICES ASSUME IInv, NEW c \in Clients, task[c].pc = "stamp", ~task[c].disturbed,
                      NEW k \in DOMAIN task[c].devices
               PROVE  LET t == task[c]  p == pattern[t.devices[k]] IN
                      /\ p.target = t.rate /\ p.target <= MaxRate[t.devices[k]][p.shape]
                      /\ t.shape # None => p.shape = t.shape
    BY DEF SameRate
  <2> DEFINE t == task[c]
             p == pattern[t.devices[k]]
  <2>1. Suits(t, pattern, k) /\ IsSet(t, pattern, k)
    BY DEF IInv, TaskInv, RateInv, Syncing
  <2>2. p.shape = ShapeAt(t, pattern, k) /\ p.target = t.rate
    BY <2>1 DEF IsSet
  <2> QED
    BY <2>1, <2>2 DEF Suits, ShapeAt
<1> QED
  BY <1>1, Invariance, PTL

(* A sync() that has returned has seen clocks that are pairwise within     *)
(* twice the maximum time difference.                                      *)
THEOREM ClocksDoAgree == Spec => []ClocksAgree
<1>1. IInv => ClocksAgree
  BY DEF IInv, TaskInv, StampsInv, ClocksAgree
<1> QED
  BY <1>1, Invariance, PTL

(* What the clients see of a step.                                         *)
LEMMA OneStep ==
    ASSUME IInv, [Next]_vars, NEW c \in Clients
    PROVE  \/ task'[c] \in {task[c], [task[c] EXCEPT !.disturbed = TRUE], Ended(task[c], "restarted")}
           \/ Step(c)
           \/ task[c].pc = "idle"
<1>1. CASE UNCHANGED vars
  BY <1>1 DEF vars
<1>2. CASE \E d \in Devices : DeviceStep(d)
  BY <1>2, DeviceInv
<1>3. ASSUME NEW b \in Clients,
             \/ Step(b)
             \/ \E d \in Devices : Call(b, d)
             \/ \E devices \in Seq(Devices) : Sync(b, devices)
      PROVE  \/ task'[c] \in {task[c], [task[c] EXCEPT !.disturbed = TRUE]}
             \/ Step(c)
             \/ task[c].pc = "idle"
  <2>1. CASE b = c
    BY <1>3, <2>1 DEF Call, SetAlgorithms, SetTimeSynchronization, SetScanPattern, Sync, Start
  <2>2. CASE b # c
    BY <1>3, <2>2, OthersKept
  <2> QED
    BY <2>1, <2>2
<1> QED
  BY <1>1, <1>2, <1>3 DEF Next

(* What a read-modify-write of the configuration does not mean to change   *)
(* is, at the moment it is written, what it was.                           *)
THEOREM OtherPartIsKept == Spec => OtherPartKept
<1>1. ASSUME IInv, [Next]_vars, NEW c \in Clients,
             task[c].pc = "set", task'[c].pc # "set", task'[c].result # "restarted",
             ~task[c].disturbed
      PROVE  OtherPart(config'[Target(task[c])], task[c].change)
                = OtherPart(config[Target(task[c])], task[c].change)
  <2> DEFINE t == task[c]
  <2>1. /\ t \in Task /\ TaskOK(t) /\ c \in DOMAIN task /\ config \in [Devices -> Configs]
        /\ t.copy = config[Target(t)]
    BY <1>1 DEF IInv, TypeOK, TaskOK, TaskInv, CopyInv
  <2>2. t.copy \in Configs /\ t.change \in Changes /\ Target(t) \in Devices
    BY <1>1, <2>1, DevicesOK DEF Task
  <2>3. [t EXCEPT !.disturbed = TRUE].pc = "set" /\ Ended(t, "restarted").result = "restarted"
    BY <1>1, <2>1 DEF Task, Ended, Idle
  <2>4. Step(c)
    BY <1>1, <2>3, OneStep
  <2>5. Set(c) \/ config' = config
    BY <1>1, <2>4 DEF Step, Get, Poll, SyncMax, SyncFill, SyncPattern, SyncStamp, Fail, deviceVars
  <2>6. ASSUME Set(c) PROVE config'[Target(t)] = Changed(config[Target(t)], t.change)
    BY <2>1, <2>2, <2>6 DEF Set
  <2> QED
    BY <2>1, <2>2, <2>5, <2>6, ChangedWhat
<1>2. IInv /\ [Next]_vars =>
        [\A c \in Clients : LET t == task[c] IN
         t.pc = "set" /\ task'[c].pc # "set" /\ task'[c].result # "restarted" /\ ~t.disturbed
         => OtherPart(config'[Target(t)], t.change) = OtherPart(config[Target(t)], t.change)]_vars
  BY <1>1
<1> QED
  BY <1>2, Invariance, PTL DEF Spec, OtherPartKept

(* set_time_synchronization() returns only when the device is synchronised,*)
(* in the way that was asked for.                                          *)
THEOREM SyncedIsAsAsked == Spec => SyncedAsAsked
<1>1. ASSUME IInv, [Next]_vars, NEW c \in Clients,
             task[c].pc = "poll", task'[c].result = "synced", ~task[c].disturbed
      PROVE  LET t == task[c]  d == Target(t) IN
             /\ synced[d] /\ config[d].time.kind = t.change.kind
             /\ t.change.hosts # None => config[d].time.hosts = t.change.hosts
  <2> DEFINE t == task[c]
  <2>1. /\ t \in Task /\ TaskOK(t) /\ c \in DOMAIN task /\ PollInv(t, config) /\ t.result = "none"
    BY <1>1 DEF IInv, TypeOK, TaskOK, TaskInv
  <2>2. /\ t.result # "synced" /\ [t EXCEPT !.disturbed = TRUE].result # "synced"
        /\ Ended(t, "restarted").result # "synced"
    BY <2>1 DEF Task, Ended, Idle
  <2>3. Step(c)
    BY <1>1, <2>2, OneStep
  <2>4. Poll(c) \/ task'[c] = Ended(t, "error")
    BY <1>1, <2>1, <2>3 DEF Step, Get, Set, SyncMax, SyncFill, SyncPattern, SyncStamp, Fail, Goes
  <2>5. Poll(c)
    BY <1>1, <2>4 DEF Ended, Idle
  <2>6. /\ Ended(t, "not synced").result # "synced"
        /\ [t EXCEPT !.left = @ - 1].result # "synced"
    BY <2>1, <2>2 DEF Task, Ended, Idle
  <2>7. task'[c] = IF t.left = 0 THEN Ended(t, "not synced")
                   ELSE IF IsSynced(Target(t)) THEN Ended(t, "synced")
                   ELSE [t EXCEPT !.left = @ - 1]
    BY <2>1, <2>5 DEF Poll, Goes
  <2>8. IsSynced(Target(t))
    BY <1>1, <2>6, <2>7
  <2> QED
    BY <1>1, <2>1, <2>8 DEF IsSynced, PollInv
<1>2. IInv /\ [Next]_vars =>
        [\A c \in Clients : LET t == task[c]  d == Target(t) IN
         t.pc = "poll" /\ task'[c].result = "synced" /\ ~t.disturbed
         => /\ synced[d] /\ config[d].time.kind = t.change.kind
            /\ t.change.hosts # None => config[d].time.hosts = t.change.hosts]_vars
  BY <1>1
<1> QED
  BY <1>2, Invariance, PTL DEF Spec, SyncedAsAsked
=============================================================================
