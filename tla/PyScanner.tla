------------------------------- MODULE PyScanner -------------------------------
(***************************************************************************)
(* The methods of scanner.py that take several requests: the configuration *)
(* of a device is read, changed and written back, its time synchronisation *)
(* is polled, several devices are made to record at the same time.  Each   *)
(* client has a connection of its own to each device; a request and its    *)
(* response are one step.                                                  *)
(***************************************************************************)
EXTENDS Integers, Sequences

CONSTANTS
    Clients, Devices,
    Shapes,      \* scan patterns, apart from their target frame rate
    MaxRate,     \* maximum frame rate of a device with a scan pattern
    Drift,       \* what the clock of a device shows when it is not synchronised
    MaxDiff,     \* max_time_difference of sync()
    MaxDuration, \* max_sync_duration
    VaryPersist, \* persist is also given other values than its default
    None,        \* no argument
    MaxCalls,    \* bound: calls of methods
    MaxChanges   \* bound: changes of the synchronisation, power cycles

ASSUME ScannerAssumption ==
    /\ MaxRate \in [Devices -> [Shapes -> Nat \ {0}]] /\ Drift \in [Devices -> Int]
    /\ MaxDiff \in Nat /\ MaxDuration \in Nat /\ MaxCalls \in Nat /\ MaxChanges \in Nat
    /\ VaryPersist \in BOOLEAN
    /\ None \notin Shapes \cup {"standard", "own"} /\ None \notin Nat

VARIABLES
    \* the devices: advanced configuration, scan pattern, what is restored
    \* after a power cycle, state SYNCED
    config, pattern, saved, synced,
    task,          \* the clients: see Task
    calls, changes

deviceVars == <<config, pattern, saved, synced>>
vars == <<deviceVars, task, calls, changes>>

Algorithms == {"none", "filter"}
Kinds      == {"ntp", "ptp"}
Hosts      == {"standard", "own"}
Configs    == [algorithms : Algorithms, time : [kind : Kinds, hosts : Hosts]]
Patterns   == [shape : Shapes, target : Nat]  \* target 0: none
Changes    == [part : {"algorithms"}, value : Algorithms]
              \cup [part : {"time"}, kind : Kinds, hosts : Hosts \cup {None}]

Default  == [algorithms |-> "none", time |-> [kind |-> "ntp", hosts |-> "standard"]]
NoChange == [part |-> "algorithms", value |-> "none"]

(* The method that a client is in (its next request), the arguments and    *)
(* local variables of the method, the outcome of the last one.  disturbed  *)
(* (history): another client has changed what the method read or wrote.    *)
Idle == [pc |-> "idle", devices |-> <<>>, i |-> 1,
         change |-> NoChange, persist |-> FALSE, copy |-> Default, left |-> None,
         shape |-> None, target |-> 0, rate |-> 0, filled |-> None, stamps |-> <<>>,
         disturbed |-> FALSE, result |-> "none"]

Init ==
    /\ config = [d \in Devices |-> Default]
    /\ \E shape \in Shapes : pattern = [d \in Devices |-> [shape |-> shape, target |-> 0]]
    /\ saved = [d \in Devices |-> [config |-> config[d], pattern |-> pattern[d]]]
    /\ synced = [d \in Devices |-> FALSE]
    /\ task = [c \in Clients |-> Idle]
    /\ calls = 0 /\ changes = 0
-----------------------------------------------------------------------------
Target(t) == t.devices[t.i]
LastPassed(t) == t.i > Len(t.devices)  \* bug: off by one
IsLast(t) == t.i = Len(t.devices)
NextI(t) == IF IsLast(t) THEN 1 ELSE t.i + 1

(* Client c goes on with task t; only the devices are changed by others. *)
Goes(c, t) == task' = [task EXCEPT ![c] = t] /\ UNCHANGED <<calls, changes>>
Ended(t, r) == [Idle EXCEPT !.result = r]

Start(c, t) ==
    /\ task[c].pc = "idle" /\ calls < MaxCalls /\ calls' = calls + 1
    /\ task' = [task EXCEPT ![c] = t]
    /\ UNCHANGED <<deviceVars, changes>>

(* The methods, with their arguments.  set_time_synchronization() with both*)
(* or none of ntp and ptp raises after its first request and is left out;  *)
(* left is max_sync_duration, or None if it does not wait.                 *)
Persist(default) == IF VaryPersist THEN BOOLEAN ELSE {default}

SetAlgorithms(c, d) ==
    \E a \in Algorithms, persist \in Persist(FALSE) :
        Start(c, [Idle EXCEPT !.pc = "get", !.devices = <<d>>, !.persist = persist,
                              !.change = [part |-> "algorithms", value |-> a]])

SetTimeSynchronization(c, d) ==
    \E kind \in Kinds, hosts \in {None, "own"}, persist \in Persist(TRUE),
       wait \in {None, MaxDuration} :
        Start(c, [Idle EXCEPT !.pc = "get", !.devices = <<d>>, !.persist = persist,
                              !.left = wait,
                              !.change = [part |-> "time", kind |-> kind, hosts |-> hosts]])

Sync(c, devices) ==
    /\ devices # <<>>
    /\ \E shape \in Shapes \cup {None}, target \in {0, 1} :
         Start(c, [Idle EXCEPT !.pc = "max", !.devices = devices, !.shape = shape,
                               !.target = target])

(* get_advanced_config() *)
Get(c) ==
    LET t == task[c] IN
    /\ t.pc = "get"
    /\ Goes(c, [t EXCEPT !.pc = "set", !.copy = config[Target(t)], !.disturbed = FALSE])
    /\ UNCHANGED deviceVars

(* ntp=True or ptp=True selects the kind (SetInParent()); an object or a   *)
(* list of hosts replaces those of the configuration.                      *)
WithTime(time, change) ==
    IF change.hosts # None THEN [kind |-> change.kind, hosts |-> change.hosts]
    ELSE IF time.kind = change.kind THEN time
    ELSE [kind |-> change.kind, hosts |-> "standard"]

Fresh(cfg, change) ==  \* bug: a new message instead of the one that was read
    IF change.part = "algorithms" THEN [Default EXCEPT !.algorithms = change.value]
    ELSE [Default EXCEPT !.time = WithTime(Default.time, change)]
HostsOnly(cfg, change) ==  \* bug: the kind is not selected
    IF change.part = "algorithms" THEN [cfg EXCEPT !.algorithms = change.value]
    ELSE [cfg EXCEPT !.time.hosts = IF change.hosts = None THEN @ ELSE change.hosts]
Changed(cfg, change) ==
    IF change.part = "algorithms" THEN [cfg EXCEPT !.algorithms = change.value]
    ELSE [cfg EXCEPT !.time = WithTime(cfg.time, change)]

(* Client c goes on with task t after having changed d, which disturbs the *)
(* others that are between two requests of a method on d.                  *)
Writes(c, d, t, states) ==
    /\ task' = [x \in Clients |->
                  IF x = c THEN t
                  ELSE IF task[x].pc \in states /\ \E k \in DOMAIN task[x].devices :
                                                      task[x].devices[k] = d
                       THEN [task[x] EXCEPT !.disturbed = TRUE] ELSE task[x]]
    /\ UNCHANGED changes

(* set_advanced_config(): the device starts to synchronise anew if it has  *)
(* to, and saves the message if it is to persist.                          *)
Set(c) ==
    LET t == task[c]  d == Target(t)  cfg == Changed(t.copy, t.change) IN
    /\ t.pc = "set"
    /\ config' = [config EXCEPT ![d] = cfg]
    /\ synced' = [synced EXCEPT ![d] = @ /\ cfg.time = config[d].time]
    /\ saved' = IF t.persist THEN [saved EXCEPT ![d].config = cfg] ELSE saved
    /\ Writes(c, d, IF t.left = None THEN Ended(t, "set")
                    ELSE [t EXCEPT !.pc = "poll", !.disturbed = FALSE], {"set", "poll"})
    /\ UNCHANGED <<pattern, calls>>

AnyState(d) == TRUE  \* bug: the state is not looked at
IsSynced(d) == synced[d]

(* The loop of set_time_synchronization() looks, and sleeps for a second;  *)
(* after the last second it raises without having looked again.            *)
Poll(c) ==
    LET t == task[c] IN
    /\ t.pc = "poll"
    /\ Goes(c, IF t.left = 0 THEN Ended(t, "not synced")
               ELSE IF IsSynced(Target(t)) THEN Ended(t, "synced")
               ELSE [t EXCEPT !.left = @ - 1])
    /\ UNCHANGED deviceVars

ShapeFor(t) == IF t.shape = None THEN pattern[Target(t)].shape ELSE t.shape

Greatest(a, b) == IF a = 0 \/ b > a THEN b ELSE a  \* bug: > instead of <
Smallest(a, b) == IF a = 0 \/ b < a THEN b ELSE a

(* The first loop of sync(): fill_scan_pattern() or get_scan_pattern() tell*)
(* the maximum frame rate; the smallest one is used unless less is asked   *)
(* for.                                                                    *)
SyncMax(c) ==
    LET t == task[c]  max == Smallest(t.rate, MaxRate[Target(t)][ShapeFor(t)]) IN
    /\ t.pc = "max"
    /\ Goes(c, [t EXCEPT !.i = NextI(t), !.pc = IF IsLast(t) THEN "fill" ELSE "max",
                         !.rate = IF IsLast(t) /\ t.target \in 1 .. max THEN t.target ELSE max])
    /\ UNCHANGED deviceVars

(* The second loop asks for the scan pattern again ... *)
SyncFill(c) ==
    LET t == task[c] IN
    /\ t.pc = "fill"
    /\ Goes(c, [t EXCEPT !.pc = "pattern", !.filled = ShapeFor(t)])
    /\ UNCHANGED deviceVars

(* ... and sets it with the frame rate. *)
SyncPattern(c) ==
    LET t == task[c]  d == Target(t) IN
    /\ t.pc = "pattern"
    /\ pattern' = [pattern EXCEPT ![d] = [shape |-> t.filled, target |-> t.rate]]
    /\ Writes(c, d, [t EXCEPT !.i = NextI(t), !.pc = IF IsLast(t) THEN "stamp" ELSE "fill"],
              {"max", "fill", "pattern", "stamp"})
    /\ UNCHANGED <<config, saved, synced, calls>>

Clock(d) == IF synced[d] THEN 0 ELSE Drift[d]

Signed(a, b) == a - b  \* bug: no abs()
Difference(a, b) == IF a < b THEN b - a ELSE a - b

(* The third loop collects the timestamps, which are then compared with    *)
(* that of the first device.                                               *)
SyncStamp(c) ==
    LET t == task[c]
        stamps == Append(t.stamps, Clock(Target(t)))
        all == [t EXCEPT !.i = NextI(t), !.stamps = stamps]
    IN
    /\ t.pc = "stamp"
    /\ Goes(c, IF ~IsLast(t) THEN all
               ELSE IF \E k \in 2 .. Len(stamps) : Difference(stamps[1], stamps[k]) > MaxDiff
                    THEN Ended(t, "not in sync")
                    ELSE [Ended(t, "in sync") EXCEPT !.stamps = stamps])
    /\ UNCHANGED deviceVars

(* A request fails, and the method raises. *)
Fail(c) ==
    /\ task[c].pc # "idle"
    /\ Goes(c, Ended(task[c], "error"))
    /\ UNCHANGED deviceVars

(* set_scan_pattern(), a single request *)
SetScanPattern(c, d) ==
    /\ task[c].pc = "idle" /\ calls < MaxCalls /\ calls' = calls + 1
    /\ \E shape \in Shapes, persist \in Persist(FALSE) :
         /\ pattern' = [pattern EXCEPT ![d] = [shape |-> shape, target |-> 0]]
         /\ saved' = IF persist THEN [saved EXCEPT ![d].pattern = pattern'[d]] ELSE saved
    /\ Writes(c, d, [Idle EXCEPT !.result = "set"], {"max", "fill", "pattern", "stamp"})
    /\ UNCHANGED <<config, synced>>
-----------------------------------------------------------------------------
(* The devices find and lose the synchronisation, and restart with what    *)
(* they saved: methods in progress raise at their next request.            *)
DeviceSync(d) ==
    /\ changes < MaxChanges /\ changes' = changes + 1
    /\ synced' = [synced EXCEPT ![d] = ~@]
    /\ UNCHANGED <<config, pattern, saved, task, calls>>

PowerCycle(d) ==
    /\ changes < MaxChanges /\ changes' = changes + 1
    /\ config' = [config EXCEPT ![d] = saved[d].config]
    /\ pattern' = [pattern EXCEPT ![d] = saved[d].pattern]
    /\ synced' = [synced EXCEPT ![d] = FALSE]
    /\ task' = [c \in Clients |->
                  IF \E k \in DOMAIN task[c].devices : task[c].devices[k] = d
                  THEN Ended(task[c], "restarted") ELSE task[c]]
    /\ UNCHANGED <<saved, calls>>

Step(c) == \/ Get(c) \/ Set(c) \/ Poll(c) \/ SyncMax(c) \/ SyncFill(c) \/ SyncPattern(c)
           \/ SyncStamp(c) \/ Fail(c)
Call(c, d) == SetAlgorithms(c, d) \/ SetTimeSynchronization(c, d) \/ SetScanPattern(c, d)
DeviceStep(d) == DeviceSync(d) \/ PowerCycle(d)

Next ==
    \/ \E c \in Clients : Step(c) \/ \E d \in Devices : Call(c, d)
    \/ \E c \in Clients, devices \in Seq(Devices) : Sync(c, devices)
    \/ \E d \in Devices : DeviceStep(d)

Spec == Init /\ [][Next]_vars
-----------------------------------------------------------------------------
Task == [pc : {"idle", "get", "set", "poll", "max", "fill", "pattern", "stamp"},
         devices : Seq(Devices), i : Nat \ {0},
         change : Changes, persist : BOOLEAN, copy : Configs, left : Nat \cup {None},
         shape : Shapes \cup {None}, target : Nat, rate : Nat, filled : Shapes \cup {None},
         stamps : Seq(Int), disturbed : BOOLEAN,
         result : {"none", "set", "synced", "not synced", "in sync", "not in sync",
                   "error", "restarted"}]

(* A method is at one of its devices, and as far in its loops as its local *)
(* variables say.                                                          *)
TaskOK(t) ==
    /\ t \in Task
    /\ t.pc # "idle" => t.i \in 1 .. Len(t.devices) /\ t.result = "none"
    /\ t.pc \in {"get", "set", "poll"} =>
           Len(t.devices) = 1 /\ (t.left # None => t.change.part = "time")
    /\ t.pc = "poll" => t.left # None
    /\ t.pc \in {"fill", "pattern", "stamp"} => t.rate > 0
    /\ t.pc = "pattern" => t.filled # None
    /\ t.pc # "idle" => Len(t.stamps) = IF t.pc = "stamp" THEN t.i - 1 ELSE 0

(* Types. *)
TypeOK ==
    /\ config \in [Devices -> Configs] /\ pattern \in [Devices -> Patterns]
    /\ saved \in [Devices -> [config : Configs, pattern : Patterns]]
    /\ synced \in [Devices -> BOOLEAN]
    /\ calls \in Nat /\ changes \in Nat
    /\ DOMAIN task = Clients /\ \A c \in Clients : TaskOK(task[c])

(* set_default_point_cloud_algorithms() and set_time_synchronization()     *)
(* change nothing else in the configuration, unless another client has     *)
(* written it since they read it: then, and only then, its update is lost. *)
OtherPart(cfg, change) == IF change.part = "time" THEN cfg.algorithms ELSE cfg.time
OtherPartKept ==
    [][\A c \in Clients : LET t == task[c] IN
         t.pc = "set" /\ task'[c].pc # "set" /\ task'[c].result # "restarted" /\ ~t.disturbed
         => OtherPart(config'[Target(t)], t.change) = OtherPart(config[Target(t)], t.change)]_vars

(* set_time_synchronization() returns when the device is SYNCED with the   *)
(* kind of synchronisation, and the hosts, that were asked for, unless     *)
(* another client has reconfigured it in the meantime.                     *)
SyncedAsAsked ==
    [][\A c \in Clients : LET t == task[c]  d == Target(t) IN
         t.pc = "poll" /\ task'[c].result = "synced" /\ ~t.disturbed
         => /\ synced[d] /\ config[d].time.kind = t.change.kind
            /\ t.change.hosts # None => config[d].time.hosts = t.change.hosts]_vars

(* "Sync two or more devices to record frames at the same time" (scanner.py*)
(* line 513): once sync() has set the scan patterns, all of its devices    *)
(* have the same target frame rate, which each of them can run, unless     *)
(* another client has changed a pattern in the meantime.                   *)
SameRate ==
    \A c \in Clients : LET t == task[c] IN
        t.pc = "stamp" /\ ~t.disturbed =>
            \A k \in DOMAIN t.devices : LET p == pattern[t.devices[k]] IN
                /\ p.target = t.rate /\ p.target <= MaxRate[t.devices[k]][p.shape]
                /\ t.shape # None => p.shape = t.shape

(* When sync() returns, the clocks that it saw are pairwise within twice   *)
(* the "Maximum time difference allowed" (scanner.py:521).                 *)
ClocksAgree ==
    \A c \in Clients : LET t == task[c] IN
        t.result = "in sync" => \A k, l \in DOMAIN t.stamps :
            t.stamps[k] - t.stamps[l] <= 2 * MaxDiff
=============================================================================
