------------------------------ MODULE PyDiscovery ------------------------------
(***************************************************************************)
(* discover.py of the Python package: one search for devices.  A listener  *)
(* that zeroconf calls in a thread of its own appends what it resolves to  *)
(* a list, until the duration of the search has been waited for; then the  *)
(* devices of the list are connected to.                                   *)
(***************************************************************************)
EXTENDS Integers, Sequences, FiniteSets

CONSTANTS
    Network,    \* the devices in the network
    NoInfo,     \* what get_service_info() returns if it gets no answer
    Duration,   \* duration of the search
    MaxInfos    \* bound: announcements during the search

ASSUME DiscoveryAssumption ==
    NoInfo \notin Network /\ Duration \in Nat /\ MaxInfos \in Nat

VARIABLES
    one,       \* search_one_and_connect() was called
    phase,     \* "search", "connect" or "done"
    duration,  \* what is left of it
    notified,  \* notify_all() was called since wait() returned
    infos,     \* the list of the listener
    tried,     \* number of infos that were gone through
    found,     \* the scanner objects, as the devices they are connected to
    refused    \* history: positions in infos that could not be connected to

discoveryVars == <<one, phase, duration, notified, infos, tried, found, refused>>

DiscoveryInit ==
    /\ one \in BOOLEAN
    /\ phase = "search" /\ duration = Duration /\ notified = FALSE
    /\ infos = <<>> /\ tried = 0 /\ found = <<>> /\ refused = {}

(* add_service(): a device announces itself, perhaps not for the first     *)
(* time, and is resolved or not.                                           *)
AddService(info) ==
    /\ phase = "search" /\ Len(infos) < MaxInfos
    /\ infos' = Append(infos, info)
    /\ notified' = TRUE
    /\ UNCHANGED <<one, phase, duration, tried, found, refused>>

NotReduced(elapsed) == duration  \* bug: every wait() is for the whole duration
Remaining(elapsed) == duration - elapsed

(* wait() returns when it is notified or when the time is over; the loop   *)
(* ends, and with it the listener, when nothing is left of the duration.   *)
WaitReturns(elapsed) ==
    /\ phase = "search"
    /\ duration > 0 => elapsed = duration \/ notified
    /\ duration' = Remaining(elapsed)
    /\ notified' = FALSE
    /\ phase' = IF duration' > 0 THEN "search" ELSE "connect"
    /\ UNCHANGED <<one, infos, tried, found, refused>>

(* search_and_connect(): whatever fails, the next one is tried.            *)
(* search_one_and_connect() tries only the first, and raises if that fails.*)
ToTry == IF one /\ infos # <<>> THEN 1 ELSE Len(infos)

AfterFailure(i) == ToTry  \* bug: the try is around the loop
NextInfo(i) == i

(* scanner(): the device answers hello(), within the timeout; info may be  *)
(* None, which has no address.                                             *)
Connects(info, succeeds) == info # NoInfo /\ succeeds

TryConnect(succeeds) ==
    /\ phase = "connect" /\ tried < ToTry
    /\ LET info == infos[tried + 1] IN
       IF Connects(info, succeeds)
       THEN found' = Append(found, info) /\ tried' = tried + 1 /\ UNCHANGED refused
       ELSE tried' = NextInfo(tried + 1) /\ refused' = refused \cup {tried + 1}
            /\ UNCHANGED found
    /\ UNCHANGED <<one, phase, duration, notified, infos>>

(* The scanner objects are returned; the rest was local to the call. *)
SearchReturns ==
    /\ phase = "connect" /\ tried >= ToTry
    /\ phase' = "done"
    /\ one' = FALSE /\ infos' = <<>> /\ tried' = 0 /\ refused' = {}
    /\ duration' = 0 /\ notified' = FALSE
    /\ UNCHANGED found

DiscoveryNext ==
    \/ \E info \in Network \cup {NoInfo} : AddService(info)
    \/ \E elapsed \in 0 .. Duration : elapsed <= duration /\ WaitReturns(elapsed)
    \/ \E succeeds \in BOOLEAN : TryConnect(succeeds)
    \/ SearchReturns

(* Time passes in wait(), and the search goes on. *)
DiscoveryFairness ==
    WF_discoveryVars(\/ WaitReturns(duration) \/ SearchReturns
                     \/ \E succeeds \in BOOLEAN : TryConnect(succeeds))
-----------------------------------------------------------------------------
DiscoveryTypeOK ==
    /\ one \in BOOLEAN /\ phase \in {"search", "connect", "done"}
    /\ duration \in 0 .. Duration /\ notified \in BOOLEAN
    /\ infos \in Seq(Network \cup {NoInfo}) /\ tried \in 0 .. Len(infos)
    /\ found \in Seq(Network) /\ refused \subseteq 1 .. Len(infos)

(* The search returns what it found, in the order of the announcements: it *)
(* leaves out exactly what it tried to connect to in vain.  The search for *)
(* one device returns the first or none.                                   *)
Kept(k) == 1 .. k \ refused
FoundInOrder ==
    phase = "connect" /\ tried >= ToTry =>
        /\ Len(found) = Cardinality(Kept(ToTry))
        /\ \A k \in Kept(ToTry) : found[Cardinality(Kept(k))] = infos[k]

(* The search comes to its end however often devices announce themselves.  *)
SearchEnds == phase = "search" ~> phase = "done"
=============================================================================
