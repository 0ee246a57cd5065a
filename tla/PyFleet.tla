-------------------------------- MODULE PyFleet --------------------------------
(***************************************************************************)
(* An application searches for devices, configures and synchronises those  *)
(* that it found; other clients use the devices at the same time.          *)
(***************************************************************************)
EXTENDS PyScanner, PyDiscovery

CONSTANT App  \* the client that searched

ASSUME FleetAssumption == App \in Clients /\ Network \subseteq Devices

fleetVars == <<vars, discoveryVars>>

FleetInit == Init /\ DiscoveryInit

FleetNext ==
    \/ DiscoveryNext /\ UNCHANGED vars
    \/ /\ UNCHANGED discoveryVars
       /\ phase = "done"
       /\ \/ \E c \in Clients : Step(c)
          \/ \E c \in Clients \ {App}, d \in Devices : Call(c, d)
          \/ \E k \in DOMAIN found : Call(App, found[k])
          \/ Sync(App, found)
          \/ \E d \in Devices : DeviceStep(d)

FleetSpec == FleetInit /\ [][FleetNext]_fleetVars /\ DiscoveryFairness

FleetTypeOK == TypeOK /\ DiscoveryTypeOK
=============================================================================
