-------------------------------- MODULE MCFleet --------------------------------
(***************************************************************************)
(* Two devices with different frame rates and clocks, an application and   *)
(* another client.                                                         *)
(***************************************************************************)
EXTENDS PyFleet

CONSTANTS d1, d2, wide, narrow

MCMaxRate == [d \in Devices |-> [shape \in Shapes |->
                 IF d = d1 THEN (IF shape = wide THEN 2 ELSE 3)
                           ELSE (IF shape = wide THEN 1 ELSE 4)]]
MCDrift == [d \in Devices |-> IF d = d1 THEN 0 ELSE 3]
=============================================================================
