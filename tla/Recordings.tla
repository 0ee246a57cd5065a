------------------------------- MODULE Recordings -------------------------------
(***************************************************************************)
(* The Python and the C++ library use the same files: recordings of either *)
(* are read by both.                                                       *)
(***************************************************************************)
EXTENDS PyPointCloudStream, PointCloudRecording

BothNext == \/ Next
            \/ CppNext /\ UNCHANGED <<lastId, terminate, raised, asked, interrupted>>

BothSpec == Init /\ [][BothNext]_vars
=============================================================================
