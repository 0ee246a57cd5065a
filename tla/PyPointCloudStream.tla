-------------------------- MODULE PyPointCloudStream --------------------------
(***************************************************************************)
(* stream/point_cloud.py of the Python package: the stream object that     *)
(* receives frames from a device or from a file, and records what it       *)
(* receives to a file.  One thread uses one stream object after the other; *)
(* the process may be killed while a file is open for writing.             *)
(***************************************************************************)
EXTENDS RecordingFile

CONSTANTS
    Flags,         \* values of fail_on_lost_frames that the application uses
    StopBuffered,  \* stop_recording() may follow end_of_stream() of a file
    MayInterrupt   \* the user may press CTRL-C

ASSUME PyAssumption ==
    /\ Flags \subseteq BOOLEAN
    /\ StopBuffered \in BOOLEAN /\ MayInterrupt \in BOOLEAN

VARIABLES
    lastId,     \* _last_frame_id: no or one id
    terminate,  \* the flag of point_cloud.py
    \* history: whether the latest frame was reported as following a lost
    \* one, whether every call asked for such reports; CTRL-C pressed
    raised, asked, interrupted

vars == <<fileVars, lastId, terminate, raised, asked, interrupted>>

Init == /\ FilesInit /\ lastId = <<>> /\ terminate = FALSE
        /\ raised = FALSE /\ asked = TRUE /\ interrupted = FALSE

-----------------------------------------------------------------------------
OpenDevice ==
    /\ nextId < FirstId + MaxFrames
    /\ NewStream("device")
    /\ UNCHANGED <<data, footer, input, lastId, terminate, raised, asked, interrupted>>

(* A file that a killed process left behind lacks the end marker of gzip:  *)
(* its size is unknown and its footer not looked for.  Of a complete file, *)
(* the last block is read first.                                           *)
OpenFile(k) ==
    /\ files[k].header # "torn"
    /\ NewStream("file")
    /\ input' = k
    /\ LET last == IF files[k].complete THEN LastBlock(files[k]) ELSE EmptyBlock
       IN /\ data' = last
          /\ footer' = IF last.footer # <<>> THEN last.footer[1] ELSE EmptyFooter
    /\ UNCHANGED <<lastId, terminate, raised, asked, interrupted>>

NoClear(blk) == [blk EXCEPT !.footer = blk.footer \o data.footer]  \* bug: no Clear()
Cleared(blk) == blk

(* _read_stream() *)
ReadStream ==
    LET f == files[input] IN
    IF f.complete /\ pos = Len(f.blocks)
    THEN [data |-> data, pos |-> pos, buffered |-> FALSE]
    ELSE IF pos < Len(f.blocks)
    THEN [data |-> Cleared(f.blocks[pos + 1]), pos |-> pos + 1, buffered |-> TRUE]
    ELSE [data |-> EmptyBlock, pos |-> pos, buffered |-> FALSE]  \* EOFError

(* end_of_stream() reads a block ahead; the state it leaves, and its value.*)
Ahead == IF buffered THEN [data |-> data, pos |-> pos, buffered |-> TRUE] ELSE ReadStream
AtEnd(s) == ~s.buffered \/ s.data.footer # <<>>

EndOfStream ==
    /\ source = "file"
    /\ data' = Ahead.data /\ pos' = Ahead.pos /\ buffered' = Ahead.buffered
    /\ UNCHANGED <<source, footer, pattern, lastId, ofile, input, files, terminate, nextId,
                   recorded, received, raised, asked, recordings, interrupted>>

(* _save_frame_to_file() *)
Save(f, blk) ==
    /\ data' = [blk EXCEPT !.frame = <<f>>]
    /\ footer' = FooterWith(f)
    /\ pattern' = <<f.pattern>>
    /\ files' = Written(data')
    /\ recorded' = [recorded EXCEPT ![ofile] = Append(@, f)]

LostIfSmaller(f) == lastId # <<>> /\ lastId[1] >= f.id    \* bug: < instead of !=
LostIfNext(f) == lastId # <<>> /\ lastId[1] # f.id        \* bug: + 1 is missing

(* An id 0 of the previous frame counts as no id. *)
Lost(f) == lastId # <<>> /\ lastId[1] # 0 /\ lastId[1] + 1 # f.id

(* __recv_frame() once it has frame f, and block blk is in _stream_data. *)
Deliver(f, blk, fail) ==
    /\ received' = Append(received, f)
    /\ asked' = (asked /\ fail)
    /\ lastId' = IF fail THEN <<f.id>> ELSE lastId
    /\ raised' = (fail /\ Lost(f))
    /\ IF ofile # 0 /\ ~raised'
       THEN Save(f, blk)
       ELSE data' = blk /\ UNCHANGED <<footer, pattern, files, recorded>>

RecvFromDevice(fail) ==
    /\ source = "device" /\ ~terminate
    /\ \E f \in NextFrames : DeviceSends(f) /\ Deliver(f, data, fail)
    /\ UNCHANGED <<source, ofile, input, pos, buffered, terminate, recordings, interrupted>>

(* At the end, ConnectionAbortedError is raised. *)
RecvFromFile(fail) ==
    /\ source = "file" /\ ~terminate
    /\ pos' = Ahead.pos
    /\ IF AtEnd(Ahead)
       THEN /\ data' = Ahead.data /\ buffered' = Ahead.buffered
            /\ UNCHANGED <<footer, pattern, lastId, files, recorded, received,
                           raised, asked>>
       ELSE /\ buffered' = FALSE
            /\ Deliver(Ahead.data.frame[1], Ahead.data, fail)
    /\ UNCHANGED <<source, ofile, input, terminate, nextId, recordings, interrupted>>

FooterKept == footer  \* bug: no ClearField("footer")
FooterAtStart == EmptyFooter
PatternKept == pattern  \* bug: _prev_scan_pattern_str is not reset
PatternAtStart == <<>>

(* record_to_file() *)
RecordToFile ==
    /\ source \in {"device", "file"} /\ ofile = 0
    /\ Len(files) < MaxFiles /\ recordings < MaxPerStream
    /\ pattern' = PatternAtStart
    /\ footer' = FooterAtStart
    /\ files' = NewFile("PYTHON", files)
    /\ ofile' = Len(files) + 1
    /\ recorded' = Append(recorded, <<>>) /\ recordings' = recordings + 1
    /\ UNCHANGED <<source, data, lastId, input, pos, buffered, terminate, nextId, received,
                   raised, asked, interrupted>>

(* stop_recording(); also the first thing that stop() does. *)
FinalBlock == [data EXCEPT !.footer = <<footer>>]

StopRecording ==
    /\ source \in {"device", "file"} /\ ofile # 0
    /\ buffered => StopBuffered \/ AtEnd(Ahead)
    /\ data' = FinalBlock /\ files' = Closed(FinalBlock) /\ ofile' = 0
    /\ UNCHANGED <<source, footer, pattern, lastId, input, pos, buffered, terminate, nextId,
                   recorded, received, raised, asked, recordings, interrupted>>

(* stop() by the application, by __del__, or by __recv_frame() that finds  *)
(* terminate set; the connection or the file is closed.                    *)
Stop ==
    /\ source \in {"device", "file"}
    /\ files' = IF ofile # 0 THEN Closed(FinalBlock) ELSE files
    /\ NoStream /\ lastId' = <<>> /\ raised' = FALSE /\ asked' = TRUE
    /\ UNCHANGED <<terminate, interrupted>>

(* Both point_cloud.py and raw.py call signal.signal() when they are       *)
(* imported; the package imports raw.py last, whose handler sets the flag  *)
(* of raw.py.                                                              *)
HandlerModule == "raw"

Interrupt ==
    /\ MayInterrupt /\ ~interrupted
    /\ terminate' = (HandlerModule = "point_cloud")
    /\ interrupted' = TRUE
    /\ UNCHANGED <<fileVars, lastId, raised, asked>>

Crash ==
    /\ Killed
    /\ lastId' = <<>> /\ raised' = FALSE /\ asked' = TRUE
    /\ terminate' = FALSE /\ interrupted' = FALSE

Next == \/ OpenDevice \/ \E k \in DOMAIN files : OpenFile(k)
        \/ \E fail \in Flags : RecvFromDevice(fail) \/ RecvFromFile(fail)
        \/ EndOfStream \/ RecordToFile \/ StopRecording \/ Stop
        \/ Interrupt \/ Crash

Spec == Init /\ [][Next]_vars
-----------------------------------------------------------------------------
TypeOK ==
    /\ FilesOK
    /\ IsOptional(lastId, Nat)
    /\ terminate \in BOOLEAN /\ interrupted \in BOOLEAN
    /\ raised \in BOOLEAN /\ asked \in BOOLEAN

(* A recording yields the frames that were recorded, in order and none     *)
(* twice: by the end of the stream, all of them if it was stopped, those   *)
(* whose blocks are whole if the process was killed.  Nothing else is      *)
(* received, unless the C++ library reads a file that was torn at the      *)
(* boundary of a field: it may add one frame that was not recorded.        *)
ReadBack ==
    source \in {"file", "replay"} =>
        LET f == files[input]
            original == recorded[input]
            kept == IF f.complete THEN Len(original) ELSE Len(f.blocks)
        IN /\ kept <= Len(original)
           /\ \A i \in DOMAIN received :
                IF i <= kept THEN received[i] = original[i]
                ELSE i = kept + 1 /\ source = "replay" /\ f.torn = "boundary"
           /\ AtEnd(Ahead) => Len(received) >= kept

(* An application that always asks for it learns of every lost frame: a    *)
(* frame is only returned if it follows the one received before ...        *)
Receives == /\ source \in {"device", "file"} /\ received # <<>>
            /\ Len(received') = Len(received) + 1
Follows == received'[Len(received')].id = received[Len(received)].id + 1
LostFrameRaised == [][asked' /\ Receives /\ ~raised' => Follows]_vars

(* ... and the exception is only raised when a frame was lost. *)
NoFalseAlarm == [][asked' /\ Receives /\ raised' => ~Follows]_vars

(* "If stream is closed with CTRL-C it will still write the footer and     *)
(* save the file" (point_cloud.py:414): no frame is received after that.   *)
InterruptStops ==
    [][interrupted /\ interrupted' => Len(received') <= Len(received)]_vars
=============================================================================
