-------------------------- MODULE PointCloudRecording --------------------------
(***************************************************************************)
(* point_cloud_stream.cpp and point_cloud_record.cpp of the C++ library:   *)
(* the stream object that receives frames from a device ("live") or from a *)
(* file ("replay"), and the record object that it writes them with, whose  *)
(* footer and scan pattern are the variables footer and pattern.           *)
(***************************************************************************)
EXTENDS RecordingFile

CONSTANT RecordsReplays  \* record_to_stream() is called on a file stream

CppOpenDevice ==
    /\ nextId < FirstId + MaxFrames
    /\ NewStream("live")
    /\ UNCHANGED <<data, footer, input>>

(* The constructor leaves the last block, from which it took the footer of *)
(* the metadata, in stream_data.  It may fail to parse a torn header, or   *)
(* take it for one of a file without blocks.                               *)
CppOpenFile(k) ==
    /\ NewStream("replay")
    /\ input' = k
    /\ data' = IF files[k].torn = "no" THEN LastBlock(files[k]) ELSE StrayBlock
    /\ UNCHANGED footer

(* read_stream() at position p.  The end of the file is as good as that of *)
(* the message if it comes at the boundary of a field; inside of a field,  *)
(* "Failed to parse input" is thrown before stream_buffered is set.        *)
CppRead(p) ==
    LET f == files[input] IN
    IF p < Len(f.blocks)
    THEN [data |-> f.blocks[p + 1], pos |-> p + 1, buffered |-> TRUE]
    ELSE IF p < Readable(f)
    THEN [data |-> StrayBlock, pos |-> p + 1, buffered |-> buffered \/ f.torn = "boundary"]
    ELSE [data |-> data, pos |-> p, buffered |-> FALSE]

CppAhead == IF buffered THEN [data |-> data, pos |-> pos, buffered |-> TRUE] ELSE CppRead(pos)
CppAtEnd(s) == ~s.buffered \/ s.data.footer # <<>>

CppRecv(f, rec) ==
    /\ received' = Append(received, f)
    /\ IF ofile = 0 THEN UNCHANGED recorded
       ELSE recorded' = [recorded EXCEPT ![ofile] = Append(@, f)]
    /\ IF ~rec THEN UNCHANGED <<footer, pattern, files>>
       ELSE /\ files' = Written([EmptyBlock EXCEPT !.frame = <<f>>])
            /\ footer' = FooterWith(f)
            /\ pattern' = <<f.pattern>>

CppRecvLive ==
    /\ source = "live"
    /\ \E f \in NextFrames : DeviceSends(f) /\ CppRecv(f, ofile # 0)
    /\ UNCHANGED <<source, data, ofile, input, pos, buffered, recordings>>

StillBuffered == TRUE  \* bug: stream_buffered is not reset
BufferedAfterRecv == FALSE

(* At the end, recv_frame() throws, as read_stream() does within a block.  *)
(* A file stream does not record.                                          *)
CppRecvReplay ==
    /\ source = "replay"
    /\ data' = CppAhead.data /\ pos' = CppAhead.pos
    /\ IF CppAtEnd(CppAhead)
       THEN /\ buffered' = CppAhead.buffered
            /\ UNCHANGED <<footer, pattern, files, recorded, received>>
       ELSE /\ buffered' = BufferedAfterRecv
            /\ CppRecv(CppAhead.data.frame[1], FALSE)
    /\ UNCHANGED <<source, ofile, input, nextId, recordings>>

(* end_of_stream() *)
CppEndOfStream ==
    /\ source = "replay"
    /\ data' = CppAhead.data /\ pos' = CppAhead.pos /\ buffered' = CppAhead.buffered
    /\ UNCHANGED <<source, footer, pattern, ofile, input, files, nextId, recorded,
                   received, recordings>>

(* jump_to_first_frame(): what is received is compared with the recording  *)
(* from its beginning again.                                               *)
JumpKeepsBlock == IF buffered THEN CppAhead ELSE CppRead(0)  \* bug: keeps the block read ahead
JumpTarget == CppRead(0)

CppJump ==
    /\ source = "replay"
    /\ data' = JumpTarget.data /\ pos' = JumpTarget.pos /\ buffered' = JumpTarget.buffered
    /\ received' = <<>>
    /\ UNCHANGED <<source, footer, pattern, ofile, input, files, nextId, recorded, recordings>>

FinishWithFrame ==  \* bug: the last frame is written again
    IF ofile # 0 THEN [LastBlock(files[ofile]) EXCEPT !.footer = <<footer>>] ELSE EmptyBlock
(* finish(): the footer gets a block of its own. *)
FinishBlock == [EmptyBlock EXCEPT !.footer = <<footer>>]
CppFinished == IF ofile # 0 THEN Closed(FinishBlock) ELSE files

(* record_to_stream() finishes the running recording first. *)
CppRecord ==
    /\ source \in {"live"} \cup IF RecordsReplays THEN {"replay"} ELSE {}
    /\ Len(files) < MaxFiles /\ recordings < 2 * MaxPerStream
    /\ files' = NewFile("CPP", CppFinished)
    /\ ofile' = Len(files) + 1
    /\ footer' = EmptyFooter /\ pattern' = <<>>
    /\ recorded' = Append(recorded, <<>>) /\ recordings' = recordings + 1
    /\ UNCHANGED <<source, data, input, pos, buffered, nextId, received>>

(* stop_recording() *)
CppStopRecording ==
    /\ source \in {"live", "replay"} /\ ofile # 0
    /\ files' = CppFinished /\ ofile' = 0
    /\ UNCHANGED <<source, data, footer, pattern, input, pos, buffered, nextId,
                   recorded, received, recordings>>

(* The destructor stops the recording. *)
CppDestroy ==
    /\ source \in {"live", "replay"}
    /\ files' = CppFinished
    /\ NoStream

CppNext == \/ CppOpenDevice \/ \E k \in DOMAIN files : CppOpenFile(k)
           \/ CppRecvLive \/ CppRecvReplay \/ CppEndOfStream \/ CppJump
           \/ CppRecord \/ CppStopRecording \/ CppDestroy
=============================================================================
