----------------------------- MODULE RecordingFile -----------------------------
(***************************************************************************)
(* The recordings of a process, and the stream object it is using, as far  *)
(* as the C++ and the Python library have them in common.                  *)
(*                                                                         *)
(* A file is a header, which names the library that wrote it, and blocks;  *)
(* each is a message behind its length.  A block, like the attribute       *)
(* (_)stream_data that blocks are read into, has an optional frame and an  *)
(* optional footer (optional: a sequence of no or one element).  If the    *)
(* writer was killed, the blocks are those that are whole, and the rest of *)
(* the file may be torn: one more length, and its block up to the boundary *)
(* of a field ("boundary"; possibly nothing of it) or up to some place     *)
(* inside of a field ("inside").                                           *)
(***************************************************************************)
EXTENDS Naturals, Sequences

CONSTANTS
    Patterns,      \* scan patterns
    FirstId,       \* id of the first frame that the device sends
    MayLose,       \* the device may skip a frame
    MayCrash,      \* the process may be killed
    MaxFrames,     \* bound: frames of the device
    MaxPerStream,  \* bound: recordings of one stream object
    MaxFiles       \* bound: recordings

ASSUME FileAssumption ==
    /\ FirstId \in Nat /\ MayLose \in BOOLEAN /\ MayCrash \in BOOLEAN
    /\ MaxFrames \in Nat /\ MaxPerStream \in Nat /\ MaxFiles \in Nat

VARIABLES
    \* the stream object
    source,     \* "none": no object; what it reads from
    data,       \* (_)stream_data
    footer,     \* the footer of the metadata
    pattern,    \* the scan pattern of the frame recorded last: no or one
    ofile,      \* the file being written, 0: none
    input,      \* the file being read
    pos,        \* blocks read from it, a torn one included
    buffered,   \* (_)stream_buffered
    \* global
    files,      \* the files on disk
    nextId,     \* id of the device's next frame
    \* history: per file, the frames to be recorded in it; of the stream
    \* object, the frames it received and its recordings
    recorded, received, recordings

streamVars == <<source, data, footer, pattern, ofile, input, pos, buffered>>
fileVars == <<streamVars, files, nextId, recorded, received, recordings>>

Frame(id, p) == [id |-> id, pattern |-> p]
EmptyFooter == [frames |-> 0, events |-> <<>>]
EmptyBlock  == [frame |-> <<>>, footer |-> <<>>]

(* What is in a torn block: a frame without its end, or nothing but the    *)
(* defaults of a frame; in the final block of a Python writer, also the    *)
(* last frame once more.  In any case, no frame that was recorded there.   *)
StrayFrame == Frame(0, "none")
StrayBlock == [EmptyBlock EXCEPT !.frame = <<StrayFrame>>]

FilesInit ==
    /\ source = "none" /\ data = EmptyBlock /\ footer = EmptyFooter
    /\ pattern = <<>> /\ ofile = 0
    /\ input = 0 /\ pos = 0 /\ buffered = FALSE
    /\ received = <<>> /\ recordings = 0
    /\ files = <<>> /\ nextId = FirstId /\ recorded = <<>>

(* The stream object is gone. *)
NoStream ==
    /\ source' = "none" /\ data' = EmptyBlock /\ footer' = EmptyFooter
    /\ pattern' = <<>> /\ ofile' = 0
    /\ input' = 0 /\ pos' = 0 /\ buffered' = FALSE
    /\ received' = <<>> /\ recordings' = 0
    /\ UNCHANGED <<nextId, recorded>>

(* The attributes of a new object, but for data and footer. *)
NewStream(src) ==
    /\ source = "none"
    /\ source' = src
    /\ UNCHANGED <<pattern, ofile, pos, buffered, files, nextId, recorded, received, recordings>>

(* The last block of a file, from which its footer is taken. *)
LastBlock(f) == IF f.blocks = <<>> THEN EmptyBlock ELSE f.blocks[Len(f.blocks)]

(* The frames that the device may send next, one of which may be lost.     *)
NextFrames ==
    {Frame(nextId + skip, p) : skip \in IF MayLose THEN {0, 1} ELSE {0}, p \in Patterns}
DeviceSends(f) ==
    /\ f.id < FirstId + MaxFrames
    /\ nextId' = f.id + 1

Written(blk) == [files EXCEPT ![ofile].blocks = Append(@, blk)]
Closed(blk) == [Written(blk) EXCEPT ![ofile].complete = TRUE]

(* The footer after frame f: frames are counted, and an event is added     *)
(* where the scan pattern changes.                                         *)
FooterWith(f) == [frames |-> footer.frames + 1,
                  events |-> IF pattern # <<f.pattern>> THEN Append(footer.events, f)
                                                        ELSE footer.events]

NewFile(lib, fs) ==
    Append(fs, [header |-> lib, blocks |-> <<>>, torn |-> "no", complete |-> FALSE])

(* The process is killed: of what it wrote, some prefix is on disk, which  *)
(* ends anywhere: after a block, in the next one (also in the one that was *)
(* being written), or in the header.                                       *)
Tears == {"no", "boundary", "inside"}
Killed ==
    /\ MayCrash /\ ofile # 0
    /\ \/ \E n \in 0 .. Len(files[ofile].blocks), torn \in Tears :
            files' = [files EXCEPT ![ofile].blocks = SubSeq(@, 1, n), ![ofile].torn = torn]
       \/ files' = [files EXCEPT ![ofile].header = "torn", ![ofile].blocks = <<>>]
    /\ NoStream
-----------------------------------------------------------------------------
AnyPattern == Patterns \cup {"none"}
Frames  == [id : Nat, pattern : AnyPattern]
Footers == [frames : Nat, events : Seq(Frames)]
Blocks  == [frame : Seq(Frames), footer : Seq(Footers)]
Files   == [header : {"torn", "PYTHON", "CPP"}, blocks : Seq(Blocks), torn : Tears,
            complete : BOOLEAN]
Readable(f) == Len(f.blocks) + (IF f.torn = "no" THEN 0 ELSE 1)
IsOptional(s, S) == s \in Seq(S) /\ Len(s) <= 1
IsBlock(b) == b \in Blocks /\ Len(b.frame) <= 1 /\ Len(b.footer) <= 1

(* Types; the stream is inside the file it reads. *)
FilesOK ==
    /\ source \in {"none", "device", "file", "live", "replay"}
    /\ IsBlock(data) /\ footer \in Footers
    /\ IsOptional(pattern, AnyPattern)
    /\ ofile \in 0 .. Len(files) /\ input \in 0 .. Len(files)
    /\ source \in {"file", "replay"} => input # 0 /\ pos \in 0 .. Readable(files[input])
    /\ files \in Seq(Files)
    /\ \A k \in DOMAIN files : \A i \in DOMAIN files[k].blocks : IsBlock(files[k].blocks[i])
    /\ buffered \in BOOLEAN /\ nextId \in Nat /\ recordings \in Nat
    /\ received \in Seq(Frames) /\ recorded \in Seq(Seq(Frames))

(* "First the Header message, then a repeating Data block with encapsulated*)
(* Frame messages, and finally a Data block with an encapsulated Footer    *)
(* message" (file_format.rst:13): every block but the last has a frame and *)
(* no footer; a finished file ends with a footer, which stands alone if    *)
(* the C++ library wrote it (in Python, the last frame is there once more).*)
(* Of a file whose writer was killed, this is about the whole blocks; only *)
(* such a file has a torn one.                                             *)
FileFormat ==
    \A k \in DOMAIN files :
        LET f == files[k] IN
        /\ f.complete => f.torn = "no"
        /\ \A i \in DOMAIN f.blocks :
            IF f.complete /\ i = Len(f.blocks)
            THEN Len(f.blocks[i].footer) = 1 /\ (f.header = "CPP" => f.blocks[i].frame = <<>>)
            ELSE f.blocks[i].footer = <<>> /\ f.blocks[i].frame = <<recorded[k][i]>>

(* The footer of a finished recording counts its frames, and its events    *)
(* tell the scan pattern of each of them.                                  *)
PatternOf(f, events) ==
    LET i == CHOOSE i \in DOMAIN events :
               /\ events[i].id <= f.id
               /\ \A j \in DOMAIN events : events[j].id <= f.id => j <= i
    IN events[i].pattern
FooterDescribes ==
    \A k \in DOMAIN files : files[k].complete =>
        LET last == LastBlock(files[k]).footer[1] IN
        /\ last.frames = Len(recorded[k])
        /\ \A i \in DOMAIN recorded[k] :
             /\ \E e \in DOMAIN last.events : last.events[e].id <= recorded[k][i].id
             /\ PatternOf(recorded[k][i], last.events) = recorded[k][i].pattern
=============================================================================
