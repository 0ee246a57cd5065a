--------------------------- MODULE Recordings_proofs ---------------------------
(***************************************************************************)
(* Proofs about Recordings: whichever library wrote a file and whichever   *)
(* reads it, for any number of frames, files, stream objects and crashes.  *)
(***************************************************************************)
EXTENDS Recordings, SequenceTheorems, TLAPS

(* A Python stream object makes one recording (a C++ one may make another; *)
(* PySecondRecording shows what becomes of a second one of Python), which  *)
(* is not stopped with a look-ahead pending; C++ replays are not recorded. *)
PlainUse == MaxPerStream <= 1 /\ ~StopBuffered /\ ~RecordsReplays

Increasing(rec) == \A i, j \in 1 .. Len(rec) : i < j => rec[i].id < rec[j].id

(* The footer tells the pattern of each frame: its latest event has it.    *)
Latest(events, f, e) ==
    /\ events[e].id <= f.id
    /\ \A j \in 1 .. Len(events) : events[j].id <= f.id => j <= e
Tells(ft, rec) ==
    /\ ft.frames = Len(rec)
    /\ \A e \in 1 .. Len(ft.events) : \E i \in 1 .. Len(rec) : ft.events[e].id = rec[i].id
    /\ \A i \in 1 .. Len(rec) : \E e \in 1 .. Len(ft.events) :
         Latest(ft.events, rec[i], e) /\ ft.events[e].pattern = rec[i].pattern

(* The pattern recorded last is that of the last event. *)
InStep(p, ft, rec) ==
    IF rec = <<>> THEN p = <<>>
    ELSE /\ p = <<rec[Len(rec)].pattern>> /\ ft.events # <<>>
         /\ ft.events[Len(ft.events)].pattern = rec[Len(rec)].pattern
FooterAfter(ft, p, f) ==
    [frames |-> ft.frames + 1,
     events |-> IF p # <<f.pattern>> THEN Append(ft.events, f) ELSE ft.events]

(* A file against what was to be recorded in it. *)
FrameBlock(blk, f) == blk.footer = <<>> /\ blk.frame = <<f>>
GoodFile(f, rec) ==
    LET n == Len(f.blocks) IN
    IF f.complete
    THEN /\ n = Len(rec) + 1 /\ f.torn = "no"
         /\ \A i \in 1 .. Len(rec) : FrameBlock(f.blocks[i], rec[i])
         /\ Len(f.blocks[n].footer) = 1 /\ (f.header = "CPP" => f.blocks[n].frame = <<>>)
         /\ Tells(f.blocks[n].footer[1], rec)
    ELSE /\ n <= Len(rec)
         /\ \A i \in 1 .. n : FrameBlock(f.blocks[i], rec[i])

Unfinished(f) == ~f.complete /\ f.torn = "no"

FileOK(f, rec) ==
    /\ f \in Files /\ rec \in Seq(Frames)
    /\ GoodFile(f, rec) /\ Increasing(rec)
    /\ \A i \in 1 .. Len(f.blocks) : IsBlock(f.blocks[i])
GoodFiles(fs, recs) ==
    /\ fs \in Seq(Files) /\ recs \in Seq(Seq(Frames)) /\ Len(recs) = Len(fs)
    /\ \A k \in 1 .. Len(fs) : FileOK(fs[k], recs[k])
Format == GoodFiles(files, recorded)

(* The file being written has all that was to be recorded so far, and the  *)
(* footer in memory is that of these frames.                               *)
Writing ==
    ofile # 0 =>
        /\ Unfinished(files[ofile]) /\ ofile # input
        /\ Len(files[ofile].blocks) = Len(recorded[ofile])
        /\ files[ofile].header = IF source \in {"device", "file"} THEN "PYTHON" ELSE "CPP"
        /\ source \in {"device", "file", "live"}
        /\ Tells(footer, recorded[ofile])
        /\ InStep(pattern, footer, recorded[ofile])

(* The next frame is newer than those recorded. *)
Newer ==
    ofile # 0 =>
        \A i \in 1 .. Len(recorded[ofile]) :
            IF source = "file"
            THEN \E j \in 1 .. Len(received) : recorded[ofile][i].id = received[j].id
            ELSE recorded[ofile][i].id < nextId

(* What was read is the beginning of the recording; a block that was read  *)
(* ahead is the next one, or the footer.                                   *)
Placed(s, rcv, f, rec) ==
    LET n == Len(rcv) IN
    /\ n <= Len(rec) /\ \A i \in 1 .. n : rcv[i] = rec[i]
    /\ s.pos = IF s.buffered THEN n + 1 ELSE n
    /\ s.pos <= Len(f.blocks)
    /\ s.buffered =>
         IF f.complete /\ s.pos = Len(f.blocks)
         THEN s.data.footer # <<>>
         ELSE s.data.footer = <<>> /\ s.data.frame = <<rec[s.pos]>>

(* The C++ library has read the torn block behind the whole ones: it is to *)
(* be received, has been received as one more frame, or was not parsed.    *)
Astray(s, rcv, f, rec) ==
    LET m == Len(f.blocks) IN
    /\ f.torn # "no" /\ s.pos = m + 1
    /\ m <= Len(rcv) /\ \A i \in 1 .. m : rcv[i] = rec[i]
    /\ Len(rcv) = m \/ (Len(rcv) = m + 1 /\ f.torn = "boundary")
    /\ s.buffered => Len(rcv) = m /\ f.torn = "boundary" /\ s.data = StrayBlock

Place == [data |-> data, pos |-> pos, buffered |-> buffered]
Reading ==
    source \in {"file", "replay"} =>
        /\ input # 0
        /\ \/ Placed(Place, received, files[input], recorded[input])
           \/ /\ source = "replay"
              /\ Astray(Place, received, files[input], recorded[input])

(* A new stream object, and one that has not recorded yet, has no footer.  *)
NoFooterYet ==
    /\ source = "none" => /\ data = EmptyBlock /\ ofile = 0 /\ received = <<>>
                          /\ pos = 0 /\ buffered = FALSE /\ recordings = 0 /\ input = 0
    /\ source = "device" => (recordings = 0 \/ ofile # 0 => data.footer = <<>>)
    /\ source \in {"device", "live"} => input = 0
    /\ recordings = 0 => ofile = 0

StreamOK ==
    /\ source \in {"none", "device", "file", "live", "replay"}
    /\ IsBlock(data) /\ footer \in Footers
    /\ IsOptional(pattern, AnyPattern)
    /\ ofile \in 0 .. Len(files) /\ input \in 0 .. Len(files)
    /\ buffered \in BOOLEAN /\ nextId \in Nat /\ recordings \in Nat
    /\ received \in Seq(Frames)
    /\ source \in {"file", "replay"} => pos \in Nat
    /\ IsOptional(lastId, Nat)
    /\ terminate \in BOOLEAN /\ interrupted \in BOOLEAN
    /\ raised \in BOOLEAN /\ asked \in BOOLEAN

IInv == StreamOK /\ Format /\ Writing /\ Newer /\ Reading /\ NoFooterYet
-----------------------------------------------------------------------------
(* What is appended to a sequence leaves the rest of it in place.          *)
LEMMA Appended ==
    ASSUME NEW S, NEW s \in Seq(S), NEW e \in S
    PROVE  /\ Append(s, e) \in Seq(S) /\ Append(s, e) # <<>>
           /\ Len(Append(s, e)) = Len(s) + 1
           /\ Append(s, e)[Len(s) + 1] = e
           /\ \A i \in 1 .. Len(s) : Append(s, e)[i] = s[i]
           /\ Len(s) \in Nat
BY AppendProperties, LenProperties

(* The footer in memory tells the patterns after one more frame, too: a    *)
(* frame without an event of its own has the pattern of the last event.    *)
LEMMA FooterTells ==
    ASSUME NEW rec \in Seq(Frames), NEW f \in Frames, NEW ft \in Footers, NEW p,
           Increasing(rec), Tells(ft, rec), \A i \in 1 .. Len(rec) : rec[i].id < f.id,
           InStep(p, ft, rec), NEW new, new = FooterAfter(ft, p, f)
    PROVE  /\ new \in Footers /\ Tells(new, Append(rec, f)) /\ Increasing(Append(rec, f))
           /\ InStep(<<f.pattern>>, new, Append(rec, f))
<1> DEFINE more == Append(rec, f)
           E == ft.events
<1>1. /\ E \in Seq(Frames) /\ ft.frames \in Nat /\ f.id \in Nat /\ Len(E) \in Nat
      /\ \A i \in 1 .. Len(rec) : rec[i] \in Frames /\ rec[i].id \in Nat
      /\ \A i \in 1 .. Len(E) : E[i] \in Frames /\ E[i].id \in Nat
  <2>1. E \in Seq(Frames) /\ ft.frames \in Nat
    BY DEF Footers
  <2>2. \A g \in Frames : g.id \in Nat
    BY DEF Frames
  <2>3. \A i \in 1 .. Len(rec) : rec[i] \in Frames
    BY ElementOfSeq
  <2> HIDE DEF E
  <2>4. Len(E) \in Nat /\ \A i \in 1 .. Len(E) : E[i] \in Frames
    BY <2>1, ElementOfSeq, LenProperties
  <2> QED
    BY <2>1, <2>2, <2>3, <2>4
<1>2. /\ more \in Seq(Frames) /\ Len(more) = Len(rec) + 1 /\ more[Len(rec) + 1] = f
      /\ \A i \in 1 .. Len(rec) : more[i] = rec[i]
      /\ Len(rec) \in Nat
  BY Appended
<1>3. \A e \in 1 .. Len(E) : E[e].id < f.id
  BY DEF Tells
<1>4. Increasing(more)
  <2> SUFFICES ASSUME NEW i \in 1 .. Len(rec) + 1, NEW j \in 1 .. Len(rec) + 1, i < j
               PROVE  more[i].id < more[j].id
    BY <1>2 DEF Increasing
  <2>1. i \in 1 .. Len(rec) /\ more[i] = rec[i]
    BY <1>2
  <2>2. CASE j \in 1 .. Len(rec)
    BY <2>1, <2>2, <1>2 DEF Increasing
  <2>3. CASE j = Len(rec) + 1
    BY <2>1, <2>3, <1>2
  <2> QED
    BY <2>2, <2>3, <1>2
<1>5. /\ new.frames = Len(more) /\ new.frames \in Nat
      /\ new = [frames |-> new.frames, events |-> new.events]
      /\ new.events = IF p # <<f.pattern>> THEN Append(E, f) ELSE E
  BY <1>1, <1>2 DEF Tells, FooterAfter
<1>6. CASE p # <<f.pattern>>
  <2>1. new.events = Append(E, f)
    BY <1>5, <1>6
  <2> DEFINE E1 == Append(E, f)
  <2>2. /\ E1 \in Seq(Frames) /\ E1 # <<>> /\ Len(E1) = Len(E) + 1
        /\ E1[Len(E) + 1] = f
        /\ \A e \in 1 .. Len(E) : E1[e] = E[e]
    BY <1>1, Appended
  <2> HIDE DEF more, E, E1
  <2>3. \A e \in 1 .. Len(E1) : \E i \in 1 .. Len(more) : E1[e].id = more[i].id
    <3> TAKE e \in 1 .. Len(E1)
    <3>1. CASE e \in 1 .. Len(E)
      <4>1. PICK i \in 1 .. Len(rec) : E[e].id = rec[i].id
        BY <3>1 DEF Tells, E
      <4>2. i \in 1 .. Len(more) /\ E1[e].id = more[i].id
        BY <4>1, <3>1, <2>2, <1>2
      <4> QED
        BY <4>2
    <3>2. CASE e = Len(E) + 1
      <4>1. Len(rec) + 1 \in 1 .. Len(more) /\ E1[e].id = more[Len(rec) + 1].id
        BY <3>2, <2>2, <1>2
      <4> QED
        BY <4>1
    <3> QED
      BY <3>1, <3>2, <2>2, <1>1
  <2>4. ASSUME NEW i \in 1 .. Len(more)
        PROVE  \E e \in 1 .. Len(E1) : Latest(E1, more[i], e) /\ E1[e].pattern = more[i].pattern
    <3>1. CASE i \in 1 .. Len(rec)
      <4>1. PICK e \in 1 .. Len(E) : Latest(E, rec[i], e) /\ E[e].pattern = rec[i].pattern
        BY <3>1 DEF Tells, E
      <4>2. rec[i].id < f.id /\ more[i] = rec[i] /\ rec[i].id \in Nat
        BY <3>1, <1>1, <1>2
      <4>3. e \in 1 .. Len(E1) /\ E1[e] = E[e]
        <5>1. \A n \in Nat : \A l \in 1 .. n : l \in 1 .. n + 1
          OBVIOUS
        <5> QED
          BY <2>2, <1>1, <5>1, Zenon
      <4>4. \A j \in 1 .. Len(E1) : E1[j].id <= more[i].id => j <= e
        <5> SUFFICES ASSUME NEW j \in 1 .. Len(E1), E1[j].id <= rec[i].id PROVE j <= e
          BY <4>2
        <5>1. j # Len(E) + 1
          BY <4>2, <2>2, <1>1
        <5>2. j \in 1 .. Len(E)
          <6>1. \A n \in Nat : \A l \in 1 .. n + 1 : l # n + 1 => l \in 1 .. n
            OBVIOUS
          <6> QED
            BY <5>1, <6>1, <2>2, <1>1, Zenon
        <5>3. E[j].id <= rec[i].id
          BY <5>2, <2>2
        <5> QED
          BY <5>2, <5>3, <4>1 DEF Latest
      <4>5. Latest(E1, more[i], e)
        BY <4>1, <4>2, <4>3, <4>4 DEF Latest
      <4> QED
        BY <4>1, <4>2, <4>3, <4>5
    <3>2. CASE i = Len(rec) + 1
      <4>1. Latest(E1, more[i], Len(E) + 1)
        BY <3>2, <2>2, <1>2, <1>1 DEF Latest
      <4>2. Len(E) + 1 \in 1 .. Len(E1) /\ E1[Len(E) + 1].pattern = more[i].pattern
        BY <3>2, <2>2, <1>2, <1>1
      <4> QED
        BY <4>1, <4>2
    <3> QED
      BY <3>1, <3>2, <1>2
  <2>5. new \in Footers /\ new.events = E1 /\ Tells(new, more)
    <3>1. new.events = E1 /\ new = [frames |-> new.frames, events |-> new.events]
      BY <2>1, <1>5 DEF E1, E
    <3>2. new \in Footers
      BY <3>1, <2>2, <1>5 DEF Footers
    <3> QED
      BY <3>1, <3>2, <2>3, <2>4, <1>5 DEF Tells
  <2>6. new.events # <<>> /\ new.events[Len(new.events)].pattern = f.pattern
    BY <2>5, <2>2
  <2>7. more # <<>> /\ more[Len(more)].pattern = f.pattern
    BY <1>2, Appended DEF more
  <2>8. InStep(<<f.pattern>>, new, more)
    BY <2>6, <2>7 DEF InStep
  <2> QED
    BY <2>5, <2>8, <1>4 DEF more
<1>7. CASE p = <<f.pattern>>
  <2>1. new.events = E /\ new \in Footers
    BY <1>7, <1>5, <1>1 DEF Footers
  <2>2. rec # <<>> /\ E # <<>> /\ E[Len(E)].pattern = f.pattern
    BY <1>7 DEF InStep
  <2>3. Len(E) \in 1 .. Len(E)
    BY <2>2, <1>1
  <2> HIDE DEF more, E
  <2>4. ASSUME NEW e \in 1 .. Len(E) PROVE \E i \in 1 .. Len(more) : E[e].id = more[i].id
    <3>1. PICK i \in 1 .. Len(rec) : E[e].id = rec[i].id
      BY DEF Tells, E
    <3>2. i \in 1 .. Len(more) /\ E[e].id = more[i].id
      BY <3>1, <1>2
    <3> QED
      BY <3>2
  <2>5. ASSUME NEW i \in 1 .. Len(more)
        PROVE  \E e \in 1 .. Len(E) : Latest(E, more[i], e) /\ E[e].pattern = more[i].pattern
    <3>1. CASE i \in 1 .. Len(rec)
      <4>1. PICK e \in 1 .. Len(E) : Latest(E, rec[i], e) /\ E[e].pattern = rec[i].pattern
        BY <3>1 DEF Tells, E
      <4>2. more[i] = rec[i]
        BY <3>1, <1>2
      <4> QED
        BY <4>1, <4>2
    <3>2. CASE i = Len(rec) + 1
      <4>1. more[i] = f
        BY <3>2, <1>2
      <4>2. Latest(E, f, Len(E))
        BY <1>1, <1>3, <2>3 DEF Latest
      <4> QED
        BY <4>1, <4>2, <2>2, <2>3
    <3> QED
      BY <3>1, <3>2, <1>2
  <2>6. Tells(new, more)
    BY <2>1, <2>4, <2>5, <1>5 DEF Tells
  <2>7. more # <<>> /\ more[Len(more)].pattern = f.pattern
    BY <1>2, Appended DEF more
  <2>8. InStep(<<f.pattern>>, new, more)
    BY <2>1, <2>2, <2>7 DEF InStep
  <2> QED
    BY <2>1, <2>6, <2>8, <1>4 DEF more
<1> QED
  BY <1>6, <1>7
-----------------------------------------------------------------------------
(* What is replaced in a sequence leaves the rest of it in place.          *)
Replaces(t, S, s, i, e) ==
    /\ t \in Seq(S) /\ Len(t) = Len(s) /\ t[i] = e
    /\ \A k \in 1 .. Len(s) \ {i} : t[k] = s[k]
LEMMA Replaced ==
    ASSUME NEW S, NEW s \in Seq(S), NEW i \in 1 .. Len(s), NEW e \in S
    PROVE  Replaces([s EXCEPT ![i] = e], S, s, i, e)
BY ExceptSeq DEF Replaces

(* One file of many, and what was to be recorded in it, changes.           *)
Changed(gs, rs, fs, recs, o, f, rec) ==
    /\ GoodFiles(gs, rs) /\ Len(gs) = Len(fs) /\ gs[o] = f /\ rs[o] = rec
    /\ \A k \in 1 .. Len(fs) \ {o} : gs[k] = fs[k] /\ rs[k] = recs[k]
LEMMA OneChanges ==
    ASSUME NEW fs, NEW recs, GoodFiles(fs, recs), NEW o \in 1 .. Len(fs),
           NEW f, NEW rec, FileOK(f, rec),
           NEW gs, Replaces(gs, Files, fs, o, f),
           NEW rs, Replaces(rs, Seq(Frames), recs, o, rec)
    PROVE  Changed(gs, rs, fs, recs, o, f, rec)
<1>1. Len(recs) = Len(fs)
  BY DEF GoodFiles
<1>2. /\ Len(gs) = Len(fs) /\ Len(rs) = Len(fs) /\ gs[o] = f /\ rs[o] = rec
      /\ gs \in Seq(Files) /\ rs \in Seq(Seq(Frames))
      /\ \A k \in 1 .. Len(fs) \ {o} : gs[k] = fs[k] /\ rs[k] = recs[k]
  BY <1>1 DEF Replaces
<1>3. ASSUME NEW k \in 1 .. Len(gs) PROVE FileOK(gs[k], rs[k])
  <2>1. CASE k = o
    BY <1>2, <2>1
  <2>2. CASE k # o
    <3>1. gs[k] = fs[k] /\ rs[k] = recs[k] /\ k \in 1 .. Len(fs)
      BY <1>2, <2>2
    <3> QED
      BY <3>1 DEF GoodFiles
  <2> QED
    BY <2>1, <2>2
<1> QED
  BY <1>2, <1>3 DEF GoodFiles, Changed

(* A file and what was to be recorded in it.                               *)
LEMMA OneFile ==
    ASSUME NEW fs, NEW recs, GoodFiles(fs, recs), NEW o \in 1 .. Len(fs)
    PROVE  /\ fs[o] \in Files /\ recs[o] \in Seq(Frames) /\ Len(recs[o]) \in Nat
           /\ fs[o].blocks \in Seq(Blocks) /\ Len(fs[o].blocks) \in Nat
           /\ fs[o].complete \in BOOLEAN
           /\ GoodFile(fs[o], recs[o]) /\ Increasing(recs[o])
           /\ \A i \in 1 .. Len(fs[o].blocks) : IsBlock(fs[o].blocks[i])
           /\ fs \in Seq(Files) /\ recs \in Seq(Seq(Frames)) /\ Len(recs) = Len(fs)
           /\ o \in 1 .. Len(recs)
<1>1. FileOK(fs[o], recs[o])
  BY DEF GoodFiles
<1>2. fs[o].blocks \in Seq(Blocks) /\ fs[o].complete \in BOOLEAN
  BY <1>1 DEF Files, FileOK
<1>3. Len(fs[o].blocks) \in Nat /\ Len(recs[o]) \in Nat
  BY <1>1, <1>2, LenProperties DEF FileOK
<1> QED
  BY <1>1, <1>2, <1>3 DEF GoodFiles, FileOK

(* The changes of the files, with the files as a parameter. *)
WrittenIn(fs, o, b) == [fs EXCEPT ![o].blocks = Append(@, b)]
ClosedIn(fs, o, b) == [WrittenIn(fs, o, b) EXCEPT ![o].complete = TRUE]
RecordedIn(recs, o, f) == [recs EXCEPT ![o] = Append(@, f)]

(* A frame is recorded: the block that is written has it. *)
Extended(gs, rs, fs, recs, o, f) ==
    /\ GoodFiles(gs, rs) /\ Len(gs) = Len(fs)
    /\ gs[o].header = fs[o].header /\ Unfinished(gs[o])
    /\ rs[o] = Append(recs[o], f) /\ Len(gs[o].blocks) = Len(rs[o])
    /\ \A k \in 1 .. Len(fs) \ {o} : gs[k] = fs[k] /\ rs[k] = recs[k]
LEMMA FrameWritten ==
    ASSUME NEW fs, NEW recs, GoodFiles(fs, recs), NEW o \in 1 .. Len(fs),
           Unfinished(fs[o]), Len(fs[o].blocks) = Len(recs[o]),
           NEW f \in Frames, Increasing(Append(recs[o], f)),
           NEW b, IsBlock(b), FrameBlock(b, f),
           NEW gs, gs = WrittenIn(fs, o, b),
           NEW rs, rs = RecordedIn(recs, o, f)
    PROVE  Extended(gs, rs, fs, recs, o, f)
<1> DEFINE file == fs[o]
           rec == recs[o]
           g == [file EXCEPT !.blocks = Append(@, b)]
           r == Append(rec, f)
<1>0. GoodFiles(fs, recs) /\ o \in 1 .. Len(fs)
  OBVIOUS
<1>1. /\ file \in Files /\ rec \in Seq(Frames) /\ file.blocks \in Seq(Blocks)
      /\ GoodFile(file, rec) /\ b \in Blocks
      /\ \A i \in 1 .. Len(file.blocks) : IsBlock(file.blocks[i])
  BY OneFile DEF IsBlock
<1>2. /\ g.blocks = Append(file.blocks, b) /\ g.header = file.header
      /\ ~g.complete /\ ~file.complete /\ Unfinished(g)
  BY <1>1 DEF Files, Unfinished
<1> DEFINE bs == file.blocks
           cs == Append(bs, b)
<1>3. /\ cs \in Seq(Blocks) /\ Len(cs) = Len(bs) + 1 /\ cs[Len(bs) + 1] = b
      /\ \A i \in 1 .. Len(bs) : cs[i] = bs[i]
      /\ Len(bs) \in Nat
  <2>1. bs \in Seq(Blocks) /\ b \in Blocks
    BY <1>1
  <2> HIDE DEF bs
  <2> QED
    BY <2>1, Appended
<1>4. /\ r \in Seq(Frames) /\ Len(r) = Len(rec) + 1 /\ r[Len(rec) + 1] = f
      /\ \A i \in 1 .. Len(rec) : r[i] = rec[i]
  <2>1. rec \in Seq(Frames) /\ f \in Frames
    BY <1>1
  <2> HIDE DEF rec
  <2> QED
    BY <2>1, Appended
<1>5. g \in Files
  BY <1>1, <1>3 DEF Files
<1>6. Len(bs) = Len(rec) /\ \A i \in 1 .. Len(bs) : FrameBlock(bs[i], rec[i])
  BY <1>1, <1>2 DEF GoodFile
<1> HIDE DEF g, r, cs, bs
<1>7. GoodFile(g, r)
  <2>1. Len(g.blocks) = Len(r) /\ ~g.complete
    BY <1>2, <1>3, <1>4, <1>6 DEF cs, bs
  <2>2. ASSUME NEW i \in 1 .. Len(cs) PROVE FrameBlock(cs[i], r[i])
    <3>1. CASE i \in 1 .. Len(bs)
      BY <3>1, <1>3, <1>4, <1>6
    <3>2. CASE i = Len(bs) + 1
      BY <3>2, <1>3, <1>4, <1>6
    <3> QED
      BY <3>1, <3>2, <1>3
  <2>3. g.blocks = cs
    BY <1>2 DEF cs, bs
  <2> QED
    BY <2>1, <2>2, <2>3, <1>3, <1>4, <1>6 DEF GoodFile
<1>8. \A i \in 1 .. Len(g.blocks) : IsBlock(g.blocks[i])
  BY <1>1, <1>2, <1>3 DEF cs, bs
<1>9. Replaces(gs, Files, fs, o, g)
  <2>1. fs \in Seq(Files)
    BY OneFile
  <2>2. gs = [fs EXCEPT ![o] = g]
    BY DEF g, WrittenIn
  <2>3. Replaces([fs EXCEPT ![o] = g], Files, fs, o, g)
    BY <1>0, <1>5, <2>1, Replaced, Zenon
  <2> QED
    BY <2>2, <2>3, Zenon
<1>10. Replaces(rs, Seq(Frames), recs, o, r)
  <2>1. recs \in Seq(Seq(Frames)) /\ o \in 1 .. Len(recs) /\ r \in Seq(Frames)
    BY <1>4, OneFile
  <2>2. rs = [recs EXCEPT ![o] = r]
    BY DEF r, RecordedIn
  <2>3. Replaces([recs EXCEPT ![o] = r], Seq(Frames), recs, o, r)
    BY <2>1, Replaced, Zenon
  <2> QED
    BY <2>2, <2>3, Zenon
<1>11. Changed(gs, rs, fs, recs, o, g, r)
  <2>1. FileOK(g, r)
    BY <1>4, <1>5, <1>7, <1>8 DEF FileOK, r
  <2> QED
    BY <2>1, <1>9, <1>10, <1>0, OneChanges
<1>12. Len(g.blocks) = Len(r)
  BY <1>2, <1>3, <1>4, <1>6 DEF cs, bs
<1> QED
  BY <1>2, <1>11, <1>12 DEF r, Changed, Extended

(* A recording is finished: the last block has the footer. *)
LEMMA FooterWritten ==
    ASSUME NEW fs, NEW recs, GoodFiles(fs, recs), NEW o \in 1 .. Len(fs),
           Unfinished(fs[o]), Len(fs[o].blocks) = Len(recs[o]),
           NEW ft \in Footers, Tells(ft, recs[o]),
           NEW b, IsBlock(b), b.footer = <<ft>>, fs[o].header = "CPP" => b.frame = <<>>,
           NEW gs, gs = ClosedIn(fs, o, b)
    PROVE  /\ GoodFiles(gs, recs) /\ Len(gs) = Len(fs)
           /\ \A k \in 1 .. Len(fs) \ {o} : gs[k] = fs[k]
<1> DEFINE file == fs[o]
           rec == recs[o]
           g == [[file EXCEPT !.blocks = Append(@, b)] EXCEPT !.complete = TRUE]
<1>0. GoodFiles(fs, recs) /\ o \in 1 .. Len(fs)
  OBVIOUS
<1>1. /\ file \in Files /\ rec \in Seq(Frames) /\ file.blocks \in Seq(Blocks)
      /\ GoodFile(file, rec) /\ b \in Blocks /\ Increasing(rec)
      /\ \A i \in 1 .. Len(file.blocks) : IsBlock(file.blocks[i])
  BY OneFile DEF IsBlock
<1>2. /\ g.blocks = Append(file.blocks, b) /\ g.header = file.header
      /\ g.complete = TRUE /\ g.torn = "no"
  BY <1>1 DEF Files, Unfinished
<1> DEFINE bs == file.blocks
           cs == Append(bs, b)
<1>3. /\ cs \in Seq(Blocks) /\ Len(cs) = Len(bs) + 1 /\ cs[Len(bs) + 1] = b
      /\ \A i \in 1 .. Len(bs) : cs[i] = bs[i]
      /\ Len(bs) \in Nat
  BY <1>1, Appended
<1>4. g \in Files
  BY <1>1, <1>3 DEF Files
<1>5. Len(bs) = Len(rec) /\ \A i \in 1 .. Len(bs) : FrameBlock(bs[i], rec[i])
  BY <1>1 DEF GoodFile, Unfinished
<1> HIDE DEF g, cs, bs
<1>6. g.blocks = cs
  BY <1>2 DEF cs, bs
<1>7. GoodFile(g, rec)
  <2>1. /\ Len(cs) = Len(rec) + 1
        /\ \A i \in 1 .. Len(rec) : FrameBlock(cs[i], rec[i])
        /\ cs[Len(cs)] = b
    BY <1>3, <1>5
  <2>2. Len(b.footer) = 1 /\ b.footer[1] = ft
    OBVIOUS
  <2>3. g.header = "CPP" => b.frame = <<>>
    BY <1>2
  <2> QED
    BY <2>1, <2>2, <2>3, <1>2, <1>6 DEF GoodFile
<1>8. \A i \in 1 .. Len(g.blocks) : IsBlock(g.blocks[i])
  <2> SUFFICES ASSUME NEW i \in 1 .. Len(bs) + 1 PROVE IsBlock(cs[i])
    BY <1>3, <1>6
  <2>1. CASE i \in 1 .. Len(bs)
    BY <2>1, <1>1, <1>3 DEF bs
  <2>2. CASE i = Len(bs) + 1
    BY <2>2, <1>3
  <2> QED
    BY <2>1, <2>2, <1>3
<1>9. Replaces(gs, Files, fs, o, g)
  <2>1. fs \in Seq(Files) /\ fs \in [1 .. Len(fs) -> Files]
    BY OneFile, LenProperties
  <2>2. WrittenIn(fs, o, b) = [fs EXCEPT ![o] = [file EXCEPT !.blocks = Append(@, b)]]
    BY DEF WrittenIn
  <2>3. gs = [fs EXCEPT ![o] = g]
    BY <2>1, <2>2 DEF g, ClosedIn
  <2>4. Replaces([fs EXCEPT ![o] = g], Files, fs, o, g)
    BY <1>0, <1>4, <2>1, Replaced, Zenon
  <2> QED
    BY <2>3, <2>4, Zenon
<1>10. Replaces(recs, Seq(Frames), recs, o, rec)
  BY OneFile DEF Replaces
<1>11. FileOK(g, rec)
  BY <1>1, <1>4, <1>7, <1>8 DEF FileOK
<1>12. Changed(gs, recs, fs, recs, o, g, rec)
  BY <1>9, <1>10, <1>11, <1>0, OneChanges
<1> QED
  BY <1>12 DEF Changed

(* A new file has no blocks. *)
Created(gs, rs, fs, recs, lib) ==
    /\ GoodFiles(gs, rs) /\ Len(gs) = Len(fs) + 1 /\ Len(fs) \in Nat
    /\ Unfinished(gs[Len(fs) + 1]) /\ gs[Len(fs) + 1].header = lib
    /\ Len(gs[Len(fs) + 1].blocks) = 0 /\ rs[Len(fs) + 1] = <<>>
    /\ \A k \in 1 .. Len(fs) : gs[k] = fs[k] /\ rs[k] = recs[k]
LEMMA FileCreated ==
    ASSUME NEW fs, NEW recs, GoodFiles(fs, recs), NEW lib \in {"PYTHON", "CPP"},
           NEW gs, gs = NewFile(lib, fs), NEW rs, rs = Append(recs, <<>>)
    PROVE  Created(gs, rs, fs, recs, lib)
<1> DEFINE g == [header |-> lib, blocks |-> <<>>, torn |-> "no", complete |-> FALSE]
<1>1. fs \in Seq(Files) /\ recs \in Seq(Seq(Frames)) /\ Len(recs) = Len(fs)
  BY DEF GoodFiles
<1>2. <<>> \in Seq(Frames) /\ <<>> \in Seq(Blocks) /\ Len(<<>>) = 0
  BY EmptySeq
<1>3. g \in Files
  BY <1>2 DEF Files, Tears
<1>4. gs = Append(fs, g)
  BY DEF NewFile
<1>5. /\ gs \in Seq(Files) /\ Len(gs) = Len(fs) + 1 /\ gs[Len(fs) + 1] = g
      /\ \A k \in 1 .. Len(fs) : gs[k] = fs[k]
      /\ Len(fs) \in Nat
  <2> HIDE DEF g
  <2> QED
    BY <1>1, <1>3, <1>4, Appended
<1>6. /\ rs \in Seq(Seq(Frames)) /\ Len(rs) = Len(recs) + 1 /\ rs[Len(recs) + 1] = <<>>
      /\ \A k \in 1 .. Len(recs) : rs[k] = recs[k]
  BY <1>1, <1>2, Appended
<1>7. ASSUME NEW k \in 1 .. Len(gs) PROVE FileOK(gs[k], rs[k])
  <2>1. CASE k = Len(fs) + 1
    <3>1. gs[k] = g /\ rs[k] = <<>>
      BY <2>1, <1>1, <1>5, <1>6
    <3>2. GoodFile(g, <<>>) /\ Increasing(<<>>)
      BY <1>2 DEF GoodFile, Increasing
    <3>3. \A i \in 1 .. Len(g.blocks) : IsBlock(g.blocks[i])
      BY <1>2
    <3> QED
      BY <3>1, <3>2, <3>3, <1>2, <1>3 DEF FileOK
  <2>2. CASE k \in 1 .. Len(fs)
    <3>1. gs[k] = fs[k] /\ rs[k] = recs[k]
      BY <2>2, <1>1, <1>5, <1>6
    <3> QED
      BY <2>2, <3>1 DEF GoodFiles
  <2>3. k = Len(fs) + 1 \/ k \in 1 .. Len(fs)
    BY <1>5
  <2> QED
    BY <2>1, <2>2, <2>3
<1>8. GoodFiles(gs, rs)
  BY <1>1, <1>5, <1>6, <1>7 DEF GoodFiles
<1> QED
  BY <1>1, <1>2, <1>5, <1>6, <1>8 DEF Created, Unfinished

(* A process is killed: a file that was not finished loses its end. *)
LEMMA FileCut ==
    ASSUME NEW fs, NEW recs, GoodFiles(fs, recs), NEW o \in 1 .. Len(fs),
           ~fs[o].complete, NEW n \in 0 .. Len(fs[o].blocks),
           NEW g \in Files, ~g.complete, g.blocks = SubSeq(fs[o].blocks, 1, n)
    PROVE  GoodFiles([fs EXCEPT ![o] = g], recs)
<1> DEFINE rec == recs[o]
           bs == fs[o].blocks
           gs == [fs EXCEPT ![o] = g]
<1>0. GoodFiles(fs, recs) /\ o \in 1 .. Len(fs)
  OBVIOUS
<1>1. /\ rec \in Seq(Frames) /\ bs \in Seq(Blocks) /\ fs \in Seq(Files)
      /\ GoodFile(fs[o], rec) /\ Increasing(rec) /\ Len(rec) \in Nat /\ Len(bs) \in Nat
      /\ \A i \in 1 .. Len(bs) : IsBlock(bs[i])
  BY OneFile
<1>2. n <= Len(rec) /\ \A i \in 1 .. n : FrameBlock(bs[i], rec[i])
  BY <1>1 DEF GoodFile
<1> HIDE DEF bs
<1>3. \A i \in 1 .. n : bs[i] \in Blocks
  BY <1>1 DEF IsBlock, bs
<1>4. Len(g.blocks) = n /\ \A i \in 1 .. n : g.blocks[i] = bs[i]
  BY <1>1, <1>3 DEF bs
<1>5. GoodFile(g, rec)
  BY <1>2, <1>4 DEF GoodFile
<1>6. \A i \in 1 .. Len(g.blocks) : IsBlock(g.blocks[i])
  BY <1>1, <1>4 DEF bs
<1>7. FileOK(g, rec)
  BY <1>1, <1>5, <1>6 DEF FileOK
<1>8. Replaces(gs, Files, fs, o, g)
  BY <1>0, <1>1, Replaced, Zenon
<1>9. Replaces(recs, Seq(Frames), recs, o, rec)
  BY OneFile DEF Replaces
<1> HIDE DEF gs
<1>10. Changed(gs, recs, fs, recs, o, g, rec)
  BY <1>0, <1>7, <1>8, <1>9, OneChanges
<1> QED
  BY <1>10 DEF Changed, gs
-----------------------------------------------------------------------------
(* Reading.  At the start nothing was read. *)
LEMMA PlacedAtStart ==
    ASSUME NEW f, NEW rec, FileOK(f, rec), NEW d
    PROVE  Placed([data |-> d, pos |-> 0, buffered |-> FALSE], <<>>, f, rec)
<1>1. Len(rec) \in Nat /\ Len(f.blocks) \in Nat
  BY LenProperties DEF FileOK, Files
<1> QED
  BY <1>1, EmptySeq DEF Placed

(* The next block of a file, which is read ahead. *)
LEMMA PlacedAhead ==
    ASSUME NEW f, NEW rec, FileOK(f, rec), NEW rcv, Len(rcv) \in Nat,
           NEW s, s.buffered = FALSE, Placed(s, rcv, f, rec), s.pos # Len(f.blocks)
    PROVE  /\ Placed([data |-> f.blocks[s.pos + 1], pos |-> s.pos + 1, buffered |-> TRUE],
                     rcv, f, rec)
           /\ s.pos + 1 \in 1 .. Len(f.blocks)
           /\ IsBlock(f.blocks[s.pos + 1])
<1> DEFINE n == Len(rcv)
           b == f.blocks[n + 1]
<1>1. s.pos = n /\ n <= Len(rec) /\ n < Len(f.blocks) /\ \A i \in 1 .. n : rcv[i] = rec[i]
      /\ Len(f.blocks) \in Nat /\ Len(rec) \in Nat
  <2>1. Len(f.blocks) \in Nat /\ Len(rec) \in Nat
    BY LenProperties DEF FileOK, Files
  <2> QED
    BY <2>1 DEF Placed
<1>2. IF f.complete /\ n + 1 = Len(f.blocks)
      THEN b.footer # <<>> ELSE b.footer = <<>> /\ b.frame = <<rec[n + 1]>>
  <2>1. CASE f.complete /\ n + 1 = Len(f.blocks)
    <3>1. Len(b.footer) = 1
      BY <2>1 DEF FileOK, GoodFile
    <3>2. Len(<<>>) # 1
      OBVIOUS
    <3>3. b.footer # <<>>
      BY <3>1, <3>2, Zenon
    <3> QED
      BY <2>1, <3>3, Zenon
  <2>2. CASE f.complete /\ n + 1 # Len(f.blocks)
    <3>1. n + 1 \in 1 .. Len(rec)
      BY <1>1, <2>2 DEF FileOK, GoodFile
    <3>2. FrameBlock(f.blocks[n + 1], rec[n + 1])
      BY <2>2, <3>1 DEF FileOK, GoodFile
    <3> QED
      BY <2>2, <3>2 DEF FrameBlock
  <2>3. CASE ~f.complete
    <3>1. n + 1 \in 1 .. Len(f.blocks)
      BY <1>1
    <3>2. FrameBlock(f.blocks[n + 1], rec[n + 1])
      BY <2>3, <3>1 DEF FileOK, GoodFile
    <3> QED
      BY <2>3, <3>2 DEF FrameBlock
  <2> QED
    BY <2>1, <2>2, <2>3
<1>3. Placed([data |-> b, pos |-> n + 1, buffered |-> TRUE], rcv, f, rec)
  BY <1>1, <1>2 DEF Placed
<1>4. n + 1 \in 1 .. Len(f.blocks) /\ IsBlock(b)
  BY <1>1 DEF FileOK
<1> QED
  BY <1>1, <1>3, <1>4

(* A frame that was read ahead is the next one of the recording. *)
LEMMA PlacedNext ==
    ASSUME NEW f, NEW rec, FileOK(f, rec), NEW rcv \in Seq(Frames),
           NEW s, Placed(s, rcv, f, rec), s.buffered, s.data.footer = <<>>
    PROVE  /\ Len(rcv) + 1 \in 1 .. Len(rec)
           /\ s.data.frame = <<rec[Len(rcv) + 1]>> /\ rec[Len(rcv) + 1] \in Frames
           /\ s.pos = Len(rcv) + 1 /\ s.pos <= Len(f.blocks)
           /\ \A i \in 1 .. Len(rcv) : rcv[i] = rec[i]
<1> DEFINE n == Len(rcv)
           r == rec[n + 1]
<1>1. n \in Nat /\ Len(f.blocks) \in Nat /\ Len(rec) \in Nat /\ rec \in Seq(Frames)
  BY LenProperties DEF FileOK, Files
<1>2. n + 1 <= Len(f.blocks) /\ ~(f.complete /\ n + 1 = Len(f.blocks))
      /\ s.data.frame = <<rec[n + 1]>> /\ s.pos = n + 1 /\ \A i \in 1 .. n : rcv[i] = rec[i]
  BY DEF Placed
<1>3. n + 1 <= Len(rec)
  BY <1>1, <1>2 DEF FileOK, GoodFile
<1>4. n + 1 \in 1 .. Len(rec) /\ r \in Frames
  BY <1>1, <1>3, ElementOfSeq
<1> QED
  BY <1>2, <1>4

LEMMA EmptyIsBlock == IsBlock(EmptyBlock)
<1>1. <<>> \in Seq(Frames) /\ <<>> \in Seq(Footers) /\ Len(<<>>) = 0
  BY EmptySeq
<1> QED
  BY <1>1 DEF IsBlock, Blocks, EmptyBlock

LEMMA StrayIsBlock ==
    IsBlock(StrayBlock) /\ StrayBlock.footer = <<>> /\ StrayBlock.frame[1] = StrayFrame
        /\ StrayFrame \in Frames
<1>1. StrayFrame \in Frames
  BY DEF StrayFrame, Frame, Frames, AnyPattern
<1> HIDE DEF StrayFrame
<1>2. StrayBlock = [frame |-> <<StrayFrame>>, footer |-> <<>>]
  BY DEF StrayBlock, EmptyBlock
<1>3. /\ <<StrayFrame>> \in Seq(Frames) /\ <<>> \in Seq(Footers)
      /\ Len(<<StrayFrame>>) = 1 /\ Len(<<>>) = 0
  BY <1>1
<1> QED
  BY <1>1, <1>2, <1>3 DEF IsBlock, Blocks

(* The file that is read, and the one that is written. *)
LEMMA InputFile ==
    ASSUME IInv, source \in {"file", "replay"}
    PROVE  /\ input \in 1 .. Len(files) /\ FileOK(files[input], recorded[input])
           /\ \/ Placed(Place, received, files[input], recorded[input])
              \/ /\ source = "replay"
                 /\ Astray(Place, received, files[input], recorded[input])
           /\ received \in Seq(Frames) /\ Len(received) \in Nat
           /\ pos \in Nat /\ buffered \in BOOLEAN /\ IsBlock(data)
<1>1. Len(files) \in Nat
  BY LenProperties DEF IInv, Format, GoodFiles
<1>2. input \in 1 .. Len(files)
  BY <1>1 DEF IInv, StreamOK, Reading
<1>3. FileOK(files[input], recorded[input])
  BY <1>2 DEF IInv, Format, GoodFiles
<1> QED
  BY <1>2, <1>3, LenProperties DEF IInv, StreamOK, Reading

LEMMA OutputFile ==
    ASSUME IInv, ofile # 0
    PROVE  /\ ofile \in 1 .. Len(files) /\ ofile # input /\ Unfinished(files[ofile])
           /\ GoodFiles(files, recorded)
           /\ Len(files[ofile].blocks) = Len(recorded[ofile])
           /\ recorded[ofile] \in Seq(Frames) /\ Increasing(recorded[ofile])
           /\ Tells(footer, recorded[ofile]) /\ footer \in Footers
           /\ files[ofile] \in Files
<1>1. Len(files) \in Nat
  BY LenProperties DEF IInv, Format, GoodFiles
<1>2. ofile \in 1 .. Len(files)
  BY <1>1 DEF IInv, StreamOK
<1>3. FileOK(files[ofile], recorded[ofile])
  BY <1>2 DEF IInv, Format, GoodFiles
<1> QED
  BY <1>2, <1>3 DEF IInv, StreamOK, Writing, Format, FileOK

(* Looking ahead stays in the recording; in the C++ library, it may end in *)
(* the torn block.                                                         *)
LEMMA LooksAhead ==
    ASSUME IInv, source \in {"file", "replay"},
           Placed(Place, received, files[input], recorded[input]),
           NEW s, s = Ahead \/ (s = CppAhead /\ pos # Len(files[input].blocks))
    PROVE  /\ Placed(s, received, files[input], recorded[input])
           /\ IsBlock(s.data) /\ s.buffered \in BOOLEAN /\ s.pos \in Nat
<1> DEFINE f == files[input]
           rec == recorded[input]
           next == [data |-> f.blocks[pos + 1], pos |-> pos + 1, buffered |-> TRUE]
<1>1. /\ FileOK(f, rec) /\ Placed(Place, received, f, rec)
      /\ Len(received) \in Nat /\ pos \in Nat /\ buffered \in BOOLEAN /\ IsBlock(data)
      /\ Len(f.blocks) \in Nat
  BY InputFile, LenProperties DEF FileOK, Files
<1>2. CASE s = Place
  BY <1>1, <1>2 DEF Place
<1>3. ASSUME ~buffered, pos # Len(f.blocks)
      PROVE  Placed(next, received, f, rec) /\ IsBlock(next.data)
  <2>1. Place.buffered = FALSE /\ Place.pos = pos
    BY <1>1, <1>3 DEF Place
  <2> QED
    BY <1>1, <1>3, <2>1, PlacedAhead
<1>4. ASSUME NEW d, ~buffered
      PROVE  Placed([data |-> d, pos |-> pos, buffered |-> FALSE], received, f, rec)
  BY <1>1, <1>4 DEF Placed, Place
<1>5. pos <= Len(f.blocks)
  BY <1>1 DEF Placed, Place
<1>6. CASE ~buffered /\ s = CppAhead /\ pos # Len(f.blocks)
  <2>1. s = next
    BY <1>1, <1>5, <1>6 DEF CppAhead, CppRead
  <2> QED
    BY <2>1, <1>1, <1>3, <1>6
<1>7. CASE ~buffered /\ s = Ahead
  <2>1. s = ReadStream
    BY <1>7 DEF Ahead
  <2>2. \/ s = [data |-> data, pos |-> pos, buffered |-> FALSE]
        \/ s = [data |-> EmptyBlock, pos |-> pos, buffered |-> FALSE]
        \/ pos # Len(f.blocks) /\ s = next
    BY <2>1, <1>1 DEF ReadStream, Cleared
  <2>3. CASE pos # Len(f.blocks) /\ s = next
    BY <2>3, <1>1, <1>3, <1>7
  <2>4. CASE s = [data |-> data, pos |-> pos, buffered |-> FALSE]
    BY <2>4, <1>1, <1>4, <1>7
  <2>5. CASE s = [data |-> EmptyBlock, pos |-> pos, buffered |-> FALSE]
    BY <2>5, <1>1, <1>4, <1>7, EmptyIsBlock
  <2> QED
    BY <2>2, <2>3, <2>4, <2>5
<1>8. buffered => s = Place
  BY <1>1 DEF Ahead, CppAhead, Place
<1> QED
  BY <1>1, <1>2, <1>6, <1>7, <1>8

LEMMA TornIsRead ==
    ASSUME NEW m \in Nat, m = Len(files[input].blocks), files[input].torn # "no",
           buffered \in BOOLEAN, buffered => files[input].torn = "boundary"
    PROVE  \E b \in BOOLEAN :
             /\ CppRead(m) = [data |-> StrayBlock, pos |-> m + 1, buffered |-> b]
             /\ b => files[input].torn = "boundary"
<1> DEFINE f == files[input]
           b == buffered \/ f.torn = "boundary"
<1>1. Readable(f) = m + 1
  BY DEF Readable
<1>2. ~(m < Len(f.blocks)) /\ m < Readable(f)
  BY <1>1
<1>3. CppRead(m) = [data |-> StrayBlock, pos |-> m + 1, buffered |-> b]
  BY <1>2, Zenon DEF CppRead
<1>4. b \in BOOLEAN /\ (b => f.torn = "boundary")
  OBVIOUS
<1> QED
  BY <1>3, <1>4, Zenon

LEMMA CppLooksAhead ==
    ASSUME IInv, source = "replay", NEW s, s = CppAhead
    PROVE  /\ \/ Placed(s, received, files[input], recorded[input])
              \/ Astray(s, received, files[input], recorded[input])
           /\ IsBlock(s.data) /\ s.buffered \in BOOLEAN /\ s.pos \in Nat
<1> DEFINE f == files[input]
           rec == recorded[input]
           m == Len(f.blocks)
<1>1. /\ FileOK(f, rec) /\ Len(received) \in Nat /\ pos \in Nat
      /\ buffered \in BOOLEAN /\ IsBlock(data) /\ m \in Nat
      /\ Placed(Place, received, f, rec) \/ Astray(Place, received, f, rec)
  BY InputFile, LenProperties DEF FileOK, Files
<1>2. CASE Placed(Place, received, f, rec) /\ pos # m
  BY <1>2, LooksAhead
<1>3. CASE buffered
  <2>1. s = Place
    BY <1>1, <1>3 DEF CppAhead, Place
  <2> QED
    BY <1>1, <2>1 DEF Place
<1>4. CASE Placed(Place, received, f, rec) /\ pos = m /\ ~buffered
  <2>1. /\ Len(received) = m /\ m <= Len(rec)
        /\ \A i \in 1 .. Len(received) : received[i] = rec[i]
    BY <1>1, <1>4 DEF Placed, Place
  <2>2. CASE f.torn = "no"
    <3>1. s = [data |-> data, pos |-> pos, buffered |-> FALSE]
      BY <1>1, <1>4, <2>2 DEF CppAhead, CppRead, Readable
    <3>2. Placed(s, received, f, rec)
      BY <1>1, <1>4, <3>1 DEF Placed, Place
    <3> QED
      BY <1>1, <3>1, <3>2
  <2>3. CASE f.torn # "no"
    <3>1. PICK b \in BOOLEAN : /\ s = [data |-> StrayBlock, pos |-> m + 1, buffered |-> b]
                               /\ b => f.torn = "boundary"
      <4>1. s = CppRead(m)
        BY <1>4 DEF CppAhead
      <4> QED
        BY <1>1, <1>4, <2>3, <4>1, TornIsRead
    <3>2. /\ s.pos = m + 1 /\ s.data = StrayBlock /\ s.buffered \in BOOLEAN
          /\ s.buffered => f.torn = "boundary"
      BY <3>1
    <3>3. Astray(s, received, f, rec)
      BY <1>1, <2>1, <2>3, <3>2 DEF Astray
    <3> QED
      BY <1>1, <3>2, <3>3, StrayIsBlock
  <2> QED
    BY <2>2, <2>3
<1>5. CASE Astray(Place, received, f, rec) /\ ~buffered
  <2>1. pos = m + 1 /\ f.torn # "no"
    BY <1>5 DEF Astray, Place
  <2>2. s = [data |-> data, pos |-> pos, buffered |-> FALSE]
    BY <1>1, <1>5, <2>1 DEF CppAhead, CppRead, Readable
  <2>3. Astray(s, received, f, rec)
    BY <1>1, <1>5, <2>2 DEF Astray, Place
  <2> QED
    BY <1>1, <2>2, <2>3
<1> QED
  BY <1>1, <1>2, <1>3, <1>4, <1>5

LEMMA JumpsToStart ==
    ASSUME IInv, source = "replay", NEW s, s = CppRead(0)
    PROVE  /\ \/ Placed(s, <<>>, files[input], recorded[input])
              \/ Astray(s, <<>>, files[input], recorded[input])
           /\ IsBlock(s.data) /\ s.buffered \in BOOLEAN /\ s.pos \in Nat
<1> DEFINE f == files[input]
           rec == recorded[input]
           start == [data |-> data, pos |-> 0, buffered |-> FALSE]
           next == [data |-> f.blocks[0 + 1], pos |-> 0 + 1, buffered |-> TRUE]
<1>1. /\ FileOK(f, rec) /\ IsBlock(data) /\ Len(f.blocks) \in Nat /\ buffered \in BOOLEAN
      /\ Len(received) \in Nat
      /\ Placed(Place, received, f, rec) \/ Astray(Place, received, f, rec)
  BY InputFile, LenProperties DEF FileOK, Files
<1>2. Placed(start, <<>>, f, rec) /\ start.buffered = FALSE /\ start.pos = 0
  BY <1>1, PlacedAtStart
<1>3. CASE 0 = Len(f.blocks) /\ f.torn = "no"
  <2>1. s = start
    BY <1>3 DEF CppRead, Readable
  <2>2. IsBlock(s.data) /\ s.buffered = FALSE /\ s.pos = 0
    BY <2>1, <1>1
  <2>3. FALSE \in BOOLEAN /\ 0 \in Nat
    OBVIOUS
  <2>4. Placed(s, <<>>, f, rec)
    BY <2>1, <1>2, Zenon
  <2> QED
    BY <2>2, <2>3, <2>4, Zenon
<1>4. CASE 0 = Len(f.blocks) /\ f.torn # "no"
  <2>1. buffered => f.torn = "boundary"
    BY <1>1, <1>4 DEF Placed, Astray, Place
  <2>2. PICK b \in BOOLEAN : /\ s = [data |-> StrayBlock, pos |-> 1, buffered |-> b]
                             /\ b => f.torn = "boundary"
    <3>1. PICK b \in BOOLEAN :
            /\ CppRead(0) = [data |-> StrayBlock, pos |-> 0 + 1, buffered |-> b]
            /\ b => f.torn = "boundary"
      BY <1>1, <1>4, <2>1, TornIsRead
    <3> QED
      BY <3>1
  <2>3. /\ s.data = StrayBlock /\ s.pos = 1 /\ s.buffered \in BOOLEAN
        /\ s.buffered => f.torn = "boundary"
    BY <2>2
  <2>4. Len(<<>>) = 0
    OBVIOUS
  <2>5. Astray(s, <<>>, f, rec)
    BY <1>4, <2>3, <2>4 DEF Astray
  <2> QED
    BY <2>3, <2>5, StrayIsBlock
<1>5. CASE 0 # Len(f.blocks)
  <2>1. Len(<<>>) \in Nat
    OBVIOUS
  <2>2. s = next
    BY <1>1, <1>5 DEF CppRead
  <2> HIDE DEF start, f, rec
  <2>3. /\ Placed([data |-> f.blocks[start.pos + 1], pos |-> start.pos + 1, buffered |-> TRUE],
                  <<>>, f, rec)
        /\ IsBlock(f.blocks[start.pos + 1])
    BY <1>1, <1>2, <1>5, <2>1, PlacedAhead
  <2>4. Placed(next, <<>>, f, rec) /\ IsBlock(next.data)
    BY <1>2, <2>3
  <2>5. IsBlock(s.data) /\ s.buffered = TRUE /\ s.pos \in Nat
    BY <2>2, <2>4
  <2>6. Placed(s, <<>>, f, rec)
    BY <2>2, <2>4
  <2> QED
    BY <2>5, <2>6 DEF f, rec
<1> QED
  BY <1>3, <1>4, <1>5
-----------------------------------------------------------------------------
(* Writing.  A frame is recorded. *)
LEMMA FrameRecorded ==
    ASSUME IInv, ofile # 0, NEW f \in Frames, NEW b, IsBlock(b), FrameBlock(b, f),
           \A i \in 1 .. Len(recorded[ofile]) : recorded[ofile][i].id < f.id,
           files' = Written(b), recorded' = [recorded EXCEPT ![ofile] = Append(@, f)],
           footer' = FooterWith(f), pattern' = <<f.pattern>>,
           ofile' = ofile, source' = source, input' = input
    PROVE  /\ Format' /\ Writing' /\ footer' \in Footers /\ IsOptional(pattern', AnyPattern)
           /\ Len(files') = Len(files)
           /\ recorded'[ofile] = Append(recorded[ofile], f)
           /\ input \in 1 .. Len(files) =>
                files'[input] = files[input] /\ recorded'[input] = recorded[input]
<1> DEFINE rec == recorded[ofile]
           new == Append(rec, f)
<1>1. /\ ofile \in 1 .. Len(files) /\ ofile # input /\ Unfinished(files[ofile])
      /\ GoodFiles(files, recorded) /\ Len(files[ofile].blocks) = Len(rec)
      /\ rec \in Seq(Frames) /\ Increasing(rec) /\ Tells(footer, rec) /\ footer \in Footers
  BY OutputFile
<1>2. /\ InStep(pattern, footer, rec)
      /\ files[ofile].header = IF source \in {"device", "file"} THEN "PYTHON" ELSE "CPP"
      /\ source \in {"device", "file", "live"}
  BY DEF IInv, Writing
<1>3. /\ footer' \in Footers /\ Tells(footer', new) /\ Increasing(new)
      /\ InStep(pattern', footer', new)
  <2>1. footer' = FooterAfter(footer, pattern, f)
    BY DEF FooterWith, FooterAfter
  <2> QED
    BY <2>1, <1>1, <1>2, FooterTells
<1>4. files' = WrittenIn(files, ofile, b) /\ recorded' = RecordedIn(recorded, ofile, f)
  BY DEF Written, WrittenIn, RecordedIn
<1>5. Extended(files', recorded', files, recorded, ofile, f)
  BY <1>1, <1>3, <1>4, FrameWritten
<1>6. /\ GoodFiles(files', recorded') /\ Len(files') = Len(files)
      /\ files'[ofile].header = files[ofile].header /\ Unfinished(files'[ofile])
      /\ recorded'[ofile] = new /\ Len(files'[ofile].blocks) = Len(recorded'[ofile])
      /\ \A k \in 1 .. Len(files) \ {ofile} :
            files'[k] = files[k] /\ recorded'[k] = recorded[k]
  BY <1>5 DEF Extended
<1> HIDE DEF new
<1>7. Writing'
  BY <1>1, <1>2, <1>3, <1>6 DEF Writing
<1>8. Format'
  BY <1>6 DEF Format
<1>9. IsOptional(pattern', AnyPattern)
  <2>1. f.pattern \in AnyPattern
    BY DEF Frames
  <2> QED
    BY <2>1 DEF IsOptional
<1>10. input \in 1 .. Len(files) => input \in 1 .. Len(files) \ {ofile}
  BY <1>1
<1> QED
  BY <1>3, <1>6, <1>7, <1>8, <1>9, <1>10 DEF new

(* A recording is finished. *)
LEMMA RecordingFinished ==
    ASSUME IInv, ofile # 0, NEW b, IsBlock(b), b.footer = <<footer>>,
           source = "live" => b.frame = <<>>
    PROVE  /\ GoodFiles(Closed(b), recorded) /\ Len(Closed(b)) = Len(files)
           /\ \A k \in 1 .. Len(files) \ {ofile} : Closed(b)[k] = files[k]
<1>1. /\ ofile \in 1 .. Len(files) /\ Unfinished(files[ofile])
      /\ GoodFiles(files, recorded) /\ Len(files[ofile].blocks) = Len(recorded[ofile])
      /\ Tells(footer, recorded[ofile]) /\ footer \in Footers
  BY OutputFile
<1>2. files[ofile].header = "CPP" => b.frame = <<>>
  BY DEF IInv, Writing
<1>3. Closed(b) = ClosedIn(files, ofile, b)
  BY DEF Closed, ClosedIn, Written, WrittenIn
<1> QED
  BY <1>1, <1>2, <1>3, FooterWritten

(* The stream object is gone. *)
LEMMA StreamGone ==
    ASSUME IInv, NoStream, Format', IsOptional(lastId', Nat), terminate' \in BOOLEAN,
           interrupted' \in BOOLEAN, raised' \in BOOLEAN, asked' \in BOOLEAN
    PROVE  IInv'
<1>1. Len(files') \in Nat
  BY LenProperties DEF Format, GoodFiles
<1>2. EmptyFooter \in Footers
  BY EmptySeq DEF EmptyFooter, Footers
<1>3. <<>> \in Seq(AnyPattern) /\ <<>> \in Seq(Frames) /\ <<>> \in Seq(Nat) /\ Len(<<>>) <= 1
  OBVIOUS
<1>4. StreamOK'
  <2>1. IsOptional(pattern', AnyPattern) /\ IsOptional(lastId', Nat) /\ received' \in Seq(Frames)
    BY <1>3 DEF NoStream, IsOptional
  <2>2. IsBlock(data') /\ footer' \in Footers
    BY <1>2, EmptyIsBlock DEF NoStream
  <2>3. ofile' \in 0 .. Len(files') /\ input' \in 0 .. Len(files')
    BY <1>1 DEF NoStream
  <2>4. /\ source' = "none" /\ buffered' \in BOOLEAN /\ nextId' \in Nat
        /\ recordings' \in Nat /\ pos' \in Nat
    BY DEF IInv, StreamOK, NoStream
  <2> QED
    BY <2>1, <2>2, <2>3, <2>4 DEF StreamOK
<1>5. Writing' /\ Newer' /\ Reading' /\ NoFooterYet'
  BY DEF Writing, Newer, Reading, NoFooterYet, NoStream
<1> QED
  BY <1>4, <1>5 DEF IInv
-----------------------------------------------------------------------------
(* The steps.  A stream is opened. *)
LEMMA LastBlockOK ==
    ASSUME NEW f, NEW rec, FileOK(f, rec), NEW b, b = LastBlock(f)
    PROVE  IsBlock(b) /\ (b.footer # <<>> => b.footer[1] \in Footers)
<1>1. f.blocks \in Seq(Blocks) /\ Len(f.blocks) \in Nat
  BY LenProperties DEF FileOK, Files
<1>2. IsBlock(b)
  <2>1. CASE f.blocks = <<>>
    BY <2>1, EmptyIsBlock DEF LastBlock
  <2>2. CASE f.blocks # <<>>
    <3>1. Len(f.blocks) \in 1 .. Len(f.blocks)
      BY <1>1, <2>2
    <3> QED
      BY <2>2, <3>1 DEF LastBlock, FileOK
  <2> QED
    BY <2>1, <2>2
<1>3. b.footer \in Seq(Footers)
  BY <1>2 DEF IsBlock, Blocks
<1>4. b.footer # <<>> => b.footer[1] \in Footers
  BY <1>3
<1> QED
  BY <1>2, <1>4

PyKept == UNCHANGED <<lastId, terminate, raised, asked, interrupted>>
Opens ==
    \/ OpenDevice \/ \E k \in DOMAIN files : OpenFile(k)
    \/ PyKept /\ (CppOpenDevice \/ \E k \in DOMAIN files : CppOpenFile(k))

LEMMA OpensKeeps ==
    ASSUME IInv, Opens PROVE IInv'
<1>1. /\ source = "none" /\ data = EmptyBlock /\ ofile = 0 /\ received = <<>>
      /\ pos = 0 /\ buffered = FALSE /\ recordings = 0 /\ input = 0
      /\ UNCHANGED <<pattern, ofile, pos, buffered, files, nextId, recorded, received, recordings>>
      /\ PyKept
  BY DEF IInv, NoFooterYet, Opens, OpenDevice, OpenFile, CppOpenDevice, CppOpenFile,
         NewStream, PyKept
<1>2. Format' /\ Writing' /\ Newer'
  BY <1>1 DEF IInv, Format, Writing, Newer
<1>3. ASSUME IsBlock(data'), footer' \in Footers, input' \in 0 .. Len(files),
             source' \in {"device", "live", "file", "replay"}
      PROVE  StreamOK'
  <2>1. /\ IsOptional(pattern', AnyPattern) /\ IsOptional(lastId', Nat)
        /\ received' \in Seq(Frames) /\ terminate' \in BOOLEAN /\ interrupted' \in BOOLEAN
        /\ raised' \in BOOLEAN /\ asked' \in BOOLEAN
    BY <1>1 DEF IInv, StreamOK, PyKept
  <2>2. /\ ofile' \in 0 .. Len(files') /\ input' \in 0 .. Len(files')
        /\ buffered' \in BOOLEAN /\ nextId' \in Nat /\ recordings' \in Nat /\ pos' \in Nat
    BY <1>1, <1>3 DEF IInv, StreamOK
  <2> QED
    BY <1>3, <2>1, <2>2 DEF StreamOK
<1>4. CASE OpenDevice \/ CppOpenDevice
  <2>1. /\ source' \in {"device", "live"} /\ input' = 0 /\ data' = EmptyBlock
        /\ footer' = footer
    BY <1>1, <1>4 DEF OpenDevice, CppOpenDevice, NewStream
  <2>2. StreamOK'
    BY <2>1, <1>3, EmptyIsBlock DEF IInv, StreamOK
  <2>3. Reading' /\ NoFooterYet'
    BY <1>1, <2>1 DEF Reading, NoFooterYet, EmptyBlock
  <2> QED
    BY <1>2, <2>2, <2>3 DEF IInv
<1>5. ASSUME NEW k \in DOMAIN files, OpenFile(k) \/ CppOpenFile(k)
      PROVE  IInv'
  <2>1. source' \in {"file", "replay"} /\ input' = k
    BY <1>5 DEF OpenFile, CppOpenFile, NewStream
  <2>2. k \in 1 .. Len(files) /\ FileOK(files[k], recorded[k])
    BY LenProperties DEF IInv, Format, GoodFiles
  <2>3. EmptyFooter \in Footers
    BY EmptySeq DEF EmptyFooter, Footers
  <2>4. IsBlock(data') /\ footer' \in Footers
    <3>1. CASE OpenFile(k)
      <4>1. PICK b \in {LastBlock(files[k]), EmptyBlock} :
              data' = b /\ footer' = IF b.footer # <<>> THEN b.footer[1] ELSE EmptyFooter
        BY <3>1 DEF OpenFile
      <4>2. CASE b = EmptyBlock
        BY <4>1, <4>2, <2>3, EmptyIsBlock DEF EmptyBlock
      <4>3. CASE b = LastBlock(files[k])
        BY <4>1, <4>3, <2>2, <2>3, LastBlockOK
      <4> QED
        BY <4>1, <4>2, <4>3
    <3>2. CASE CppOpenFile(k)
      <4>1. data' \in {LastBlock(files[k]), StrayBlock} /\ footer' = footer
        BY <3>2 DEF CppOpenFile
      <4> QED
        BY <4>1, <2>2, LastBlockOK, StrayIsBlock DEF IInv, StreamOK
    <3> QED
      BY <1>5, <3>1, <3>2
  <2>5. StreamOK'
    <3>1. input' \in 0 .. Len(files)
      BY <2>1, <2>2
    <3> QED
      BY <3>1, <2>1, <2>4, <1>3
  <2>6. Placed([data |-> data', pos |-> 0, buffered |-> FALSE], <<>>, files[k], recorded[k])
    BY <2>2, PlacedAtStart
  <2>7. Place' = [data |-> data', pos |-> 0, buffered |-> FALSE]
    BY <1>1 DEF Place
  <2>8. Reading'
    BY <1>1, <2>1, <2>2, <2>6, <2>7 DEF Reading
  <2>9. NoFooterYet'
    BY <1>1, <2>1 DEF NoFooterYet
  <2> QED
    BY <1>2, <2>5, <2>8, <2>9 DEF IInv
<1> QED
  BY <1>4, <1>5 DEF Opens

(* A block is read ahead, or the stream returns to its beginning. *)
Looks == EndOfStream \/ (PyKept /\ (CppEndOfStream \/ CppJump))

LEMMA LooksKeeps ==
    ASSUME IInv, Looks PROVE IInv'
<1>1. /\ source \in {"file", "replay"}
      /\ UNCHANGED <<source, footer, pattern, ofile, input, files, nextId, recorded, recordings>>
      /\ PyKept
  BY DEF Looks, EndOfStream, CppEndOfStream, CppJump, PyKept
<1> DEFINE Inside(s, rcv) ==
             \/ Placed(s, rcv, files[input], recorded[input])
             \/ source = "replay" /\ Astray(s, rcv, files[input], recorded[input])
<1>2. PICK s : /\ data' = s.data /\ pos' = s.pos /\ buffered' = s.buffered
               /\ \/ s = Ahead /\ source = "file" /\ received' = received
                  \/ s = CppAhead /\ source = "replay" /\ received' = received
                  \/ s = CppRead(0) /\ source = "replay" /\ received' = <<>>
  BY DEF Looks, EndOfStream, CppEndOfStream, CppJump, JumpTarget
<1>3. /\ Inside(s, received')
      /\ IsBlock(s.data) /\ s.buffered \in BOOLEAN /\ s.pos \in Nat
      /\ received' \in Seq(Frames)
  <2>1. <<>> \in Seq(Frames)
    BY EmptySeq
  <2>2. received \in Seq(Frames)
    BY DEF IInv, StreamOK
  <2>3. CASE s = Ahead /\ source = "file" /\ received' = received
    <3>1. Placed(Place, received, files[input], recorded[input])
      BY <2>3, InputFile
    <3>2. /\ Placed(s, received, files[input], recorded[input])
          /\ IsBlock(s.data) /\ s.buffered \in BOOLEAN /\ s.pos \in Nat
      BY <2>3, <3>1, LooksAhead
    <3> QED
      BY <2>2, <2>3, <3>2, Zenon
  <2>4. CASE s = CppAhead /\ source = "replay" /\ received' = received
    <3>1. /\ Inside(s, received)
          /\ IsBlock(s.data) /\ s.buffered \in BOOLEAN /\ s.pos \in Nat
      BY <2>4, CppLooksAhead
    <3> QED
      BY <2>2, <2>4, <3>1, Zenon
  <2>5. CASE s = CppRead(0) /\ source = "replay" /\ received' = <<>>
    <3>1. /\ Inside(s, <<>>)
          /\ IsBlock(s.data) /\ s.buffered \in BOOLEAN /\ s.pos \in Nat
      BY <2>5, JumpsToStart
    <3> QED
      BY <2>1, <2>5, <3>1, Zenon
  <2> QED
    BY <1>2, <2>3, <2>4, <2>5
<1>4. Inside(Place', received')
  BY <1>2, <1>3 DEF Placed, Astray, Place
<1>5. Format' /\ Writing' /\ Reading'
  <2>1. input # 0
    BY <1>1 DEF IInv, Reading
  <2> QED
    BY <1>1, <1>4, <2>1 DEF IInv, Format, Writing, Reading
<1>6. Newer'
  <2>1. Newer /\ UNCHANGED <<ofile, recorded, source, nextId>>
    BY <1>1 DEF IInv
  <2>2. source = "file" => UNCHANGED received
    BY <1>2
  <2> QED
    BY <2>1, <2>2 DEF Newer
<1>7. StreamOK'
  BY <1>1, <1>2, <1>3 DEF IInv, StreamOK, PyKept
<1>8. NoFooterYet'
  BY <1>1 DEF IInv, NoFooterYet
<1> QED
  BY <1>5, <1>6, <1>7, <1>8 DEF IInv

(* A frame is received in Python, and recorded unless one was lost. *)
LEMMA Delivers ==
    ASSUME IInv, NEW f \in Frames, NEW fail \in Flags, NEW blk, IsBlock(blk),
           Deliver(f, blk, fail), ofile # 0 => blk.footer = <<>>,
           ofile # 0 => \A i \in 1 .. Len(recorded[ofile]) : recorded[ofile][i].id < f.id,
           ofile' = ofile, source' = source, input' = input
    PROVE  /\ Format' /\ Writing' /\ footer' \in Footers /\ IsOptional(pattern', AnyPattern)
           /\ Len(files') = Len(files)
           /\ ofile # 0 => recorded'[ofile] \in {recorded[ofile], Append(recorded[ofile], f)}
           /\ input \in 1 .. Len(files) =>
                files'[input] = files[input] /\ recorded'[input] = recorded[input]
           /\ IsBlock(data') /\ data'.footer = blk.footer
           /\ received' = Append(received, f) /\ received' \in Seq(Frames)
           /\ IsOptional(lastId', Nat) /\ raised' \in BOOLEAN /\ asked' \in BOOLEAN
<1>1. received' = Append(received, f) /\ received' \in Seq(Frames)
  <2>1. received \in Seq(Frames)
    BY DEF IInv, StreamOK
  <2> QED
    BY <2>1, AppendProperties DEF Deliver
<1>2. IsOptional(lastId', Nat)
  <2>1. f.id \in Nat
    BY DEF Frames
  <2>2. <<f.id>> \in Seq(Nat) /\ Len(<<f.id>>) <= 1
    BY <2>1
  <2>3. lastId' \in {<<f.id>>, lastId}
    BY DEF Deliver
  <2> QED
    BY <2>2, <2>3 DEF IsOptional, IInv, StreamOK
<1>3. raised' \in BOOLEAN /\ asked' \in BOOLEAN
  BY DEF Deliver
<1>4. CASE ofile # 0 /\ Save(f, blk)
  <2>1. data' = [blk EXCEPT !.frame = <<f>>] /\ blk.footer = <<>>
    BY <1>4 DEF Save
  <2>2. IsBlock(data') /\ FrameBlock(data', f) /\ data'.footer = blk.footer
    <3>1. blk \in Blocks /\ Len(blk.footer) <= 1
      BY DEF IsBlock
    <3>2. <<f>> \in Seq(Frames) /\ Len(<<f>>) <= 1
      OBVIOUS
    <3>3. data' \in Blocks /\ data'.frame = <<f>> /\ data'.footer = blk.footer
      BY <2>1, <3>1, <3>2 DEF Blocks
    <3> QED
      BY <2>1, <3>1, <3>2, <3>3 DEF IsBlock, FrameBlock
  <2>3. /\ files' = Written(data') /\ recorded' = [recorded EXCEPT ![ofile] = Append(@, f)]
        /\ footer' = FooterWith(f) /\ pattern' = <<f.pattern>>
    BY <1>4 DEF Save
  <2>4. \A i \in 1 .. Len(recorded[ofile]) : recorded[ofile][i].id < f.id
    BY <1>4
  <2>5. /\ Format' /\ Writing' /\ footer' \in Footers /\ IsOptional(pattern', AnyPattern)
        /\ Len(files') = Len(files)
        /\ recorded'[ofile] = Append(recorded[ofile], f)
        /\ input \in 1 .. Len(files) =>
             files'[input] = files[input] /\ recorded'[input] = recorded[input]
    BY <1>4, <2>2, <2>3, <2>4, FrameRecorded
  <2> QED
    BY <1>1, <1>2, <1>3, <2>2, <2>5
<1>5. CASE data' = blk /\ UNCHANGED <<footer, pattern, files, recorded>>
  BY <1>1, <1>2, <1>3, <1>5 DEF IInv, StreamOK, Format, Writing
<1> QED
  BY <1>4, <1>5 DEF Deliver

(* The device's frames are newer than those before. *)
LEMMA FromDevice ==
    ASSUME IInv, NEW f \in NextFrames
    PROVE  /\ f \in Frames /\ nextId <= f.id /\ f.id \in Nat /\ nextId \in Nat
           /\ ofile # 0 /\ source # "file" =>
                \A i \in 1 .. Len(recorded[ofile]) : recorded[ofile][i].id < f.id
<1>1. nextId \in Nat
  BY DEF IInv, StreamOK
<1>2. f \in Frames /\ nextId <= f.id /\ f.id \in Nat
  <2>1. PICK skip \in {0, 1}, p \in Patterns : f = Frame(nextId + skip, p)
    BY DEF NextFrames
  <2> QED
    BY <1>1, <2>1 DEF Frame, Frames, AnyPattern
<1>3. ASSUME ofile # 0, source # "file", NEW i \in 1 .. Len(recorded[ofile])
      PROVE  recorded[ofile][i].id < f.id
  <2>1. recorded[ofile][i].id < nextId
    BY <1>3 DEF IInv, Newer
  <2>2. recorded[ofile][i] \in Frames
    BY <1>3, OutputFile, ElementOfSeq
  <2>3. recorded[ofile][i].id \in Nat
    BY <2>2 DEF Frames
  <2> QED
    BY <1>1, <1>2, <2>1, <2>3
<1> QED
  BY <1>1, <1>2, <1>3

LEMMA NewerStays ==
    ASSUME IInv, NEW f \in NextFrames, nextId' = f.id + 1, source # "file",
           source' = source, ofile' = ofile,
           ofile # 0 => recorded'[ofile] \in {recorded[ofile], Append(recorded[ofile], f)}
    PROVE  Newer'
<1> SUFFICES ASSUME ofile # 0, NEW i \in 1 .. Len(recorded'[ofile])
             PROVE  recorded'[ofile][i].id < f.id + 1
  BY DEF Newer
<1>1. /\ f \in Frames /\ f.id \in Nat /\ recorded[ofile] \in Seq(Frames)
      /\ \A j \in 1 .. Len(recorded[ofile]) : recorded[ofile][j].id < f.id
  BY FromDevice, OutputFile
<1>2. /\ \A j \in 1 .. Len(recorded[ofile]) : recorded[ofile][j].id \in Nat
  <2>1. \A j \in 1 .. Len(recorded[ofile]) : recorded[ofile][j] \in Frames
    BY <1>1, ElementOfSeq
  <2> QED
    BY <2>1 DEF Frames
<1>3. CASE recorded'[ofile] = recorded[ofile]
  BY <1>1, <1>2, <1>3
<1>4. CASE recorded'[ofile] = Append(recorded[ofile], f)
  <2> DEFINE rec == recorded[ofile]
             new == Append(rec, f)
  <2>1. /\ Len(new) = Len(rec) + 1 /\ new[Len(rec) + 1] = f /\ Len(rec) \in Nat
        /\ \A j \in 1 .. Len(rec) : new[j] = rec[j]
    BY <1>1, Appended
  <2> HIDE DEF new
  <2>2. i = Len(rec) + 1 \/ i \in 1 .. Len(rec)
    BY <1>4, <2>1 DEF new
  <2>3. new[i].id < f.id + 1
    BY SMTT(20), <1>1, <1>2, <2>1, <2>2
  <2> QED
    BY <1>4, <2>3 DEF new
<1> QED
  BY <1>3, <1>4

LEMMA RecvFromDeviceKeeps ==
    ASSUME IInv, NEW fail \in Flags, RecvFromDevice(fail) PROVE IInv'
<1>1. PICK f \in NextFrames : DeviceSends(f) /\ Deliver(f, data, fail)
  BY DEF RecvFromDevice
<1>2. /\ source = "device"
      /\ UNCHANGED <<source, ofile, input, pos, buffered, terminate, recordings, interrupted>>
      /\ nextId' = f.id + 1
  BY <1>1 DEF RecvFromDevice, DeviceSends
<1>3. /\ f \in Frames /\ f.id \in Nat
      /\ ofile # 0 => \A i \in 1 .. Len(recorded[ofile]) : recorded[ofile][i].id < f.id
  BY <1>2, FromDevice
<1>4. IsBlock(data) /\ input = 0 /\ (ofile # 0 \/ recordings = 0 => data.footer = <<>>)
  BY <1>2 DEF IInv, StreamOK, NoFooterYet
<1>5. /\ Format' /\ Writing' /\ footer' \in Footers /\ IsOptional(pattern', AnyPattern)
      /\ Len(files') = Len(files)
      /\ ofile # 0 => recorded'[ofile] \in {recorded[ofile], Append(recorded[ofile], f)}
      /\ IsBlock(data') /\ data'.footer = data.footer
      /\ received' \in Seq(Frames)
      /\ IsOptional(lastId', Nat) /\ raised' \in BOOLEAN /\ asked' \in BOOLEAN
  BY <1>1, <1>2, <1>3, <1>4, Delivers
<1>6. Newer'
  BY <1>2, <1>5, NewerStays
<1>7. StreamOK'
  BY <1>2, <1>3, <1>5 DEF IInv, StreamOK
<1>8. Reading' /\ NoFooterYet'
  BY <1>2, <1>4, <1>5 DEF IInv, Reading, NoFooterYet
<1> QED
  BY <1>5, <1>6, <1>7, <1>8 DEF IInv

LEMMA CppRecvLiveKeeps ==
    ASSUME IInv, CppRecvLive, PyKept PROVE IInv'
<1>1. PICK f \in NextFrames : DeviceSends(f) /\ CppRecv(f, ofile # 0)
  BY DEF CppRecvLive
<1>2. /\ source = "live" /\ input = 0
      /\ UNCHANGED <<source, data, ofile, input, pos, buffered, recordings>>
      /\ nextId' = f.id + 1
  BY <1>1 DEF CppRecvLive, DeviceSends, IInv, NoFooterYet
<1>3. /\ f \in Frames /\ f.id \in Nat
      /\ ofile # 0 => \A i \in 1 .. Len(recorded[ofile]) : recorded[ofile][i].id < f.id
  BY <1>2, FromDevice
<1>4. received' \in Seq(Frames)
  <2>1. received \in Seq(Frames)
    BY DEF IInv, StreamOK
  <2> QED
    BY <1>1, <1>3, <2>1, AppendProperties DEF CppRecv
<1>5. /\ Format' /\ Writing' /\ footer' \in Footers /\ IsOptional(pattern', AnyPattern)
      /\ Len(files') = Len(files)
      /\ ofile # 0 => recorded'[ofile] \in {recorded[ofile], Append(recorded[ofile], f)}
  <2>1. CASE ofile = 0
    BY <1>1, <1>2, <2>1 DEF CppRecv, IInv, StreamOK, Format, Writing
  <2>2. CASE ofile # 0
    <3> DEFINE b == [EmptyBlock EXCEPT !.frame = <<f>>]
    <3>1. IsBlock(b) /\ FrameBlock(b, f)
      <4>1. b = [frame |-> <<f>>, footer |-> <<>>]
        BY DEF EmptyBlock
      <4>2. <<f>> \in Seq(Frames) /\ <<>> \in Seq(Footers) /\ Len(<<f>>) <= 1 /\ Len(<<>>) <= 1
        BY <1>3
      <4> QED
        BY <4>1, <4>2 DEF IsBlock, Blocks, FrameBlock
    <3>2. /\ files' = Written(b) /\ recorded' = [recorded EXCEPT ![ofile] = Append(@, f)]
          /\ footer' = FooterWith(f) /\ pattern' = <<f.pattern>>
      BY <1>1, <2>2 DEF CppRecv
    <3> HIDE DEF b
    <3>3. \A i \in 1 .. Len(recorded[ofile]) : recorded[ofile][i].id < f.id
      BY <1>3, <2>2
    <3>4. /\ Format' /\ Writing' /\ footer' \in Footers /\ IsOptional(pattern', AnyPattern)
          /\ Len(files') = Len(files) /\ recorded'[ofile] = Append(recorded[ofile], f)
      BY <1>2, <1>3, <2>2, <3>1, <3>2, <3>3, FrameRecorded
    <3> QED
      BY <3>4
  <2> QED
    BY <2>1, <2>2
<1>6. Newer'
  BY <1>2, <1>5, NewerStays
<1>7. StreamOK'
  BY <1>2, <1>3, <1>4, <1>5 DEF IInv, StreamOK, PyKept
<1>8. Reading' /\ NoFooterYet'
  BY <1>2 DEF IInv, Reading, NoFooterYet
<1> QED
  BY <1>5, <1>6, <1>7, <1>8 DEF IInv

(* The frame that a file stream returns. *)
LEMMA FromFile ==
    ASSUME IInv, source \in {"file", "replay"},
           NEW s, Placed(s, received, files[input], recorded[input]),
           s.buffered, s.data.footer = <<>>
    PROVE  /\ Len(received) + 1 \in 1 .. Len(recorded[input])
           /\ s.data.frame[1] = recorded[input][Len(received) + 1]
           /\ s.data.frame[1] \in Frames
           /\ \A d : Placed([data |-> d, pos |-> s.pos, buffered |-> FALSE],
                           Append(received, s.data.frame[1]), files[input], recorded[input])
<1> DEFINE f == files[input]
           rec == recorded[input]
<1>1. FileOK(f, rec) /\ received \in Seq(Frames)
  BY InputFile
<1>2. Placed(s, received, f, rec) /\ s.buffered /\ s.data.footer = <<>>
  OBVIOUS
<1> DEFINE n == Len(received)
           r == rec[n + 1]
           new == Append(received, r)
<1> HIDE DEF f, rec
<1>3. /\ n + 1 \in 1 .. Len(rec) /\ s.data.frame = <<r>> /\ r \in Frames
      /\ s.pos = n + 1 /\ s.pos <= Len(f.blocks) /\ \A i \in 1 .. n : received[i] = rec[i]
  BY <1>1, <1>2, PlacedNext
<1>4. /\ Len(new) = n + 1 /\ new[n + 1] = r /\ \A i \in 1 .. n : new[i] = received[i]
      /\ n \in Nat
  <2> HIDE DEF r
  <2> QED
    BY <1>1, <1>3, Appended
<1>5. s.data.frame[1] = r
  BY <1>3
<1>6. n + 1 <= Len(rec) /\ \A i \in 1 .. n + 1 : new[i] = rec[i]
  <2> HIDE DEF new
  <2> QED
    BY <1>3, <1>4
<1> HIDE DEF r, new
<1>7. \A d : Placed([data |-> d, pos |-> s.pos, buffered |-> FALSE], new, f, rec)
  BY <1>3, <1>4, <1>6 DEF Placed
<1> QED
  BY <1>3, <1>5, <1>7 DEF f, rec, r, new

LEMMA RecvFromFileKeeps ==
    ASSUME IInv, NEW fail \in Flags, RecvFromFile(fail) PROVE IInv'
<1> DEFINE s == Ahead
           f == s.data.frame[1]
<1>1. /\ source = "file" /\ pos' = s.pos
      /\ UNCHANGED <<source, ofile, input, terminate, nextId, recordings, interrupted>>
  BY DEF RecvFromFile
<1>2. /\ Placed(s, received, files[input], recorded[input])
      /\ IsBlock(s.data) /\ s.buffered \in BOOLEAN /\ s.pos \in Nat
  <2>1. Placed(Place, received, files[input], recorded[input])
    BY <1>1, InputFile
  <2> QED
    BY <1>1, <2>1, LooksAhead
<1>3. /\ input \in 1 .. Len(files) /\ FileOK(files[input], recorded[input])
      /\ received \in Seq(Frames) /\ Len(received) \in Nat
  BY <1>1, InputFile
<1> HIDE DEF s
<1>4. CASE AtEnd(s)
  <2>1. /\ data' = s.data /\ buffered' = s.buffered
        /\ UNCHANGED <<footer, pattern, lastId, files, recorded, received, raised, asked>>
    BY <1>4 DEF RecvFromFile, s
  <2>2. Placed(Place', received', files'[input'], recorded'[input'])
    BY <1>1, <1>2, <2>1 DEF Placed, Place
  <2>3. Format' /\ Writing' /\ Reading'
    <3>1. input # 0
      BY <1>1 DEF IInv, Reading
    <3> QED
      BY <1>1, <2>1, <2>2, <3>1 DEF IInv, Format, Writing, Reading
  <2>4. Newer' /\ NoFooterYet'
    BY <1>1, <2>1 DEF IInv, Newer, NoFooterYet
  <2>5. StreamOK'
    BY <1>1, <1>2, <2>1 DEF IInv, StreamOK
  <2> QED
    BY <2>3, <2>4, <2>5 DEF IInv
<1>5. CASE ~AtEnd(s)
  <2>1. buffered' = FALSE /\ Deliver(f, s.data, fail)
    BY <1>5 DEF RecvFromFile, s
  <2>2. s.buffered /\ s.data.footer = <<>>
    BY <1>5 DEF AtEnd
  <2>3. /\ Len(received) + 1 \in 1 .. Len(recorded[input])
        /\ f = recorded[input][Len(received) + 1] /\ f \in Frames
        /\ Placed([data |-> data', pos |-> s.pos, buffered |-> FALSE],
                  Append(received, f), files[input], recorded[input])
    BY <1>1, <1>2, <2>2, FromFile
  <2> HIDE DEF f
  <2>4. ASSUME ofile # 0, NEW i \in 1 .. Len(recorded[ofile])
        PROVE  recorded[ofile][i].id < f.id
    <3>1. PICK j \in 1 .. Len(received) : recorded[ofile][i].id = received[j].id
      BY <1>1, <2>4 DEF IInv, Newer
    <3>2. received[j] = recorded[input][j] /\ Len(received) <= Len(recorded[input])
      BY <1>2 DEF Placed
    <3>3. Increasing(recorded[input])
      BY <1>3 DEF FileOK
    <3>4. j \in 1 .. Len(recorded[input]) /\ j < Len(received) + 1
      BY <1>3, <2>3
    <3>5. recorded[input][j].id < recorded[input][Len(received) + 1].id
      BY <2>3, <3>3, <3>4 DEF Increasing
    <3> QED
      BY <2>3, <3>1, <3>2, <3>5
  <2>5. /\ Format' /\ Writing' /\ footer' \in Footers /\ IsOptional(pattern', AnyPattern)
        /\ Len(files') = Len(files)
        /\ ofile # 0 => recorded'[ofile] \in {recorded[ofile], Append(recorded[ofile], f)}
        /\ files'[input] = files[input] /\ recorded'[input] = recorded[input]
        /\ IsBlock(data')
        /\ received' = Append(received, f) /\ received' \in Seq(Frames)
        /\ IsOptional(lastId', Nat) /\ raised' \in BOOLEAN /\ asked' \in BOOLEAN
    BY <1>1, <1>2, <1>3, <2>1, <2>2, <2>3, <2>4, Delivers
  <2>6. Newer'
    <3> SUFFICES ASSUME ofile # 0, NEW i \in 1 .. Len(recorded'[ofile])
                 PROVE  \E j \in 1 .. Len(received') : recorded'[ofile][i].id = received'[j].id
      BY <1>1 DEF Newer
    <3>1. /\ Len(received') = Len(received) + 1 /\ received'[Len(received) + 1] = f
          /\ \A j \in 1 .. Len(received) : received'[j] = received[j]
      BY <1>3, <2>3, <2>5, Appended
    <3>2. recorded[ofile] \in Seq(Frames)
      BY OutputFile
    <3> DEFINE rec == recorded[ofile]
               new == Append(rec, f)
    <3>3. /\ Len(new) = Len(rec) + 1 /\ new[Len(rec) + 1] = f /\ Len(rec) \in Nat
          /\ \A j \in 1 .. Len(rec) : new[j] = rec[j]
      BY <2>3, <3>2, Appended
    <3> HIDE DEF new
    <3>4. CASE i \in 1 .. Len(rec) /\ recorded'[ofile][i] = rec[i]
      <4>1. PICK j \in 1 .. Len(received) : rec[i].id = received[j].id
        BY <1>1, <3>4 DEF IInv, Newer
      <4>2. j \in 1 .. Len(received') /\ received'[j] = received[j]
        BY <1>3, <3>1
      <4> QED
        BY <3>4, <4>1, <4>2
    <3>5. CASE recorded'[ofile][i] = f
      <4>1. Len(received) + 1 \in 1 .. Len(received')
        BY <1>3, <3>1
      <4> QED
        BY <3>1, <3>5, <4>1
    <3>6. CASE recorded'[ofile] = rec
      BY <3>4, <3>6
    <3>7. CASE recorded'[ofile] = new
      <4>1. i = Len(rec) + 1 \/ i \in 1 .. Len(rec)
        BY <3>3, <3>7
      <4> QED
        BY <3>3, <3>4, <3>5, <3>7, <4>1
    <3> QED
      BY <2>5, <3>6, <3>7 DEF new
  <2>7. Reading'
    <3>1. Place' = [data |-> data', pos |-> s.pos, buffered |-> FALSE]
      BY <1>1, <2>1 DEF Place
    <3>2. input' = input /\ input # 0 /\ source' = "file"
      BY <1>1, <1>3
    <3>3. Placed(Place', received', files'[input], recorded'[input])
      BY <2>3, <2>5, <3>1, Zenon
    <3> QED
      BY <3>2, <3>3 DEF Reading
  <2>8. StreamOK'
    BY <1>1, <1>2, <2>1, <2>5 DEF IInv, StreamOK
  <2>9. NoFooterYet'
    BY <1>1 DEF IInv, NoFooterYet
  <2> QED
    BY <2>5, <2>6, <2>7, <2>8, <2>9 DEF IInv
<1> QED
  BY <1>4, <1>5

LEMMA CppRecvReplayKeeps ==
    ASSUME IInv, CppRecvReplay, PyKept PROVE IInv'
<1> DEFINE s == CppAhead
           f == s.data.frame[1]
<1>1. /\ source = "replay" /\ pos' = s.pos /\ data' = s.data /\ ofile = 0
      /\ UNCHANGED <<source, ofile, input, nextId, recordings>>
  BY DEF CppRecvReplay, IInv, Writing
<1> DEFINE Inside(t, rcv) ==
             \/ Placed(t, rcv, files[input], recorded[input])
             \/ Astray(t, rcv, files[input], recorded[input])
           after == [data |-> data', pos |-> s.pos, buffered |-> buffered']
<1>2. Inside(s, received) /\ IsBlock(s.data) /\ s.buffered \in BOOLEAN /\ s.pos \in Nat
  BY <1>1, CppLooksAhead
<1>3. /\ input \in 1 .. Len(files) /\ received \in Seq(Frames) /\ Len(received) \in Nat
      /\ Len(files[input].blocks) \in Nat
  BY <1>1, InputFile, LenProperties DEF FileOK, Files
<1> HIDE DEF s
<1>4. /\ UNCHANGED <<footer, pattern, files, recorded>>
      /\ received' \in Seq(Frames) /\ buffered' \in BOOLEAN
      /\ Inside(after, received')
  <2>1. CASE CppAtEnd(s)
    <3>1. buffered' = s.buffered /\ UNCHANGED <<footer, pattern, files, recorded, received>>
      BY <2>1 DEF CppRecvReplay, s
    <3>2. Inside(after, received)
      BY <1>1, <1>2, <3>1 DEF Placed, Astray
    <3> QED
      BY <1>2, <1>3, <3>1, <3>2
  <2>2. CASE ~CppAtEnd(s)
    <3>1. buffered' = FALSE /\ CppRecv(f, FALSE)
      BY <2>2 DEF CppRecvReplay, BufferedAfterRecv, s
    <3>2. s.buffered /\ s.data.footer = <<>>
      BY <2>2 DEF CppAtEnd
    <3>3. f \in Frames /\ Inside(after, Append(received, f))
      <4>1. CASE Placed(s, received, files[input], recorded[input])
        <5>1. /\ f \in Frames
              /\ Placed([data |-> data', pos |-> s.pos, buffered |-> FALSE],
                        Append(received, f), files[input], recorded[input])
          BY <1>1, <3>2, <4>1, FromFile
        <5> QED
          BY <3>1, <5>1
      <4>2. CASE Astray(s, received, files[input], recorded[input])
        <5>1. /\ Len(received) = Len(files[input].blocks)
              /\ files[input].torn = "boundary" /\ s.data = StrayBlock
              /\ s.pos = Len(files[input].blocks) + 1
              /\ \A i \in 1 .. Len(received) : received[i] = recorded[input][i]
          BY <3>2, <4>2 DEF Astray
        <5>2. f \in Frames
          BY <5>1, StrayIsBlock
        <5> HIDE DEF f
        <5>3. /\ Len(Append(received, f)) = Len(received) + 1
              /\ \A i \in 1 .. Len(received) : Append(received, f)[i] = received[i]
          BY <1>3, <5>2, Appended
        <5>4. after.pos = s.pos /\ after.buffered = FALSE
          BY <3>1
        <5>5. Astray(after, Append(received, f), files[input], recorded[input])
          BY <1>3, <5>1, <5>3, <5>4 DEF Astray
        <5> QED
          BY <5>2, <5>5
      <4> QED
        BY <1>2, <4>1, <4>2
    <3> HIDE DEF f
    <3>4. received' = Append(received, f) /\ UNCHANGED <<footer, pattern, files, recorded>>
      BY <1>1, <3>1 DEF CppRecv
    <3>5. received' \in Seq(Frames)
      BY <1>3, <3>3, <3>4, AppendProperties
    <3> QED
      BY <3>1, <3>3, <3>4, <3>5
  <2> QED
    BY <2>1, <2>2
<1>5. Place' = after
  BY <1>1 DEF Place
<1>6. Reading'
  <2>1. \/ Placed(Place', received', files'[input], recorded'[input])
        \/ Astray(Place', received', files'[input], recorded'[input])
    BY <1>4, <1>5
  <2> QED
    BY <2>1, <1>1, <1>3 DEF Reading
<1>7. Format' /\ Writing' /\ Newer' /\ NoFooterYet'
  BY <1>1, <1>4 DEF IInv, Format, Writing, Newer, NoFooterYet
<1>8. StreamOK'
  BY <1>1, <1>2, <1>4 DEF IInv, StreamOK, PyKept
<1> QED
  BY <1>6, <1>7, <1>8 DEF IInv

(* A recording is started. *)
LEMMA RecordingStarted ==
    ASSUME IInv, NEW fs, GoodFiles(fs, recorded), Len(fs) = Len(files),
           input \in 1 .. Len(files) => fs[input] = files[input],
           source \in {"device", "file", "live"}, source = "device" => recordings = 0,
           files' = NewFile(IF source \in {"device", "file"} THEN "PYTHON" ELSE "CPP", fs),
           ofile' = Len(files) + 1, recorded' = Append(recorded, <<>>),
           recordings' = recordings + 1, footer' = EmptyFooter, pattern' = <<>>,
           UNCHANGED <<source, data, input, pos, buffered, nextId, received>>, PyKept
    PROVE  IInv'
<1> DEFINE lib == IF source \in {"device", "file"} THEN "PYTHON" ELSE "CPP"
           o == Len(files) + 1
<1>1. lib \in {"PYTHON", "CPP"}
  OBVIOUS
<1> HIDE DEF lib
<1>2. /\ GoodFiles(files', recorded') /\ Len(files') = o /\ Len(files) \in Nat
      /\ Unfinished(files'[o]) /\ files'[o].header = lib
      /\ Len(files'[o].blocks) = 0 /\ recorded'[o] = <<>>
      /\ \A k \in 1 .. Len(files) : files'[k] = fs[k] /\ recorded'[k] = recorded[k]
  <2>1. files' = NewFile(lib, fs)
    BY DEF lib
  <2>2. Created(files', recorded', fs, recorded, lib)
    BY <1>1, <2>1, FileCreated
  <2> QED
    BY <2>2 DEF Created
<1>3. Format'
  BY <1>2 DEF Format
<1>4. EmptyFooter \in Footers /\ Tells(EmptyFooter, <<>>) /\ InStep(<<>>, EmptyFooter, <<>>)
  <2>1. Len(<<>>) = 0 /\ <<>> \in Seq(Frames)
    BY EmptySeq
  <2> QED
    BY <2>1 DEF EmptyFooter, Footers, Tells, InStep
<1>5. input \in 0 .. Len(files) /\ o # input
  BY <1>2 DEF IInv, StreamOK
<1>6. Writing'
  <2>1. Len(<<>>) = 0
    OBVIOUS
  <2> QED
    BY <1>2, <1>4, <1>5, <2>1 DEF Writing, lib
<1>7. Newer'
  <2>1. 1 .. Len(recorded'[ofile']) = {}
    <3>1. recorded'[ofile'] = <<>>
      BY <1>2
    <3>2. 1 .. Len(<<>>) = {}
      OBVIOUS
    <3> QED
      BY <3>1, <3>2, Zenon
  <2> QED
    BY <2>1, Zenon DEF Newer
<1>8. Reading'
  <2>1. CASE source = "file"
    <3>1. input \in 1 .. Len(files) /\ Placed(Place, received, files[input], recorded[input])
      BY <2>1, InputFile
    <3>2. files'[input] = files[input] /\ recorded'[input] = recorded[input]
      BY <1>2, <3>1
    <3>3. Place' = Place
      BY DEF Place
    <3>4. Placed(Place', received', files'[input], recorded'[input])
      BY <3>1, <3>2, <3>3
    <3>5. input' # 0
      BY <1>2, <3>1
    <3> QED
      BY <3>4, <3>5 DEF Reading
  <2>2. CASE source # "file"
    BY <2>2 DEF Reading
  <2> QED
    BY <2>1, <2>2
<1>9. NoFooterYet'
  BY DEF IInv, StreamOK, NoFooterYet
<1>10. StreamOK'
  <2>1. ofile' \in 0 .. Len(files') /\ input' \in 0 .. Len(files')
    BY <1>2, <1>5
  <2>2. IsOptional(pattern', AnyPattern)
    BY DEF IsOptional
  <2>3. /\ IsOptional(lastId', Nat) /\ terminate' \in BOOLEAN /\ interrupted' \in BOOLEAN
        /\ raised' \in BOOLEAN /\ asked' \in BOOLEAN
    BY DEF IInv, StreamOK, PyKept
  <2>4. /\ IsBlock(data') /\ buffered' \in BOOLEAN /\ nextId' \in Nat
        /\ recordings' \in Nat /\ received' \in Seq(Frames)
        /\ source' \in {"file", "replay"} => pos' \in Nat
    BY DEF IInv, StreamOK
  <2> QED
    BY <1>4, <2>1, <2>2, <2>3, <2>4 DEF StreamOK
<1> QED
  BY <1>3, <1>6, <1>7, <1>8, <1>9, <1>10 DEF IInv

LEMMA FinalBlockOK ==
    ASSUME IInv, NEW b, b \in {FinalBlock, FinishBlock}
    PROVE  IsBlock(b) /\ b.footer = <<footer>> /\ (b = FinishBlock => b.frame = <<>>)
<1>1. IsBlock(data) /\ footer \in Footers
  BY DEF IInv, StreamOK
<1>2. <<footer>> \in Seq(Footers) /\ Len(<<footer>>) <= 1
  BY <1>1
<1>3. PICK d \in {data, EmptyBlock} : b = [d EXCEPT !.footer = <<footer>>]
                                   /\ (b = FinishBlock => b.frame = <<>>)
  BY DEF FinalBlock, FinishBlock, EmptyBlock
<1>4. IsBlock(d)
  BY <1>1, EmptyIsBlock
<1>5. d \in Blocks /\ Len(d.frame) <= 1
  BY <1>4 DEF IsBlock
<1>6. b \in Blocks /\ b.frame = d.frame /\ b.footer = <<footer>>
  BY <1>2, <1>3, <1>5 DEF Blocks
<1> QED
  BY <1>2, <1>3, <1>5, <1>6 DEF IsBlock

(* What is on disk once the recording, if there is one, is finished. *)
LEMMA Finishes ==
    ASSUME IInv, NEW fs,
           \/ ofile # 0 /\ fs = Closed(FinishBlock)
           \/ ofile # 0 /\ fs = Closed(FinalBlock) /\ source \in {"device", "file"}
           \/ ofile = 0 /\ fs = files
    PROVE  /\ GoodFiles(fs, recorded) /\ Len(fs) = Len(files)
           /\ input \in 1 .. Len(files) => fs[input] = files[input]
<1>1. CASE ofile = 0 /\ fs = files
  BY <1>1 DEF IInv, Format
<1>2. CASE ofile # 0 /\ fs # files
  <2>1. PICK b \in {FinalBlock, FinishBlock} :
          fs = Closed(b) /\ (b = FinishBlock \/ source \in {"device", "file"})
    BY <1>2
  <2>2. IsBlock(b) /\ b.footer = <<footer>> /\ (source = "live" => b.frame = <<>>)
    BY <2>1, FinalBlockOK
  <2>3. /\ GoodFiles(fs, recorded) /\ Len(fs) = Len(files)
        /\ \A k \in 1 .. Len(files) \ {ofile} : fs[k] = files[k]
    BY <1>2, <2>1, <2>2, RecordingFinished
  <2>4. ofile # input
    BY <1>2, OutputFile
  <2> QED
    BY <2>3, <2>4
<1>3. CASE ofile # 0 /\ fs = files
  BY <1>3 DEF IInv, Format
<1> QED
  BY <1>1, <1>2, <1>3

LEMMA RecordToFileKeeps ==
    ASSUME PlainUse, IInv, RecordToFile PROVE IInv'
<1>1. recordings = 0
  <2>1. recordings \in Nat /\ recordings < MaxPerStream /\ MaxPerStream \in Nat
    BY FileAssumption DEF IInv, StreamOK, RecordToFile
  <2> QED
    BY <2>1 DEF PlainUse
<1>2. /\ source \in {"device", "file"}
      /\ files' = NewFile(IF source \in {"device", "file"} THEN "PYTHON" ELSE "CPP", files)
      /\ ofile' = Len(files) + 1 /\ recorded' = Append(recorded, <<>>)
      /\ recordings' = recordings + 1 /\ footer' = EmptyFooter /\ pattern' = <<>>
      /\ UNCHANGED <<source, data, input, pos, buffered, nextId, received>> /\ PyKept
  BY DEF RecordToFile, FooterAtStart, PatternAtStart, PyKept
<1>3. GoodFiles(files, recorded)
  BY DEF IInv, Format
<1> QED
  BY <1>1, <1>2, <1>3, RecordingStarted

LEMMA CppRecordKeeps ==
    ASSUME PlainUse, IInv, CppRecord, PyKept PROVE IInv'
<1> DEFINE fs == CppFinished
<1>1. /\ source = "live"
      /\ files' = NewFile(IF source \in {"device", "file"} THEN "PYTHON" ELSE "CPP", fs)
      /\ ofile' = Len(files) + 1 /\ recorded' = Append(recorded, <<>>)
      /\ recordings' = recordings + 1 /\ footer' = EmptyFooter /\ pattern' = <<>>
      /\ UNCHANGED <<source, data, input, pos, buffered, nextId, received>>
  BY DEF CppRecord, PlainUse
<1>2. /\ GoodFiles(fs, recorded) /\ Len(fs) = Len(files)
      /\ input \in 1 .. Len(files) => fs[input] = files[input]
  BY Finishes DEF CppFinished
<1> HIDE DEF fs
<1> QED
  BY <1>1, <1>2, RecordingStarted

(* A recording is stopped, and the stream goes on. *)
LEMMA StopRecordingKeeps ==
    ASSUME PlainUse, IInv, StopRecording \/ (PyKept /\ CppStopRecording) PROVE IInv'
<1>1. /\ ofile # 0 /\ ofile' = 0
      /\ UNCHANGED <<source, footer, pattern, input, pos, buffered, nextId, recorded,
                     received, recordings>>
      /\ PyKept
      /\ IsBlock(data') /\ (data' = data \/ data'.footer = <<footer>>)
      /\ buffered /\ source = "file" => data.footer # <<>>
      /\ source \in {"device", "file", "live"}
  <2>1. CASE StopRecording
    <3>1. buffered => data.footer # <<>>
      BY <2>1 DEF StopRecording, PlainUse, AtEnd, Ahead
    <3>2. data' = FinalBlock /\ IsBlock(FinalBlock) /\ FinalBlock.footer = <<footer>>
      BY <2>1, FinalBlockOK DEF StopRecording
    <3> QED
      BY <2>1, <3>1, <3>2 DEF StopRecording, PyKept
  <2>2. CASE PyKept /\ CppStopRecording
    BY <2>2 DEF CppStopRecording, IInv, StreamOK, Writing
  <2> QED
    BY <2>1, <2>2
<1>2. /\ GoodFiles(files', recorded) /\ Len(files') = Len(files)
      /\ input \in 1 .. Len(files) => files'[input] = files[input]
  BY <1>1, Finishes DEF StopRecording, CppStopRecording, CppFinished
<1>3. Format' /\ Writing' /\ Newer'
  BY <1>1, <1>2 DEF Format, Writing, Newer
<1>4. Reading'
  <2>1. CASE source = "file"
    <3>1. /\ input \in 1 .. Len(files) /\ Placed(Place, received, files[input], recorded[input])
          /\ buffered \in BOOLEAN
      BY <2>1, InputFile
    <3>2. files'[input] = files[input]
      BY <1>2, <3>1
    <3>3. <<footer>> # <<>>
      OBVIOUS
    <3>4. Placed(Place', received', files'[input], recorded'[input])
      <4>1. /\ Place'.pos = pos /\ Place'.buffered = buffered /\ Place'.data = data'
            /\ Place.pos = pos /\ Place.buffered = buffered /\ Place.data = data
        BY <1>1 DEF Place
      <4>2. /\ received' = received /\ recorded' = recorded /\ input' = input
        BY <1>1
      <4>3. CASE data' = data
        BY <3>1, <3>2, <4>1, <4>2, <4>3 DEF Placed
      <4>4. CASE data'.footer = <<footer>>
        <5>1. buffered => data'.footer # <<>> /\ data.footer # <<>>
          BY <1>1, <2>1, <3>3, <4>4
        <5> QED
          BY <3>1, <3>2, <4>1, <4>2, <5>1 DEF Placed
      <4> QED
        BY <1>1, <4>3, <4>4
    <3> QED
      BY <1>1, <3>1, <3>4 DEF Reading
  <2>2. CASE source # "file"
    BY <1>1, <2>2 DEF Reading
  <2> QED
    BY <2>1, <2>2
<1>5. NoFooterYet'
  BY <1>1 DEF IInv, NoFooterYet
<1>6. StreamOK'
  <2>1. Len(files) \in Nat
    BY LenProperties DEF IInv, Format, GoodFiles
  <2>2. ofile' \in 0 .. Len(files') /\ input' \in 0 .. Len(files')
    BY <1>1, <1>2, <2>1 DEF IInv, StreamOK
  <2> QED
    BY <1>1, <2>2 DEF IInv, StreamOK, PyKept
<1> QED
  BY <1>3, <1>4, <1>5, <1>6 DEF IInv

(* The process is killed, or stops the stream. *)
LEMMA KilledKeeps ==
    ASSUME IInv, Killed PROVE Format'
<1> DEFINE f == files[ofile]
<1>1. /\ ofile \in 1 .. Len(files) /\ ~f.complete /\ GoodFiles(files, recorded)
      /\ f \in Files /\ files \in Seq(Files)
  BY OutputFile DEF Killed, GoodFiles, Unfinished
<1>2. f.blocks \in Seq(Blocks) /\ Len(f.blocks) \in Nat
      /\ \A n \in 0 .. Len(f.blocks) : SubSeq(f.blocks, 1, n) \in Seq(Blocks)
  <2>1. f.blocks \in Seq(Blocks)
    BY <1>1 DEF Files
  <2> DEFINE bs == f.blocks
  <2> HIDE DEF bs
  <2>2. bs \in Seq(Blocks) /\ Len(bs) \in Nat
    BY <2>1, LenProperties DEF bs
  <2>3. \A i \in 1 .. Len(bs) : bs[i] \in Blocks
    BY <2>2, ElementOfSeq
  <2>4. \A n \in 0 .. Len(bs) : SubSeq(bs, 1, n) \in Seq(Blocks)
    BY <2>2, <2>3
  <2> QED
    BY <2>2, <2>4 DEF bs
<1>3. PICK n \in 0 .. Len(f.blocks), g \in Files :
        ~g.complete /\ g.blocks = SubSeq(f.blocks, 1, n) /\ files' = [files EXCEPT ![ofile] = g]
  <2>1. ASSUME NEW n \in 0 .. Len(f.blocks), NEW torn \in Tears,
               files' = [files EXCEPT ![ofile].blocks = SubSeq(@, 1, n), ![ofile].torn = torn]
        PROVE  \E g \in Files : /\ ~g.complete /\ g.blocks = SubSeq(f.blocks, 1, n)
                               /\ files' = [files EXCEPT ![ofile] = g]
    <3> DEFINE g == [f EXCEPT !.blocks = SubSeq(@, 1, n), !.torn = torn]
    <3>1. g \in Files /\ ~g.complete /\ g.blocks = SubSeq(f.blocks, 1, n)
      BY <1>1, <1>2 DEF Files
    <3>2. files \in [1 .. Len(files) -> Files]
      BY <1>1, LenProperties
    <3>3. files' = [files EXCEPT ![ofile] = g]
      BY <1>1, <2>1, <3>2
    <3> HIDE DEF g
    <3> QED
      BY <3>1, <3>3
  <2>2. ASSUME files' = [files EXCEPT ![ofile].header = "torn", ![ofile].blocks = <<>>]
        PROVE  \E g \in Files : /\ ~g.complete /\ g.blocks = SubSeq(f.blocks, 1, 0)
                               /\ files' = [files EXCEPT ![ofile] = g]
    <3> DEFINE g == [f EXCEPT !.header = "torn", !.blocks = <<>>]
    <3>1. SubSeq(f.blocks, 1, 0) = <<>>
      BY SubSeqEmpty
    <3>2. <<>> \in Seq(Blocks)
      OBVIOUS
    <3>3. g \in Files /\ ~g.complete /\ g.blocks = <<>>
      BY <1>1, <3>2 DEF Files
    <3>4. files \in [1 .. Len(files) -> Files]
      BY <1>1, LenProperties
    <3>5. files' = [files EXCEPT ![ofile] = g]
      BY <1>1, <2>2, <3>4
    <3> HIDE DEF g
    <3> QED
      BY <3>1, <3>3, <3>5
  <2>3. 0 \in 0 .. Len(f.blocks)
    BY <1>2
  <2> QED
    BY <2>1, <2>2, <2>3 DEF Killed
<1>4. GoodFiles(files', recorded)
  BY <1>1, <1>3, FileCut
<1> QED
  BY <1>4 DEF Format, Killed, NoStream

LEMMA EndsKeep ==
    ASSUME IInv, Stop \/ Crash \/ (PyKept /\ CppDestroy) PROVE IInv'
<1>1. <<>> \in Seq(Nat) /\ Len(<<>>) <= 1
  OBVIOUS
<1>2. /\ NoStream /\ IsOptional(lastId', Nat) /\ terminate' \in BOOLEAN
      /\ interrupted' \in BOOLEAN /\ raised' \in BOOLEAN /\ asked' \in BOOLEAN
  BY <1>1 DEF Stop, Crash, Killed, CppDestroy, PyKept, IInv, StreamOK, IsOptional
<1>3. Format'
  <2>1. CASE Crash
    BY <2>1, KilledKeeps DEF Crash
  <2>2. CASE Stop \/ CppDestroy
    <3>1. GoodFiles(files', recorded)
      BY <2>2, Finishes DEF Stop, CppDestroy, CppFinished
    <3> QED
      BY <1>2, <3>1 DEF Format, NoStream
  <2> QED
    BY <2>1, <2>2
<1> QED
  BY <1>2, <1>3, StreamGone

LEMMA NothingKeeps ==
    ASSUME IInv, UNCHANGED fileVars, lastId' = lastId, raised' = raised, asked' = asked,
           terminate' \in BOOLEAN, interrupted' \in BOOLEAN
    PROVE  IInv'
<1>1. StreamOK'
  BY DEF fileVars, streamVars, IInv, StreamOK
<1>2. Format' /\ Writing' /\ Newer' /\ NoFooterYet'
  BY DEF fileVars, streamVars, IInv, Format, Writing, Newer, NoFooterYet
<1>3. Reading'
  BY DEF fileVars, streamVars, IInv, Reading, Place
<1> QED
  BY <1>1, <1>2, <1>3 DEF IInv
-----------------------------------------------------------------------------
LEMMA InvStart ==
    Init => IInv
<1> SUFFICES ASSUME Init PROVE IInv
  OBVIOUS
<1> USE DEF Init, FilesInit
<1>1. <<>> \in Seq(Nat) /\ <<>> \in Seq(AnyPattern) /\ <<>> \in Seq(Frames) /\ Len(<<>>) = 0
      /\ <<>> \in Seq(Files) /\ <<>> \in Seq(Seq(Frames))
  OBVIOUS
<1>2. EmptyFooter \in Footers
  BY <1>1 DEF EmptyFooter, Footers
<1>3. StreamOK
  <2>1. IsOptional(pattern, AnyPattern) /\ IsOptional(lastId, Nat) /\ received \in Seq(Frames)
    BY <1>1 DEF IsOptional
  <2>2. IsBlock(data) /\ footer \in Footers
    BY <1>2, EmptyIsBlock
  <2>3. ofile \in 0 .. Len(files) /\ input \in 0 .. Len(files)
    BY <1>1
  <2>4. /\ source = "none" /\ buffered \in BOOLEAN /\ nextId \in Nat /\ recordings \in Nat
        /\ pos \in Nat /\ terminate \in BOOLEAN /\ interrupted \in BOOLEAN
        /\ raised \in BOOLEAN /\ asked \in BOOLEAN
    BY FileAssumption
  <2> QED
    BY <2>1, <2>2, <2>3, <2>4 DEF StreamOK
<1>4. Format
  BY <1>1 DEF Format, GoodFiles
<1>5. Writing /\ Newer /\ Reading /\ NoFooterYet
  BY DEF Writing, Newer, Reading, NoFooterYet
<1> QED
  BY <1>3, <1>4, <1>5 DEF IInv

LEMMA InvStep ==
    ASSUME PlainUse PROVE IInv /\ [BothNext]_vars => IInv'
<1> SUFFICES ASSUME IInv, [BothNext]_vars PROVE IInv'
  OBVIOUS
<1>1. CASE OpenDevice \/ \E k \in DOMAIN files : OpenFile(k)
  BY <1>1, OpensKeeps DEF Opens
<1>2. ASSUME NEW fail \in Flags, RecvFromDevice(fail) \/ RecvFromFile(fail) PROVE IInv'
  BY <1>2, RecvFromDeviceKeeps, RecvFromFileKeeps
<1>3. CASE EndOfStream
  <2>1. Looks
    BY <1>3 DEF Looks
  <2> QED
    BY <2>1, LooksKeeps
<1>4. CASE RecordToFile
  BY <1>4, RecordToFileKeeps
<1>5. CASE StopRecording
  <2>1. StopRecording \/ (PyKept /\ CppStopRecording)
    BY <1>5
  <2> QED
    BY <2>1, StopRecordingKeeps, Zenon
<1>6. CASE Stop \/ Crash
  <2>1. Stop \/ Crash \/ (PyKept /\ CppDestroy)
    BY <1>6
  <2> QED
    BY <2>1, EndsKeep, Zenon
<1>7. CASE Interrupt
  <2>1. /\ UNCHANGED fileVars /\ lastId' = lastId /\ raised' = raised /\ asked' = asked
        /\ terminate' \in BOOLEAN /\ interrupted' \in BOOLEAN
    BY <1>7 DEF Interrupt
  <2> QED
    BY <2>1, NothingKeeps
<1>8. CASE CppNext /\ PyKept
  <2>1. CASE CppOpenDevice \/ \E k \in DOMAIN files : CppOpenFile(k)
    BY <1>8, <2>1, OpensKeeps DEF Opens
  <2>2. CASE CppRecvLive
    BY <1>8, <2>2, CppRecvLiveKeeps
  <2>3. CASE CppRecvReplay
    BY <1>8, <2>3, CppRecvReplayKeeps
  <2>4. CASE CppEndOfStream \/ CppJump
    BY <1>8, <2>4, LooksKeeps DEF Looks
  <2>5. CASE CppRecord
    BY <1>8, <2>5, CppRecordKeeps
  <2>6. CASE CppStopRecording
    BY <1>8, <2>6, StopRecordingKeeps
  <2>7. CASE CppDestroy
    BY <1>8, <2>7, EndsKeep
  <2> QED
    BY <1>8, <2>1, <2>2, <2>3, <2>4, <2>5, <2>6, <2>7 DEF CppNext
<1>9. CASE UNCHANGED vars
  <2>1. UNCHANGED fileVars /\ lastId' = lastId /\ raised' = raised /\ asked' = asked
        /\ terminate' \in BOOLEAN /\ interrupted' \in BOOLEAN
    BY <1>9 DEF vars, IInv, StreamOK
  <2> QED
    BY <2>1, NothingKeeps
<1>10. \/ Next \/ (CppNext /\ PyKept) \/ UNCHANGED vars
  <2>1. BothNext => Next \/ (CppNext /\ PyKept)
    BY Zenon DEF BothNext, PyKept
  <2> QED
    BY <2>1
<1>11. CASE Next
  BY <1>1, <1>2, <1>3, <1>4, <1>5, <1>6, <1>7, <1>11 DEF Next
<1> QED
  BY <1>8, <1>9, <1>10, <1>11

THEOREM InvAlways ==
    ASSUME PlainUse PROVE BothSpec => []IInv
<1>1. PlainUse
  OBVIOUS
<1>2. Init => IInv
  BY InvStart
<1>3. IInv /\ [BothNext]_vars => IInv'
  BY <1>1, InvStep
<1> QED
  BY <1>2, <1>3, PTL DEF BothSpec

-----------------------------------------------------------------------------
LEMMA InvType == IInv => TypeOK
<1> SUFFICES ASSUME IInv PROVE TypeOK
  OBVIOUS
<1>1. source \in {"file", "replay"} => input # 0 /\ pos \in 0 .. Readable(files[input])
  <2> SUFFICES ASSUME source \in {"file", "replay"}
               PROVE  input # 0 /\ pos \in 0 .. Readable(files[input])
    OBVIOUS
  <2>1. /\ input \in 1 .. Len(files) /\ pos \in Nat /\ FileOK(files[input], recorded[input])
        /\ \/ Placed(Place, received, files[input], recorded[input])
           \/ Astray(Place, received, files[input], recorded[input])
    BY InputFile
  <2>2. Len(files[input].blocks) \in Nat
    BY <2>1, LenProperties DEF FileOK, Files
  <2>4. pos <= Readable(files[input]) /\ Readable(files[input]) \in Nat
    <3>1. CASE Placed(Place, received, files[input], recorded[input])
      <4>1. pos <= Len(files[input].blocks)
        BY <3>1 DEF Placed, Place
      <4>2. Readable(files[input]) \in {Len(files[input].blocks), Len(files[input].blocks) + 1}
        <5>1. CASE files[input].torn = "no"
          BY <2>2, <5>1 DEF Readable
        <5>2. CASE files[input].torn # "no"
          BY <2>2, <5>2 DEF Readable
        <5> QED
          BY <5>1, <5>2
      <4> QED
        BY <2>1, <2>2, <4>1, <4>2
    <3>2. CASE Astray(Place, received, files[input], recorded[input])
      BY <2>1, <2>2, <3>2 DEF Astray, Place, Readable
    <3> QED
      BY <2>1, <3>1, <3>2
  <2>3. input # 0
    BY DEF IInv, Reading
  <2> QED
    BY <2>1, <2>3, <2>4
<1>2. \A k \in DOMAIN files : \A i \in DOMAIN files[k].blocks : IsBlock(files[k].blocks[i])
  <2> TAKE k \in DOMAIN files
  <2>1. k \in 1 .. Len(files) /\ GoodFiles(files, recorded)
    BY LenProperties DEF IInv, Format, GoodFiles
  <2>2. /\ files[k].blocks \in Seq(Blocks)
        /\ \A i \in 1 .. Len(files[k].blocks) : IsBlock(files[k].blocks[i])
    BY <2>1, OneFile
  <2> QED
    BY <2>2, LenProperties
<1>3. files \in Seq(Files) /\ recorded \in Seq(Seq(Frames))
  BY DEF IInv, Format, GoodFiles
<1> QED
  BY <1>1, <1>2, <1>3 DEF IInv, StreamOK, TypeOK, FilesOK

LEMMA InvFormat == IInv => FileFormat
<1>0. ASSUME IInv, NEW k \in DOMAIN files PROVE files[k].complete => files[k].torn = "no"
  <2>1. k \in 1 .. Len(files) /\ GoodFiles(files, recorded)
    BY <1>0, LenProperties DEF IInv, Format, GoodFiles
  <2> QED
    BY <2>1, OneFile DEF GoodFile
<1> SUFFICES ASSUME IInv, NEW k \in DOMAIN files, NEW i \in DOMAIN files[k].blocks
             PROVE  IF files[k].complete /\ i = Len(files[k].blocks)
                    THEN /\ Len(files[k].blocks[i].footer) = 1
                         /\ files[k].header = "CPP" => files[k].blocks[i].frame = <<>>
                    ELSE /\ files[k].blocks[i].footer = <<>>
                         /\ files[k].blocks[i].frame = <<recorded[k][i]>>
  BY <1>0 DEF FileFormat
<1> DEFINE bs == files[k].blocks
           rec == recorded[k]
<1>1. k \in 1 .. Len(files) /\ GoodFiles(files, recorded)
  BY LenProperties DEF IInv, Format, GoodFiles
<1>2. bs \in Seq(Blocks) /\ GoodFile(files[k], rec) /\ Len(bs) \in Nat /\ Len(rec) \in Nat
  BY <1>1, OneFile
<1>3. i \in 1 .. Len(bs)
  BY <1>2, LenProperties
<1>4. CASE files[k].complete /\ i = Len(bs)
  BY <1>2, <1>4 DEF GoodFile
<1>5. CASE files[k].complete /\ i # Len(bs)
  <2>1. i \in 1 .. Len(rec)
    BY <1>2, <1>3, <1>5 DEF GoodFile
  <2>2. FrameBlock(bs[i], rec[i])
    BY <1>2, <1>5, <2>1 DEF GoodFile
  <2> QED
    BY <1>5, <2>2 DEF FrameBlock
<1>6. CASE ~files[k].complete
  <2>1. FrameBlock(bs[i], rec[i])
    BY <1>2, <1>3, <1>6 DEF GoodFile
  <2> QED
    BY <1>6, <2>1 DEF FrameBlock
<1> QED
  BY <1>4, <1>5, <1>6

LEMMA InvReadBack == IInv => ReadBack
<1> SUFFICES ASSUME IInv, source \in {"file", "replay"} PROVE ReadBack
  BY DEF ReadBack
<1> DEFINE f == files[input]
           rec == recorded[input]
           n == Len(received)
           kept == IF f.complete THEN Len(rec) ELSE Len(f.blocks)
<1>1. /\ FileOK(f, rec) /\ DOMAIN received = 1 .. n /\ n \in Nat
      /\ Len(rec) \in Nat /\ Len(f.blocks) \in Nat
      /\ buffered \in BOOLEAN /\ pos \in Nat
      /\ \/ Placed(Place, received, f, rec)
         \/ source = "replay" /\ Astray(Place, received, f, rec)
  BY InputFile, LenProperties DEF FileOK, Files
<1>2. /\ f.complete => Len(f.blocks) = Len(rec) + 1 /\ f.torn = "no"
      /\ ~f.complete => Len(f.blocks) <= Len(rec)
  BY <1>1 DEF FileOK, GoodFile
<1>3. kept <= Len(rec) /\ kept \in Nat
  BY <1>1, <1>2
<1>4. CASE Placed(Place, received, f, rec)
  <2>1. /\ n <= Len(rec) /\ \A i \in 1 .. n : received[i] = rec[i]
        /\ pos = (IF buffered THEN n + 1 ELSE n) /\ pos <= Len(f.blocks)
    BY <1>4 DEF Placed, Place
  <2>2. n <= kept
    BY <1>1, <1>2, <2>1
  <2>3. ASSUME NEW i \in DOMAIN received PROVE i <= kept /\ received[i] = rec[i]
    <3>1. i \in 1 .. n
      BY <1>1
    <3>2. \A a, b \in Nat : \A j \in 1 .. a : a <= b => j <= b
      OBVIOUS
    <3> HIDE DEF n, kept, rec
    <3> QED
      BY <1>1, <1>3, <2>1, <2>2, <3>1, <3>2, Zenon
  <2>4. ASSUME AtEnd(Ahead) PROVE n >= kept
    <3>1. Placed(Ahead, received, f, rec) /\ Ahead.buffered \in BOOLEAN
      BY <1>4, LooksAhead
    <3>2. CASE Ahead.buffered
      <4>1. Ahead.data.footer # <<>>
        BY <2>4, <3>2 DEF AtEnd
      <4>2. f.complete /\ Ahead.pos = n + 1 /\ Ahead.pos = Len(f.blocks)
        BY <3>1, <3>2, <4>1 DEF Placed
      <4> QED
        BY <1>1, <1>2, <4>2
    <3>3. CASE ~Ahead.buffered
      <4>1. ~buffered
        BY <3>3 DEF Ahead
      <4>2. pos >= Len(f.blocks)
        BY <1>1, <3>3, <4>1 DEF Ahead, ReadStream
      <4> QED
        BY <1>1, <1>2, <2>1, <4>1, <4>2
    <3> QED
      BY <3>1, <3>2, <3>3
  <2> QED
    BY <1>3, <2>3, <2>4 DEF ReadBack
<1>5. CASE source = "replay" /\ Astray(Place, received, f, rec)
  <2>1. /\ f.torn # "no" /\ Len(f.blocks) <= n
        /\ \A i \in 1 .. Len(f.blocks) : received[i] = rec[i]
        /\ n = Len(f.blocks) \/ (n = Len(f.blocks) + 1 /\ f.torn = "boundary")
    BY <1>5 DEF Astray
  <2>2. kept = Len(f.blocks)
    BY <1>2, <2>1
  <2>3. ASSUME NEW i \in DOMAIN received
        PROVE  IF i <= kept THEN received[i] = rec[i]
               ELSE i = kept + 1 /\ source = "replay" /\ f.torn = "boundary"
    <3>1. i \in 1 .. n /\ i \in Nat
      BY <1>1
    <3>2. i <= kept => i \in 1 .. Len(f.blocks)
      BY <1>1, <2>2, <3>1
    <3>3. ~(i <= kept) => i = kept + 1 /\ n = Len(f.blocks) + 1
      <4> DEFINE m == Len(f.blocks)
      <4>1. m \in Nat /\ n \in Nat /\ (n = m \/ n = m + 1) /\ kept = m
        BY <1>1, <2>1, <2>2
      <4> HIDE DEF m, n, kept
      <4>2. ~(i <= kept) => i = kept + 1 /\ n = m + 1
        BY <3>1, <4>1
      <4> QED
        BY <4>2 DEF m
    <3> HIDE DEF n, kept, rec, f
    <3>4. n = Len(f.blocks) + 1 => f.torn = "boundary"
      BY <1>1, <2>1
    <3> QED
      BY <1>5, <2>1, <3>2, <3>3, <3>4
  <2> QED
    BY <1>3, <2>1, <2>2, <2>3 DEF ReadBack
<1> QED
  BY <1>1, <1>4, <1>5

(* The event that PatternOf chooses is the latest. *)
LEMMA LatestIsChosen ==
    ASSUME NEW events \in Seq(Frames), NEW f, NEW e \in 1 .. Len(events), Latest(events, f, e)
    PROVE  PatternOf(f, events) = events[e].pattern
<1> DEFINE Chosen(i) == /\ events[i].id <= f.id
                       /\ \A j \in DOMAIN events : events[j].id <= f.id => j <= i
           c == CHOOSE i \in DOMAIN events : Chosen(i)
<1>1. DOMAIN events = 1 .. Len(events) /\ Len(events) \in Nat
  BY LenProperties
<1>2. e \in DOMAIN events /\ Chosen(e)
  BY <1>1 DEF Latest
<1>3. c \in DOMAIN events /\ Chosen(c)
  BY <1>2
<1>4. c <= e /\ e <= c
  BY <1>2, <1>3
<1>5. c = e
  BY <1>1, <1>2, <1>3, <1>4
<1>6. PatternOf(f, events) = events[c].pattern
  BY DEF PatternOf
<1> QED
  BY <1>5, <1>6

LEMMA InvFooter == IInv => FooterDescribes
<1> SUFFICES ASSUME IInv, NEW k \in DOMAIN files, files[k].complete
             PROVE  LET last == LastBlock(files[k]).footer[1] IN
                    /\ last.frames = Len(recorded[k])
                    /\ \A i \in DOMAIN recorded[k] :
                         /\ \E e \in DOMAIN last.events : last.events[e].id <= recorded[k][i].id
                         /\ PatternOf(recorded[k][i], last.events) = recorded[k][i].pattern
  BY DEF FooterDescribes
<1> DEFINE bs == files[k].blocks
           rec == recorded[k]
           last == bs[Len(bs)].footer[1]
<1>1. k \in 1 .. Len(files) /\ GoodFiles(files, recorded)
  BY LenProperties DEF IInv, Format, GoodFiles
<1>2. /\ bs \in Seq(Blocks) /\ GoodFile(files[k], rec) /\ Len(bs) \in Nat /\ Len(rec) \in Nat
      /\ rec \in Seq(Frames) /\ FileOK(files[k], rec)
  BY <1>1, OneFile DEF GoodFiles
<1>3. Tells(last, rec) /\ Len(bs) = Len(rec) + 1
  BY <1>2 DEF GoodFile
<1>4. LastBlock(files[k]) = bs[Len(bs)]
  <2>1. bs # <<>>
    BY <1>2, <1>3
  <2> QED
    BY <2>1 DEF LastBlock
<1>5. last \in Footers
  <2>1. Len(bs[Len(bs)].footer) = 1
    BY <1>2 DEF GoodFile
  <2>2. \A s : Len(s) = 1 => s # <<>>
    OBVIOUS
  <2>3. bs[Len(bs)].footer # <<>>
    BY <2>1, <2>2, Zenon
  <2> QED
    BY <1>2, <1>4, <2>3, LastBlockOK
<1>6. last.events \in Seq(Frames)
  BY <1>5 DEF Footers
<1> HIDE DEF last
<1>7. ASSUME NEW i \in DOMAIN rec
      PROVE  /\ \E e \in DOMAIN last.events : last.events[e].id <= rec[i].id
             /\ PatternOf(rec[i], last.events) = rec[i].pattern
  <2>1. i \in 1 .. Len(rec)
    BY <1>2, LenProperties
  <2>2. PICK e \in 1 .. Len(last.events) :
          Latest(last.events, rec[i], e) /\ last.events[e].pattern = rec[i].pattern
    BY <1>3, <2>1 DEF Tells
  <2>3. e \in DOMAIN last.events
    BY <1>6, <2>2, LenProperties
  <2>4. last.events[e].id <= rec[i].id
    BY <2>2 DEF Latest
  <2>5. PatternOf(rec[i], last.events) = last.events[e].pattern
    BY <1>6, <2>2, LatestIsChosen
  <2> QED
    BY <2>2, <2>3, <2>4, <2>5
<1> QED
  BY <1>3, <1>4, <1>7 DEF last, Tells

(* The variables have their types, and a stream is inside the file it      *)
(* reads.                                                                  *)
THEOREM TypesCorrect ==
    ASSUME PlainUse PROVE BothSpec => []TypeOK
BY InvAlways, InvType, PTL

(* Every file has the documented format, whichever library wrote it; if    *)
(* the process that wrote it was killed, in its whole blocks.              *)
THEOREM FormatIsKept ==
    ASSUME PlainUse PROVE BothSpec => []FileFormat
BY InvAlways, InvFormat, PTL

(* Reading yields the frames that were recorded, in either library: of a   *)
(* file whose writer was killed, those whose blocks are whole, to which    *)
(* the C++ library may add one frame from a block torn at the boundary of  *)
(* a field.                                                                *)
THEOREM RecordingsReadBack ==
    ASSUME PlainUse PROVE BothSpec => []ReadBack
BY InvAlways, InvReadBack, PTL

(* The footer of a finished recording tells the number of its frames and   *)
(* the scan pattern of each.                                               *)
THEOREM FooterIsRight ==
    ASSUME PlainUse PROVE BothSpec => []FooterDescribes
BY InvAlways, InvFooter, PTL

-----------------------------------------------------------------------------
(* Lost frames.  The id that is remembered is that of the latest frame; an *)
(* id 0 would count as none.                                               *)
IdsOK(seq) == \A i \in 1 .. Len(seq) : seq[i].id >= FirstId
Remembered ==
    /\ asked /\ source \in {"device", "file"} /\ received # <<>> =>
           lastId = <<received[Len(received)].id>>
    /\ nextId >= FirstId /\ (source # "replay" => IdsOK(received))
    /\ \A k \in 1 .. Len(recorded) : IdsOK(recorded[k])

LEMMA IdsAppended ==
    ASSUME NEW seq \in Seq(Frames), IdsOK(seq), NEW f \in Frames, f.id >= FirstId
    PROVE  IdsOK(Append(seq, f))
<1> DEFINE new == Append(seq, f)
<1>1. /\ Len(new) = Len(seq) + 1 /\ new[Len(seq) + 1] = f /\ Len(seq) \in Nat
      /\ \A i \in 1 .. Len(seq) : new[i] = seq[i]
  BY Appended
<1> HIDE DEF new
<1>2. ASSUME NEW i \in 1 .. Len(new) PROVE new[i].id >= FirstId
  <2>1. i = Len(seq) + 1 \/ i \in 1 .. Len(seq)
    BY <1>1
  <2> QED
    BY <1>1, <2>1 DEF IdsOK
<1> QED
  BY <1>2 DEF IdsOK, new

LEMMA IdsRecorded ==
    ASSUME IInv, Remembered, NEW f \in Frames, f.id >= FirstId, ofile # 0,
           recorded' = [recorded EXCEPT ![ofile] = Append(@, f)]
    PROVE  \A k \in 1 .. Len(recorded') : IdsOK(recorded'[k])
<1> DEFINE new == Append(recorded[ofile], f)
<1>1. /\ ofile \in 1 .. Len(recorded) /\ recorded \in Seq(Seq(Frames))
      /\ recorded[ofile] \in Seq(Frames)
  BY OutputFile DEF GoodFiles
<1>2. IdsOK(recorded[ofile])
  BY <1>1 DEF Remembered
<1>3. new \in Seq(Frames) /\ IdsOK(new)
  BY <1>1, <1>2, Appended, IdsAppended
<1> HIDE DEF new
<1>4. recorded' = [recorded EXCEPT ![ofile] = new]
  BY DEF new
<1>5. Replaces([recorded EXCEPT ![ofile] = new], Seq(Frames), recorded, ofile, new)
  BY <1>1, <1>3, Replaced, Zenon
<1>6. Replaces(recorded', Seq(Frames), recorded, ofile, new)
  BY <1>4, <1>5
<1>7. ASSUME NEW k \in 1 .. Len(recorded') PROVE IdsOK(recorded'[k])
  <2>1. CASE k = ofile
    BY <1>3, <1>6, <2>1 DEF Replaces
  <2>2. CASE k # ofile
    <3>1. recorded'[k] = recorded[k] /\ k \in 1 .. Len(recorded)
      BY <1>6, <2>2 DEF Replaces
    <3> QED
      BY <3>1 DEF Remembered
  <2> QED
    BY <2>1, <2>2
<1> QED
  BY <1>7

(* A frame is received. *)
LEMMA IdsReceived ==
    ASSUME IInv, Remembered, NEW f \in Frames, f.id >= FirstId, source # "replay",
           received' = Append(received, f),
           \/ recorded' = recorded
           \/ ofile # 0 /\ recorded' = [recorded EXCEPT ![ofile] = Append(@, f)]
    PROVE  /\ IdsOK(received') /\ \A k \in 1 .. Len(recorded') : IdsOK(recorded'[k])
           /\ received # <<>> => received \in Seq(Frames) /\ Len(received) \in 1 .. Len(received)
           /\ Len(received') = Len(received) + 1
           /\ received'[Len(received')] = f
<1>1. received \in Seq(Frames)
  BY DEF IInv, StreamOK
<1>2. IdsOK(received')
  BY <1>1, IdsAppended DEF Remembered
<1>3. \A k \in 1 .. Len(recorded') : IdsOK(recorded'[k])
  BY IdsRecorded DEF Remembered
<1>4. Len(received') = Len(received) + 1 /\ received'[Len(received')] = f
  BY <1>1, Appended
<1>5. received # <<>> => Len(received) \in 1 .. Len(received)
  BY <1>1, LenProperties, EmptySeq
<1> QED
  BY <1>1, <1>2, <1>3, <1>4, <1>5

LEMMA DeliverRemembers ==
    ASSUME IInv, Remembered, NEW f \in Frames, f.id >= FirstId, NEW fail \in Flags, NEW blk,
           Deliver(f, blk, fail), source \in {"device", "file"}, source' = source,
           nextId' >= FirstId
    PROVE  /\ Remembered'
           /\ FirstId > 0 /\ asked' /\ received # <<>> =>
                (raised' <=> f.id # received[Len(received)].id + 1)
           /\ asked' /\ received # <<>> /\ raised' => f.id # received[Len(received)].id + 1
           /\ received'[Len(received')] = f
<1>1. /\ received' = Append(received, f)
      /\ \/ recorded' = recorded
         \/ ofile # 0 /\ recorded' = [recorded EXCEPT ![ofile] = Append(@, f)]
  BY DEF Deliver, Save
<1>2. /\ IdsOK(received') /\ \A k \in 1 .. Len(recorded') : IdsOK(recorded'[k])
      /\ received # <<>> => received \in Seq(Frames) /\ Len(received) \in 1 .. Len(received)
      /\ received'[Len(received')] = f
  BY <1>1, IdsReceived
<1>3. asked' => asked /\ lastId' = <<f.id>> /\ raised' = Lost(f)
  <2>1. asked' => asked /\ fail
    BY DEF Deliver
  <2>2. fail \in BOOLEAN
    BY PyAssumption
  <2>3. fail => lastId' = <<f.id>> /\ raised' = Lost(f)
    BY <2>2 DEF Deliver, Lost
  <2> QED
    BY <2>1, <2>3
<1>4. Remembered'
  BY <1>2, <1>3 DEF Remembered
<1>5. ASSUME asked', received # <<>>
      PROVE  /\ raised' => f.id # received[Len(received)].id + 1
             /\ FirstId > 0 => (raised' <=> f.id # received[Len(received)].id + 1)
  <2> DEFINE l == received[Len(received)]
  <2>1. lastId = <<l.id>> /\ raised' = Lost(f)
    BY <1>3, <1>5 DEF Remembered
  <2>2. l \in Frames /\ l.id >= FirstId
    BY <1>2, <1>5, ElementOfSeq DEF Remembered, IdsOK
  <2>3. l.id \in Nat /\ f.id \in Nat
    BY <2>2 DEF Frames
  <2> HIDE DEF l
  <2>4. Lost(f) <=> l.id # 0 /\ l.id + 1 # f.id
    BY <2>1, <2>3 DEF Lost
  <2>5. FirstId > 0 => l.id # 0
    BY <2>2, <2>3, FileAssumption
  <2> QED
    BY <2>1, <2>4, <2>5 DEF l
<1> QED
  BY <1>2, <1>4, <1>5

(* No frame is received. *)
LEMMA QuietRemembers ==
    ASSUME IInv, Remembered, nextId' = nextId,
           recorded' = recorded \/ recorded' = Append(recorded, <<>>),
           \/ received' = <<>>
           \/ /\ received' = received /\ source' = source
              /\ lastId' = lastId /\ asked' = asked
    PROVE  Remembered' /\ ~Receives
<1>1. IdsOK(<<>>) /\ Len(<<>>) = 0 /\ <<>> \in Seq(Frames)
  BY EmptySeq DEF IdsOK
<1>2. received \in Seq(Frames) /\ Len(received) \in Nat
  BY LenProperties DEF IInv, StreamOK
<1>3. source' # "replay" => IdsOK(received')
  BY <1>1 DEF Remembered
<1>4. ASSUME NEW k \in 1 .. Len(recorded') PROVE IdsOK(recorded'[k])
  <2>1. CASE recorded' = recorded
    BY <2>1 DEF Remembered
  <2>2. CASE recorded' = Append(recorded, <<>>)
    <3>1. recorded \in Seq(Seq(Frames))
      BY DEF IInv, Format, GoodFiles
    <3>2. /\ Len(recorded') = Len(recorded) + 1 /\ recorded'[Len(recorded) + 1] = <<>>
          /\ \A j \in 1 .. Len(recorded) : recorded'[j] = recorded[j]
          /\ Len(recorded) \in Nat
      BY <1>1, <2>2, <3>1, Appended
    <3>3. k = Len(recorded) + 1 \/ k \in 1 .. Len(recorded)
      BY <3>2
    <3> QED
      BY <1>1, <3>2, <3>3 DEF Remembered
  <2> QED
    BY <2>1, <2>2
<1>5. Remembered'
  BY <1>3, <1>4 DEF Remembered
<1>6. ~Receives
  <2>1. Len(received') # Len(received) + 1
    BY <1>1, <1>2
  <2> QED
    BY <2>1 DEF Receives
<1> QED
  BY <1>5, <1>6

LEMMA CppRemembers ==
    ASSUME IInv, Remembered, CppRecvLive \/ CppRecvReplay, PyKept
    PROVE  Remembered' /\ ~Receives
<1>1. source \in {"live", "replay"} /\ source' = source
  BY DEF CppRecvLive, CppRecvReplay
<1>2. ~Receives
  BY <1>1 DEF Receives
<1>3. CASE CppRecvLive
  <2>1. PICK f \in NextFrames : DeviceSends(f) /\ CppRecv(f, ofile # 0)
    BY <1>3 DEF CppRecvLive
  <2>2. f \in Frames /\ nextId <= f.id /\ f.id \in Nat /\ nextId \in Nat
    BY FromDevice
  <2>3. f.id >= FirstId /\ nextId' >= FirstId
    BY <2>1, <2>2, FileAssumption DEF DeviceSends, Remembered
  <2>4. /\ received' = Append(received, f)
        /\ \/ recorded' = recorded
           \/ ofile # 0 /\ recorded' = [recorded EXCEPT ![ofile] = Append(@, f)]
    BY <2>1 DEF CppRecv
  <2>5. IdsOK(received') /\ \A k \in 1 .. Len(recorded') : IdsOK(recorded'[k])
    BY <1>3, <2>2, <2>3, <2>4, IdsReceived DEF CppRecvLive
  <2> QED
    BY <1>1, <1>2, <2>3, <2>5 DEF Remembered
<1>4. CASE CppRecvReplay
  <2>1. ofile = 0 /\ source = "replay" /\ nextId' = nextId /\ lastId' = lastId /\ asked' = asked
    BY <1>4 DEF CppRecvReplay, IInv, Writing, PyKept
  <2>2. recorded' = recorded
    BY <1>4, <2>1 DEF CppRecvReplay, CppRecv
  <2> QED
    BY <1>1, <1>2, <2>1, <2>2 DEF Remembered
<1> QED
  BY <1>3, <1>4

(* Python: the frame follows the one before unless the exception is raised.*)
Told ==
    /\ FirstId > 0 /\ asked' /\ Receives /\ ~raised' => Follows
    /\ asked' /\ Receives /\ raised' => ~Follows

LEMMA PyRemembers ==
    ASSUME IInv, Remembered, NEW fail \in Flags, RecvFromDevice(fail) \/ RecvFromFile(fail)
    PROVE  Remembered' /\ Told
<1>1. source \in {"device", "file"} /\ source' = source
  BY DEF RecvFromDevice, RecvFromFile
<1>2. ASSUME NEW f \in Frames, f.id >= FirstId, nextId' >= FirstId, NEW blk, Deliver(f, blk, fail)
      PROVE  Remembered' /\ Told
  <2>1. /\ Remembered'
        /\ FirstId > 0 /\ asked' /\ received # <<>> =>
             (raised' <=> f.id # received[Len(received)].id + 1)
        /\ asked' /\ received # <<>> /\ raised' => f.id # received[Len(received)].id + 1
        /\ received'[Len(received')] = f
    BY <1>1, <1>2, DeliverRemembers
  <2> QED
    BY <2>1 DEF Told, Receives, Follows
<1>3. CASE RecvFromDevice(fail)
  <2>1. PICK f \in NextFrames : DeviceSends(f) /\ Deliver(f, data, fail)
    BY <1>3 DEF RecvFromDevice
  <2>2. f \in Frames /\ nextId <= f.id /\ f.id \in Nat /\ nextId \in Nat
    BY FromDevice
  <2>3. f.id >= FirstId /\ nextId' >= FirstId
    BY <2>1, <2>2, FileAssumption DEF DeviceSends, Remembered
  <2> QED
    BY <1>2, <2>1, <2>2, <2>3
<1>4. CASE RecvFromFile(fail)
  <2>1. source = "file" /\ nextId' = nextId
    BY <1>4 DEF RecvFromFile
  <2>2. CASE AtEnd(Ahead)
    <3>1. recorded' = recorded /\ received' = received /\ lastId' = lastId /\ asked' = asked
      BY <1>4, <2>2 DEF RecvFromFile
    <3>2. Remembered' /\ ~Receives
      BY <1>1, <2>1, <3>1, QuietRemembers
    <3> QED
      BY <3>2 DEF Told
  <2>3. CASE ~AtEnd(Ahead)
    <3> DEFINE f == Ahead.data.frame[1]
    <3>1. Ahead.buffered /\ Ahead.data.footer = <<>>
      BY <2>3 DEF AtEnd
    <3>0. Placed(Ahead, received, files[input], recorded[input])
      <4>1. Placed(Place, received, files[input], recorded[input])
        BY <2>1, InputFile
      <4> QED
        BY <2>1, <4>1, LooksAhead
    <3>2. /\ Len(received) + 1 \in 1 .. Len(recorded[input]) /\ f \in Frames
          /\ f = recorded[input][Len(received) + 1]
      BY <2>1, <3>0, <3>1, FromFile
    <3>3. Deliver(f, Ahead.data, fail)
      BY <1>4, <2>3 DEF RecvFromFile
    <3> HIDE DEF f
    <3>4. input \in 1 .. Len(recorded)
      BY <2>1, InputFile DEF IInv, Format, GoodFiles
    <3>5. f.id >= FirstId /\ nextId' >= FirstId
      BY <2>1, <3>2, <3>4 DEF Remembered, IdsOK
    <3> QED
      BY <1>2, <3>2, <3>3, <3>5
  <2> QED
    BY <2>2, <2>3
<1> QED
  BY <1>3, <1>4

LEMMA RememberedStep ==
    ASSUME IInv, Remembered, [BothNext]_vars PROVE Remembered' /\ Told
<1>1. ASSUME Remembered' /\ ~Receives PROVE Remembered' /\ Told
  BY <1>1 DEF Told
<1>2. ASSUME \/ OpenDevice \/ \E k \in DOMAIN files : OpenFile(k)
             \/ CppOpenDevice \/ \E k \in DOMAIN files : CppOpenFile(k)
      PROVE  Remembered' /\ ~Receives
  <2>1. received' = <<>> /\ recorded' = recorded /\ nextId' = nextId
    BY <1>2 DEF OpenDevice, OpenFile, CppOpenDevice, CppOpenFile, NewStream, IInv, NoFooterYet
  <2> QED
    BY <2>1, QuietRemembers
<1>3. ASSUME EndOfStream \/ (PyKept /\ (CppEndOfStream \/ CppJump))
      PROVE  Remembered' /\ ~Receives
  <2>1. /\ recorded' = recorded /\ nextId' = nextId
        /\ received' = <<>> \/ received' = received
        /\ source' = source /\ lastId' = lastId /\ asked' = asked
    BY <1>3 DEF EndOfStream, CppEndOfStream, CppJump, PyKept, IInv, Reading
  <2> QED
    BY <2>1, QuietRemembers
<1>4. ASSUME Stop \/ Crash \/ CppDestroy PROVE Remembered' /\ ~Receives
  <2>1. received' = <<>> /\ recorded' = recorded /\ nextId' = nextId
    BY <1>4 DEF Stop, Crash, Killed, CppDestroy, NoStream
  <2> QED
    BY <2>1, QuietRemembers
<1>5. ASSUME \/ RecordToFile \/ StopRecording \/ Interrupt
             \/ PyKept /\ (CppRecord \/ CppStopRecording)
             \/ UNCHANGED vars
      PROVE  Remembered' /\ ~Receives
  <2>1. /\ recorded' = recorded \/ recorded' = Append(recorded, <<>>)
        /\ nextId' = nextId /\ received' = received
        /\ source' = source /\ lastId' = lastId /\ asked' = asked
    BY <1>5 DEF RecordToFile, StopRecording, Interrupt, CppRecord, CppStopRecording, PyKept,
                vars, fileVars, streamVars
  <2> QED
    BY <2>1, QuietRemembers
<1>6. CASE Next
  BY <1>1, <1>2, <1>3, <1>4, <1>5, <1>6, PyRemembers DEF Next
<1>7. CASE CppNext /\ PyKept
  BY <1>1, <1>2, <1>3, <1>4, <1>5, <1>7, CppRemembers DEF CppNext
<1>8. BothNext => Next \/ (CppNext /\ PyKept)
  BY Zenon DEF BothNext, PyKept
<1> QED
  BY <1>1, <1>5, <1>6, <1>7, <1>8

LEMMA RememberedAlways ==
    ASSUME PlainUse PROVE BothSpec => [](IInv /\ Remembered) /\ [][Told]_vars
<1>1. PlainUse
  OBVIOUS
<1>2. Init => IInv /\ Remembered
  <2>1. Init => Remembered
    <3>1. Len(<<>>) = 0
      OBVIOUS
    <3> QED
      BY <3>1, FileAssumption DEF Init, FilesInit, Remembered, IdsOK
  <2> QED
    BY <2>1, InvStart
<1>3. IInv /\ Remembered /\ [BothNext]_vars => IInv' /\ Remembered' /\ [Told]_vars
  BY <1>1, InvStep, RememberedStep
<1> QED
  BY <1>2, <1>3, PTL DEF BothSpec

(* An application that asks for it learns of every lost frame, from a      *)
(* device whose frames have ids other than 0, and from a recording ...     *)
THEOREM LostFramesAreRaised ==
    ASSUME PlainUse, FirstId > 0 PROVE BothSpec => LostFrameRaised
<1>1. FirstId > 0
  OBVIOUS
<1>2. [Told]_vars => [asked' /\ Receives /\ ~raised' => Follows]_vars
  BY <1>1 DEF Told
<1>3. BothSpec => [][Told]_vars
  BY RememberedAlways
<1> QED
  BY <1>2, <1>3, PTL DEF LostFrameRaised

(* ... and of no other frame.                                              *)
THEOREM NoFalseAlarms ==
    ASSUME PlainUse PROVE BothSpec => NoFalseAlarm
<1>1. [Told]_vars => [asked' /\ Receives /\ raised' => ~Follows]_vars
  BY DEF Told
<1>2. BothSpec => [][Told]_vars
  BY RememberedAlways
<1> QED
  BY <1>1, <1>2, PTL DEF NoFalseAlarm
=============================================================================
