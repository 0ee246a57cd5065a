---------------------------- MODULE FrameConversion ----------------------------
(***************************************************************************)
(* The conversions of a received frame: to a numpy array in Python, to the *)
(* simple frame_t and to a frame with scan lines in C++, with one step for *)
(* each iteration of their loops.  A device sends the points of a frame as *)
(* nested messages (scan lines, points, returns) or packed, one array per  *)
(* field.  What a field of a point or of a return contains is represented  *)
(* by the place of the point or return in the message.                     *)
(***************************************************************************)
EXTENDS Integers, Sequences, FiniteSets

CONSTANTS
    NumScanlines, \* scan lines of the scan pattern
    PerScanline,  \* points of each
    MaxReturns,   \* bound: returns of a point
    MaxRows,      \* bound: rows of a packed frame
    Partial,      \* bound: numbers of points of partial frames
    Unset         \* the default value of a field

ASSUME FrameAssumption ==
    /\ {NumScanlines, PerScanline, MaxReturns} \subseteq Nat \ {0}
    /\ MaxRows \in Nat /\ Partial \subseteq Nat

VARIABLES
    frame,   \* the frame that was received
    api,     \* what it is converted to: "numpy", "simple" or "frame"
    at,      \* the scan line, point and return that the loops are at
    i,       \* the number of rows so far
    out,     \* the result
    outcome  \* "running", "value", "None", "raised" or "undefined"

vars == <<frame, api, at, i, out, outcome>>

PointFields  == {"point_id", "channel_id"}
ReturnFields == {"return_id", "cartesian"}
Fields       == PointFields \cup ReturnFields
-----------------------------------------------------------------------------
(* What a device sends.  A nested frame has the number of returns of each  *)
(* point of each scan line; points may have been filtered.                 *)
ScanLines    == UNION {[1 .. m -> 0 .. MaxReturns] : m \in 0 .. PerScanline}
NestedPoints == UNION {[1 .. n -> ScanLines] : n \in 0 .. NumScanlines}

(* The places of the returns, and with least = 1 also of points without.   *)
Places(lines, least) ==
    {q \in (1 .. NumScanlines) \X (1 .. PerScanline) \X (1 .. MaxReturns) :
        /\ q[1] <= Len(lines) /\ q[2] <= Len(lines[q[1]])
        /\ q[3] <= least \/ q[3] <= lines[q[1]][q[2]]}

(* The fields asked for with the reference frame.  A frame has all fields, *)
(* and the header does not tell, in a file without subscription ("none")   *)
(* and if the subscription had no reference frame ("default").  The number *)
(* of points and that of returns are 0 if they are not asked for.          *)
Asked == ((SUBSET Fields) \X {"asked"}) \cup ({Fields} \X {"none", "default"})
AllPoints == NumScanlines * PerScanline
NestedFrames ==
    {[packed |-> FALSE, fields |-> asked[1], reference |-> asked[2], scanlines |-> lines, ids |-> <<>>,
      points |-> IF counted THEN AllPoints ELSE 0, lines |-> NumScanlines,
      returns |-> IF counted THEN Cardinality(Places(lines, 0)) ELSE 0] :
        asked \in Asked, lines \in NestedPoints, counted \in BOOLEAN}

(* A packed frame has a row for each return, and may have one for a point  *)
(* without; the rows are in the order of the points, which have these ids. *)
(* It may be a partial frame, and the number of scan lines is what the scan*)
(* pattern says: 0 if those fields were not asked for, -1 without pattern. *)
PointIds == 0 .. AllPoints - 1
Sizes == ({0, AllPoints} \cup Partial) \X {NumScanlines, 0, -1}
PackedIds ==
    {ids \in UNION {[1 .. n -> PointIds] : n \in 0 .. MaxRows} :
        \A j, k \in DOMAIN ids : j <= k => ids[j] <= ids[k]}
PackedFrames ==
    {[packed |-> TRUE, fields |-> fields, reference |-> "asked", scanlines |-> <<>>, ids |-> ids,
      points |-> size[1], lines |-> size[2], returns |-> returns] :
        fields \in SUBSET Fields, ids \in PackedIds, size \in Sizes, returns \in 0 .. MaxRows}

Init ==
    /\ frame \in {fr \in NestedFrames \cup PackedFrames : fr.packed => fr.returns <= Len(fr.ids)}
    /\ api = "none" /\ at = <<1, 1, 0>> /\ i = 0 /\ out = <<>> /\ outcome = "none"
-----------------------------------------------------------------------------
(* What both nested loops have in common.                                  *)
InLine  == at[1] <= Len(frame.scanlines)
InPoint == InLine /\ at[2] <= Len(frame.scanlines[at[1]])
Returns == frame.scanlines[at[1]][at[2]]

Value(q, f) == IF f \in PointFields THEN <<q[1], q[2]>> ELSE q
PackedValue(k, f) == IF f = "point_id" THEN frame.ids[k] ELSE k

Running(name) == api = name /\ outcome = "running"
Ends(how) == outcome' = how /\ UNCHANGED <<frame, api, at, i>>
Starts(name, how, value) ==
    /\ api = "none" /\ api' = name
    /\ outcome' = how /\ out' = value
    /\ UNCHANGED <<frame, at, i>>
-----------------------------------------------------------------------------
(* recv_frame_as_numpy().  The columns of the array are the fields of the  *)
(* packed frame, or those of the reference frame; a subscription without a *)
(* reference frame has no first scan line to take them from.               *)
RefFrameFull == Fields \ {"channel_id"}
Columns == IF frame.reference = "asked" THEN frame.fields ELSE RefFrameFull
HasReference == frame.reference # "default"
Zeros == [f \in Columns |-> Unset]

Allocated == frame.points + frame.returns

HasPoints == frame.scanlines # <<>> /\ frame.scanlines[1] # <<>>
RecvFrameAsNumpy ==
    \/ /\ frame.packed
       /\ Starts("numpy", "value", [k \in DOMAIN frame.ids |-> [f \in Columns |-> PackedValue(k, f)]])
    \/ /\ ~frame.packed /\ ~HasPoints
       /\ Starts("numpy", "None", <<>>)
    \/ /\ ~frame.packed /\ HasPoints /\ ~HasReference
       /\ Starts("numpy", "raised", <<>>)
    \/ /\ ~frame.packed /\ HasPoints /\ HasReference
       /\ Starts("numpy", "running", [k \in 1 .. Allocated |-> Zeros])

(* Row i of the array gets fields of a point or return; an index out of    *)
(* range raises.                                                           *)
Raises(fields) == Columns \cap fields # {} /\ i >= Len(out)
Filled(fields) ==
    [k \in DOMAIN out |->
        IF k # i + 1 THEN out[k]
        ELSE [f \in Columns |-> IF f \in fields THEN Value(at, f) ELSE out[k][f]]]
Fill(fields, next, rows) ==
    IF Raises(fields) THEN Ends("raised") /\ UNCHANGED out
    ELSE out' = Filled(fields) /\ at' = next /\ i' = rows /\ UNCHANGED <<frame, api, outcome>>

(* fill_point() before the loop over the returns, and in it. *)
NumpyPoint == /\ Running("numpy") /\ InPoint /\ at[3] = 0
              /\ Fill(PointFields, [at EXCEPT ![3] = 1], i)

RowBefore == ReturnFields  \* bug: only the first row of a point has its fields
RowFields == PointFields \cup ReturnFields
NumpyReturn == /\ Running("numpy") /\ InPoint /\ at[3] \in 1 .. Returns
               /\ Fill(RowFields, [at EXCEPT ![3] = @ + 1], i + 1)

NumpyNextPoint ==
    /\ Running("numpy") /\ InPoint /\ at[3] > Returns
    /\ i' = IF Returns = 0 THEN i + 1 ELSE i
    /\ at' = <<at[1], at[2] + 1, 0>>
    /\ UNCHANGED <<frame, api, out, outcome>>

NumpyNextLine == /\ Running("numpy") /\ InLine /\ ~InPoint
                 /\ at' = <<at[1] + 1, 1, 0>>
                 /\ UNCHANGED <<frame, api, i, out, outcome>>

(* resize() fills up with zeros. *)
Row(k) == IF k <= Len(out) THEN out[k] ELSE Zeros
NumpyReturns == /\ Running("numpy") /\ ~InLine
                /\ out' = [k \in 1 .. i |-> Row(k)]
                /\ Ends("value")

Numpy == NumpyPoint \/ NumpyReturn \/ NumpyNextPoint \/ NumpyNextLine \/ NumpyReturns
-----------------------------------------------------------------------------
(* convert_point_cloud() to frame_t: a point for each return or packed row.*)
(* What it reads or writes out of range is undefined.                      *)
SimpleFields == {"point_id", "cartesian"}
DefaultPoint == [f \in SimpleFields |-> Unset]
SimplePoint(q) == [f \in SimpleFields |-> IF f \in frame.fields THEN Value(q, f) ELSE Unset]
PackedPoint(k) == [f \in SimpleFields |-> IF f \in frame.fields THEN PackedValue(k, f) ELSE Unset]

PointsResized == frame.points  \* bug: one element per point
Resized == frame.returns

ConvertToSimple ==
    IF frame.packed
    THEN Starts("simple", "value", [k \in DOMAIN frame.ids |-> PackedPoint(k)])
    ELSE Starts("simple", "running", [k \in 1 .. Resized |-> DefaultPoint])

SimpleReturn ==
    /\ Running("simple") /\ InPoint /\ at[3] \in 1 .. Returns
    /\ IF i >= Len(out) \/ "cartesian" \notin frame.fields
       THEN Ends("undefined") /\ UNCHANGED out
       ELSE /\ out' = [out EXCEPT ![i + 1] = SimplePoint(at)]
            /\ at' = [at EXCEPT ![3] = @ + 1] /\ i' = i + 1
            /\ UNCHANGED <<frame, api, outcome>>

(* The loop over the returns begins or ends, or that over the points.      *)
SimpleNext ==
    /\ Running("simple") /\ InLine
    /\ \/ InPoint /\ at[3] = 0 /\ at' = [at EXCEPT ![3] = 1]
       \/ InPoint /\ at[3] > Returns /\ at' = <<at[1], at[2] + 1, 0>>
       \/ ~InPoint /\ at' = <<at[1] + 1, 1, 0>>
    /\ UNCHANGED <<frame, api, i, out, outcome>>

SimpleReturns == /\ Running("simple") /\ ~InLine
                 /\ Ends("value") /\ UNCHANGED out

Simple == SimpleReturn \/ SimpleNext \/ SimpleReturns
-----------------------------------------------------------------------------
(* convert_point_cloud() to Frame: a packed frame is put back into scan    *)
(* lines, by the point ids of consecutive rows.  The divisor of an id is   *)
(* a quotient itself, of unsigned numbers: -1 exceeds every dividend.      *)
PointsPerLine == IF frame.lines < 0 THEN 0 ELSE frame.points \div frame.lines
Scanline(p) == p \div PointsPerLine
DividesByZero == "point_id" \in frame.fields /\ (frame.lines = 0 \/ PointsPerLine = 0)

NewPoint(id) == [id |-> id, returns |-> <<>>]
ConvertToFrame ==
    IF ~frame.packed
    THEN Starts("frame", "value", frame.scanlines)
    ELSE Starts("frame", "running",
            IF "point_id" \in frame.fields THEN <<>>
            ELSE <<[id |-> Unset, points |-> <<NewPoint(Unset)>>]>>)

SameLine(lines, p) == lines # <<>> /\ lines[Len(lines)].id = Scanline(p)
AnyPoint(points, p) == points # <<>>  \* bug: the id is not compared
SamePoint(points, p) == points # <<>> /\ points[Len(points)].id = p

InLineOf(lines, p) ==
    IF SameLine(lines, p) THEN lines ELSE Append(lines, [id |-> Scanline(p), points |-> <<>>])
InPointOf(points, p) == IF SamePoint(points, p) THEN points ELSE Append(points, NewPoint(p))
Opened(lines, p) ==
    LET open == InLineOf(lines, p)
    IN [open EXCEPT ![Len(open)].points = InPointOf(@, p)]
Added(lines, k) ==
    LET s == Len(lines)
        n == Len(lines[s].points)
    IN [lines EXCEPT ![s].points[n].returns = Append(@, k)]

FrameReturn ==
    /\ Running("frame") /\ i < frame.returns
    /\ IF DividesByZero
       THEN Ends("undefined") /\ UNCHANGED out
       ELSE /\ out' = Added(IF "point_id" \in frame.fields THEN Opened(out, frame.ids[i + 1])
                                                            ELSE out, i + 1)
            /\ i' = i + 1
            /\ UNCHANGED <<frame, api, at, outcome>>

FrameReturns == /\ Running("frame") /\ i >= frame.returns
                /\ Ends("value") /\ UNCHANGED out

Next == \/ RecvFrameAsNumpy \/ ConvertToSimple \/ ConvertToFrame
        \/ Numpy \/ Simple \/ FrameReturn \/ FrameReturns

Spec == Init /\ [][Next]_vars
-----------------------------------------------------------------------------
(* The number of a place among those up to it.                             *)
Before(p, q) == \/ p[1] < q[1]
                \/ p[1] = q[1] /\ p[2] < q[2]
                \/ p[1] = q[1] /\ p[2] = q[2] /\ p[3] < q[3]
Number(q, all) == Cardinality({p \in all : ~Before(q, p)})

(* The array has a row for each return and for each point without returns  *)
(* (none are left out or written twice, and no index is out of range), in  *)
(* the order of the device, and each column has the value of the row's own *)
(* point or return.  Without the two numbers it raises instead, and with a *)
(* subscription that had no reference frame always; a frame whose first    *)
(* scan line is empty is not converted.                                    *)
RowOf(q) == [f \in Columns |-> IF f \in PointFields \/ frame.scanlines[q[1]][q[2]] > 0
                               THEN Value(q, f) ELSE Unset]
NumpyRows ==
    /\ api = "numpy" /\ outcome = "value" =>
         IF frame.packed
         THEN out = [k \in DOMAIN frame.ids |-> [f \in frame.fields |-> PackedValue(k, f)]]
         ELSE LET rows == Places(frame.scanlines, 1)
              IN DOMAIN out = 1 .. Cardinality(rows) /\ \A q \in rows : out[Number(q, rows)] = RowOf(q)
    /\ outcome = "raised" => frame.points = 0 \/ ~HasReference
    /\ outcome = "None" => frame.scanlines = <<>> \/ frame.scanlines[1] = <<>>

(* frame_t has a point for each return (and for each row of a packed frame *)
(* without one), nothing is written out of range: undefined only if the    *)
(* number of returns or the coordinates were not asked for.                *)
SimplePoints ==
    /\ api = "simple" /\ outcome = "value" =>
         IF frame.packed
         THEN out = [k \in DOMAIN frame.ids |-> PackedPoint(k)]
         ELSE LET rows == Places(frame.scanlines, 0)
              IN DOMAIN out = 1 .. Cardinality(rows)
                 /\ \A q \in rows : out[Number(q, rows)] = SimplePoint(q)
    /\ api = "simple" /\ outcome = "undefined" =>
         frame.points = 0 \/ "cartesian" \notin frame.fields

(* The first rows of a packed frame, as many as the frame says it has      *)
(* returns, are put back into scan lines and points: each scan line and    *)
(* each point that has rows is there once, and has exactly its own, all in *)
(* order.  If the frame is whole and tells its points and its scan pattern,*)
(* the scan lines are those of the device; a division by zero is only met  *)
(* if the frame does not tell them, or has fewer points than scan lines.   *)
Whole == frame.points = AllPoints /\ frame.lines = NumScanlines
Lists(seq, S) ==
    /\ S = {seq[k] : k \in DOMAIN seq}
    /\ \A j, k \in DOMAIN seq : j < k => seq[j] < seq[k]
Ids(seq) == [k \in DOMAIN seq |-> seq[k].id]
InScanlines(lines, n) ==
    /\ Lists(Ids(lines), {Scanline(frame.ids[k]) : k \in 1 .. n})
    /\ \A s \in DOMAIN lines :
         LET points == lines[s].points IN
         /\ Lists(Ids(points), {frame.ids[k] : k \in {k \in 1 .. n : Scanline(frame.ids[k]) = lines[s].id}})
         /\ \A k \in DOMAIN points :
              Lists(points[k].returns, {j \in 1 .. n : frame.ids[j] = points[k].id})
BackInScanlines ==
    /\ api = "frame" /\ outcome = "value" /\ frame.packed =>
         IF "point_id" \in frame.fields THEN InScanlines(out, frame.returns)
         ELSE Len(out) = 1 /\ Len(out[1].points) = 1
              /\ Lists(out[1].points[1].returns, 1 .. frame.returns)
    /\ frame.packed /\ Whole => \A p \in PointIds : Scanline(p) = p \div PerScanline
    /\ api = "frame" /\ outcome = "undefined" => frame.lines <= 0 \/ frame.points < frame.lines
=============================================================================
