------------------------ MODULE FrameConversion_proofs ------------------------
(***************************************************************************)
(* Proofs about the conversions of a frame, for frames of any size.        *)
(***************************************************************************)
EXTENDS FrameConversion, FiniteSetTheorems, TLAPS

-----------------------------------------------------------------------------
(* The invariant: how far the loops are, and what they have done.          *)
FrameOK ==
    IF frame.packed THEN frame \in PackedFrames /\ frame.returns <= Len(frame.ids)
                    ELSE frame \in NestedFrames
AtOK ==
    /\ at \in Nat \X Nat \X Nat /\ at[1] >= 1 /\ at[2] >= 1 /\ i \in Nat
    /\ ~frame.packed => at[3] <= (IF InPoint THEN Returns + 1 ELSE 0)

Upto(all, place) == {q \in all : Before(q, place)}
PointRow == [f \in Columns |-> IF f \in PointFields THEN Value(at, f) ELSE Unset]

(* The rows up to where the loops are have been filled, the next one has   *)
(* the fields of the point if its loop has begun, and the others nothing.  *)
NumpyInv ==
    LET rows == Places(frame.scanlines, 1) IN
    /\ ~frame.packed
    /\ DOMAIN out = 1 .. Allocated /\ Len(out) = Allocated
    /\ i = Cardinality(Upto(rows, at))
    /\ \A q \in Upto(rows, at) : Row(Number(q, rows)) = RowOf(q)
    /\ Row(i + 1) = IF at[3] = 1 THEN PointRow ELSE Zeros
    /\ \A k \in Nat : k > i + 1 => Row(k) = Zeros

SimpleInv ==
    LET rows == Places(frame.scanlines, 0) IN
    /\ ~frame.packed
    /\ DOMAIN out = 1 .. Resized /\ Len(out) = Resized
    /\ i = Cardinality(Upto(rows, at)) /\ i <= Resized
    /\ \A q \in Upto(rows, at) : out[Number(q, rows)] = SimplePoint(q)

(* The first i rows are in scan lines. *)
NumbersOrUnset == Nat \cup {Unset}
PointRecords == [id : NumbersOrUnset, returns : Seq(Nat)]
LineRecords  == [id : NumbersOrUnset, points : Seq(PointRecords)]
LinesOfPoints == Seq(LineRecords)
FrameInv ==
    /\ frame.packed /\ i <= frame.returns /\ out \in LinesOfPoints
    /\ IF "point_id" \in frame.fields THEN InScanlines(out, i)
       ELSE Len(out) = 1 /\ Len(out[1].points) = 1 /\ Lists(out[1].points[1].returns, 1 .. i)

BackInv ==
    /\ api = "frame" /\ outcome = "value" /\ frame.packed =>
         IF "point_id" \in frame.fields THEN InScanlines(out, frame.returns)
         ELSE Len(out) = 1 /\ Len(out[1].points) = 1
              /\ Lists(out[1].points[1].returns, 1 .. frame.returns)
    /\ api = "frame" /\ outcome = "undefined" => frame.lines <= 0 \/ frame.points < frame.lines

IInv ==
    /\ FrameOK /\ AtOK
    /\ api = "none" => i = 0 /\ at = <<1, 1, 0>>
    /\ api = "none" <=> outcome = "none"
    /\ Running("numpy") => NumpyInv
    /\ Running("simple") => SimpleInv
    /\ Running("frame") => FrameInv
    /\ NumpyRows /\ SimplePoints /\ BackInv
-----------------------------------------------------------------------------
(* Sequences that are written as functions.                                *)
LEMMA FunIsSeq ==
    ASSUME NEW n \in Nat, NEW f, f = [k \in 1 .. n |-> f[k]] PROVE Len(f) = n /\ DOMAIN f = 1 .. n
<1>1. f \in [1 .. n -> {f[k] : k \in 1 .. n}]
  OBVIOUS
<1>2. f \in Seq({f[k] : k \in 1 .. n})
  BY <1>1
<1> QED
  BY <1>2


(* The nested message, and the places in it.                               *)
LEMMA LinesOK ==
    ASSUME NEW L \in NestedPoints
    PROVE  /\ Len(L) \in 0 .. NumScanlines
           /\ \A s \in 1 .. Len(L) :
                /\ Len(L[s]) \in 0 .. PerScanline
                /\ \A k \in 1 .. Len(L[s]) : L[s][k] \in 0 .. MaxReturns
<1>1. PICK n \in 0 .. NumScanlines : L \in [1 .. n -> ScanLines]
  BY DEF NestedPoints
<1>2. Len(L) = n
  BY <1>1
<1>3. ASSUME NEW s \in 1 .. n
      PROVE  /\ Len(L[s]) \in 0 .. PerScanline
             /\ \A k \in 1 .. Len(L[s]) : L[s][k] \in 0 .. MaxReturns
  <2>1. L[s] \in ScanLines
    BY <1>1
  <2>2. PICK m \in 0 .. PerScanline : L[s] \in [1 .. m -> 0 .. MaxReturns]
    BY <2>1 DEF ScanLines
  <2> QED
    BY <2>2
<1> QED
  BY <1>1, <1>2, <1>3

LEMMA PlaceIs ==
    ASSUME NEW L \in NestedPoints, NEW least, NEW s, NEW k, NEW r
    PROVE  <<s, k, r>> \in Places(L, least) <=>
             /\ s \in 1 .. Len(L) /\ k \in 1 .. Len(L[s]) /\ r \in 1 .. MaxReturns
             /\ r <= least \/ r <= L[s][k]
<1> DEFINE q == <<s, k, r>>
<1>1. q[1] = s /\ q[2] = k /\ q[3] = r
  OBVIOUS
<1>2. /\ s \in 1 .. Len(L) => s \in 1 .. NumScanlines
      /\ s \in 1 .. Len(L) /\ k \in 1 .. Len(L[s]) => k \in 1 .. PerScanline
      /\ s \in 1 .. NumScanlines /\ s <= Len(L) => s \in 1 .. Len(L)
      /\ s \in 1 .. Len(L) /\ k \in 1 .. PerScanline /\ k <= Len(L[s]) => k \in 1 .. Len(L[s])
  BY LinesOK, FrameAssumption
<1>3. q \in (1 .. NumScanlines) \X (1 .. PerScanline) \X (1 .. MaxReturns)
      <=> s \in 1 .. NumScanlines /\ k \in 1 .. PerScanline /\ r \in 1 .. MaxReturns
  OBVIOUS
<1>4. /\ s \in 1 .. Len(L) => s <= Len(L)
      /\ s \in 1 .. Len(L) /\ k \in 1 .. Len(L[s]) => k <= Len(L[s])
  BY LinesOK, FrameAssumption
<1> HIDE DEF q
<1>5. q \in Places(L, least) <=>
        /\ q \in (1 .. NumScanlines) \X (1 .. PerScanline) \X (1 .. MaxReturns)
        /\ s <= Len(L) /\ k <= Len(L[s]) /\ (r <= least \/ r <= L[s][k])
  BY <1>1 DEF Places
<1> QED
  BY <1>2, <1>3, <1>4, <1>5 DEF q

(* Places are triples of numbers, and there are finitely many.             *)
LEMMA PlacesAreFinite ==
    ASSUME NEW L, NEW least
    PROVE  IsFiniteSet(Places(L, least)) /\ Places(L, least) \subseteq Nat \X Nat \X Nat
<1> DEFINE A == 1 .. NumScanlines
           B == 1 .. PerScanline
           C == 1 .. MaxReturns
           f == [q \in A \X B \X C |-> <<<<q[1], q[2]>>, q[3]>>]
<1>1. A \subseteq Nat /\ B \subseteq Nat /\ C \subseteq Nat
  BY FrameAssumption
<1>2. IsFiniteSet(A) /\ IsFiniteSet(B) /\ IsFiniteSet(C)
  BY FrameAssumption, FS_Interval
<1>3. Places(L, least) \subseteq A \X B \X C
  BY DEF Places
<1> HIDE DEF A, B, C
<1>4. f \in Injection(A \X B \X C, (A \X B) \X C)
  BY DEF Injection, IsInjective
<1>5. IsFiniteSet((A \X B) \X C)
  BY <1>2, FS_Product
<1>6. IsFiniteSet(A \X B \X C)
  BY <1>4, <1>5, FS_Injection
<1> QED
  BY <1>1, <1>3, <1>6, FS_Subset
-----------------------------------------------------------------------------
(* Numbering places in their order.                                        *)
LEMMA BeforeIs ==
    ASSUME NEW a \in Nat, NEW b \in Nat, NEW c \in Nat, NEW s \in Nat, NEW k \in Nat, NEW r \in Nat
    PROVE  Before(<<a, b, c>>, <<s, k, r>>)
           <=> (a < s \/ (a = s /\ b < k) \/ (a = s /\ b = k /\ c < r))
<1> DEFINE p == <<a, b, c>>
           q == <<s, k, r>>
<1>1. p[1] = a /\ p[2] = b /\ p[3] = c /\ q[1] = s /\ q[2] = k /\ q[3] = r
  OBVIOUS
<1> HIDE DEF p, q
<1>2. Before(p, q) <=> (a < s \/ (a = s /\ b < k) \/ (a = s /\ b = k /\ c < r))
  BY <1>1 DEF Before
<1> QED
  BY <1>2 DEF p, q

LEMMA UptoIsFinite ==
    ASSUME NEW all, IsFiniteSet(all), NEW q
    PROVE  IsFiniteSet(Upto(all, q)) /\ Cardinality(Upto(all, q)) \in Nat
           /\ Cardinality(Upto(all, q)) <= Cardinality(all)
BY FS_Subset, FS_CardinalityType DEF Upto

(* Places that have been passed have smaller numbers.                      *)
LEMMA NumberPassed ==
    ASSUME NEW all \in SUBSET (Nat \X Nat \X Nat), IsFiniteSet(all),
           NEW now \in Nat \X Nat \X Nat, NEW q \in Upto(all, now)
    PROVE  Number(q, all) \in 1 .. Cardinality(Upto(all, now))
<1> DEFINE T == {p \in all : ~Before(q, p)}
<1>1. q \in all /\ Before(q, now) /\ ~Before(q, q)
  BY DEF Upto, Before
<1>2. ASSUME NEW p \in all, ~Before(q, p) PROVE Before(p, now)
  BY <1>1, <1>2 DEF Before
<1>3. T \subseteq Upto(all, now)
  BY <1>2 DEF Upto
<1>4. IsFiniteSet(Upto(all, now))
  BY UptoIsFinite
<1>5. IsFiniteSet(T) /\ Cardinality(T) <= Cardinality(Upto(all, now))
  BY <1>3, <1>4, FS_Subset
<1>6. Cardinality(T) # 0 /\ Cardinality(T) \in Nat /\ Cardinality(Upto(all, now)) \in Nat
  BY <1>1, <1>4, <1>5, FS_EmptySet, FS_CardinalityType
<1> QED
  BY <1>5, <1>6 DEF Number

(* One more place is passed: it has the next number.                       *)
LEMMA NumberNext ==
    ASSUME NEW all, IsFiniteSet(all), NEW now, NEW next, NEW q \in all, ~Before(q, now),
           \A p \in all : Before(p, next) <=> ~Before(q, p),
           \A p \in all : Before(p, next) <=> (Before(p, now) \/ p = q)
    PROVE  /\ Upto(all, next) = Upto(all, now) \cup {q}
           /\ Number(q, all) = Cardinality(Upto(all, now)) + 1
           /\ Cardinality(Upto(all, next)) = Cardinality(Upto(all, now)) + 1
           /\ Cardinality(Upto(all, now)) < Cardinality(all)
<1>1. Upto(all, next) = Upto(all, now) \cup {q} /\ q \notin Upto(all, now)
  BY DEF Upto
<1>2. {p \in all : ~Before(q, p)} = Upto(all, next)
  BY DEF Upto
<1>3. /\ IsFiniteSet(Upto(all, now)) /\ Cardinality(Upto(all, now)) \in Nat
      /\ Cardinality(Upto(all, next)) <= Cardinality(all) /\ Cardinality(all) \in Nat
  BY UptoIsFinite, FS_CardinalityType
<1>4. Cardinality(Upto(all, next)) = Cardinality(Upto(all, now)) + 1
  BY <1>1, <1>3, FS_AddElement
<1>5. Number(q, all) = Cardinality(Upto(all, next))
  BY <1>2 DEF Number
<1> QED
  BY <1>1, <1>3, <1>4, <1>5

-----------------------------------------------------------------------------
(* The loops over a nested message: what they pass from one place to the   *)
(* next.                                                                   *)
LEMMA Each ==
    ASSUME NEW L, NEW least, NEW q \in Places(L, least)
    PROVE  \E a, b, c \in Nat : q = <<a, b, c>>
<1>1. q \in Nat \X Nat \X Nat
  BY PlacesAreFinite
<1>2. q = <<q[1], q[2], q[3]>> /\ q[1] \in Nat /\ q[2] \in Nat /\ q[3] \in Nat
  BY <1>1
<1> QED
  BY <1>2

LEMMA SameUpto ==
    ASSUME NEW L, NEW least, NEW now, NEW next,
           \A a, b, c \in Nat : <<a, b, c>> \in Places(L, least) =>
               (Before(<<a, b, c>>, next) <=> Before(<<a, b, c>>, now))
    PROVE  Upto(Places(L, least), next) = Upto(Places(L, least), now)
<1>1. \A q \in Places(L, least) : Before(q, next) <=> Before(q, now)
  BY Each
<1> QED
  BY <1>1 DEF Upto

LEMMA BeginPoint ==
    ASSUME NEW L \in NestedPoints, NEW least, NEW s \in Nat, NEW k \in Nat
    PROVE  Upto(Places(L, least), <<s, k, 1>>) = Upto(Places(L, least), <<s, k, 0>>)
<1> SUFFICES ASSUME NEW a \in Nat, NEW b \in Nat, NEW c \in Nat, <<a, b, c>> \in Places(L, least)
             PROVE  Before(<<a, b, c>>, <<s, k, 1>>) <=> Before(<<a, b, c>>, <<s, k, 0>>)
  BY SameUpto
<1>1. c >= 1
  BY PlaceIs, FrameAssumption
<1> QED
  BY <1>1, BeforeIs

LEMMA EndPoint ==
    ASSUME NEW L \in NestedPoints, NEW least \in {0, 1}, NEW s \in 1 .. Len(L), NEW k \in 1 .. Len(L[s]),
           NEW r \in Nat, r > L[s][k], L[s][k] = 0 => least = 0 /\ r >= 1
    PROVE  Upto(Places(L, least), <<s, k + 1, 0>>) = Upto(Places(L, least), <<s, k, r>>)
<1> DEFINE next == <<s, k + 1, 0>>
           now == <<s, k, r>>
<1>1. ASSUME NEW a \in Nat, NEW b \in Nat, NEW c \in Nat, <<a, b, c>> \in Places(L, least)
      PROVE  Before(<<a, b, c>>, next) <=> Before(<<a, b, c>>, now)
  <2>1. /\ Len(L) \in Nat /\ Len(L[s]) \in Nat /\ L[s][k] \in Nat /\ s \in Nat /\ k \in Nat
        /\ c >= 1 /\ ((a = s /\ b = k) => (c <= least \/ c <= L[s][k]))
    BY <1>1, PlaceIs, LinesOK, FrameAssumption, SMTT(30)
  <2>2. Before(<<a, b, c>>, now) <=> (a < s \/ (a = s /\ b < k) \/ (a = s /\ b = k /\ c < r))
    <3>1. s \in Nat /\ k \in Nat /\ r \in Nat
      BY <2>1
    <3> QED
      BY <3>1, BeforeIs
  <2>3. Before(<<a, b, c>>, next)
        <=> (a < s \/ (a = s /\ b < k + 1) \/ (a = s /\ b = k + 1 /\ c < 0))
    BY <2>1, BeforeIs, SMTT(30)
  <2> QED
    BY <2>1, <2>2, <2>3
<1> HIDE DEF next, now
<1>2. Upto(Places(L, least), next) = Upto(Places(L, least), now)
  BY <1>1, SameUpto
<1> QED
  BY <1>2 DEF next, now

LEMMA EndLine ==
    ASSUME NEW L \in NestedPoints, NEW least, NEW s \in 1 .. Len(L), NEW k \in Nat, k > Len(L[s])
    PROVE  Upto(Places(L, least), <<s + 1, 1, 0>>) = Upto(Places(L, least), <<s, k, 0>>)
<1> SUFFICES ASSUME NEW a \in Nat, NEW b \in Nat, NEW c \in Nat, <<a, b, c>> \in Places(L, least)
             PROVE  Before(<<a, b, c>>, <<s + 1, 1, 0>>) <=> Before(<<a, b, c>>, <<s, k, 0>>)
  BY SameUpto, SMTT(30)
<1>1. /\ Len(L) \in Nat /\ Len(L[s]) \in Nat /\ s \in Nat /\ b >= 1 /\ (a = s => b <= Len(L[s]))
  BY PlaceIs, LinesOK, FrameAssumption
<1> QED
  BY <1>1, BeforeIs

LEMMA EndLines ==
    ASSUME NEW L \in NestedPoints, NEW least, NEW s \in Nat, NEW k \in Nat, NEW r \in Nat, s > Len(L)
    PROVE  Upto(Places(L, least), <<s, k, r>>) = Places(L, least)
<1> SUFFICES ASSUME NEW a \in Nat, NEW b \in Nat, NEW c \in Nat, <<a, b, c>> \in Places(L, least)
             PROVE  Before(<<a, b, c>>, <<s, k, r>>)
  BY Each DEF Upto
<1>1. Len(L) \in Nat /\ a <= Len(L)
  BY PlaceIs, LinesOK, FrameAssumption
<1> QED
  BY <1>1, BeforeIs

LEMMA BeginLines ==
    ASSUME NEW L \in NestedPoints, NEW least PROVE Upto(Places(L, least), <<1, 1, 0>>) = {}
<1> SUFFICES ASSUME NEW a \in Nat, NEW b \in Nat, NEW c \in Nat, <<a, b, c>> \in Places(L, least)
             PROVE  ~Before(<<a, b, c>>, <<1, 1, 0>>)
  BY Each DEF Upto
<1>1. a >= 1 /\ b >= 1
  BY PlaceIs, LinesOK, FrameAssumption
<1> QED
  BY <1>1, BeforeIs

(* A return, or a point without, is passed.                                *)
LEMMA OneMore ==
    ASSUME NEW L \in NestedPoints, NEW least \in {0, 1}, NEW s \in 1 .. Len(L), NEW k \in 1 .. Len(L[s]),
           NEW r \in 1 .. MaxReturns, NEW next,
           \/ r <= L[s][k] /\ next = <<s, k, r + 1>>
           \/ r = 1 /\ L[s][k] = 0 /\ least = 1 /\ next = <<s, k + 1, 0>>
    PROVE  LET all == Places(L, least)
               q == <<s, k, r>>
           IN /\ q \in all
              /\ Upto(all, next) = Upto(all, q) \cup {q}
              /\ Number(q, all) = Cardinality(Upto(all, q)) + 1
              /\ Cardinality(Upto(all, next)) = Cardinality(Upto(all, q)) + 1
              /\ Cardinality(Upto(all, q)) < Cardinality(all)
<1> DEFINE all == Places(L, least)
           q == <<s, k, r>>
<1>1. /\ Len(L) \in Nat /\ Len(L[s]) \in Nat /\ L[s][k] \in Nat /\ s \in Nat /\ k \in Nat /\ r \in Nat
  BY LinesOK, FrameAssumption
<1>2. q \in all
  BY PlaceIs
<1>3. ASSUME NEW a \in Nat, NEW b \in Nat, NEW c \in Nat, <<a, b, c>> \in all
      PROVE  /\ Before(<<a, b, c>>, next) <=> ~Before(q, <<a, b, c>>)
             /\ Before(<<a, b, c>>, next) <=> (Before(<<a, b, c>>, q) \/ <<a, b, c>> = q)
  <2>1. c >= 1 /\ ((a = s /\ b = k) => (c <= least \/ c <= L[s][k]))
    BY <1>3, PlaceIs, FrameAssumption
  <2>2. Before(<<a, b, c>>, q) <=> (a < s \/ (a = s /\ b < k) \/ (a = s /\ b = k /\ c < r))
    BY <1>1, BeforeIs
  <2>4. Before(q, <<a, b, c>>) <=> (s < a \/ (s = a /\ k < b) \/ (s = a /\ k = b /\ r < c))
    BY <1>1, BeforeIs
  <2>5. Before(<<a, b, c>>, <<s, k, r + 1>>)
          <=> (a < s \/ (a = s /\ b < k) \/ (a = s /\ b = k /\ c < r + 1))
    BY <1>1, BeforeIs, SMTT(30)
  <2>6. Before(<<a, b, c>>, <<s, k + 1, 0>>)
          <=> (a < s \/ (a = s /\ b < k + 1) \/ (a = s /\ b = k + 1 /\ c < 0))
    BY <1>1, BeforeIs, SMTT(30)
  <2>3. <<a, b, c>> = q <=> a = s /\ b = k /\ c = r
    OBVIOUS
  <2>7. CASE r <= L[s][k] /\ next = <<s, k, r + 1>>
    BY <1>1, <2>1, <2>2, <2>3, <2>4, <2>5, <2>7
  <2>8. CASE r = 1 /\ L[s][k] = 0 /\ least = 1 /\ next = <<s, k + 1, 0>>
    BY <1>1, <2>1, <2>2, <2>3, <2>4, <2>6, <2>8
  <2> QED
    BY <2>7, <2>8
<1>4. ~Before(q, q)
  BY <1>1, BeforeIs
<1>5. /\ \A p \in all : Before(p, next) <=> ~Before(q, p)
      /\ \A p \in all : Before(p, next) <=> (Before(p, q) \/ p = q)
  <2> SUFFICES ASSUME NEW p \in all
               PROVE  /\ Before(p, next) <=> ~Before(q, p)
                      /\ Before(p, next) <=> (Before(p, q) \/ p = q)
    OBVIOUS
  <2>1. PICK a, b, c \in Nat : p = <<a, b, c>>
    BY Each
  <2> QED
    BY <1>3, <2>1
<1>6. IsFiniteSet(all)
  BY PlacesAreFinite
<1> HIDE DEF all, q
<1>7. /\ Upto(all, next) = Upto(all, q) \cup {q}
      /\ Number(q, all) = Cardinality(Upto(all, q)) + 1
      /\ Cardinality(Upto(all, next)) = Cardinality(Upto(all, q)) + 1
      /\ Cardinality(Upto(all, q)) < Cardinality(all)
  BY <1>2, <1>4, <1>5, <1>6, NumberNext, SMTT(30)
<1> QED
  BY <1>2, <1>7 DEF all, q

-----------------------------------------------------------------------------
(* The two numbers of a nested frame bound the rows.                       *)
LEMMA NestedFrame ==
    ASSUME frame \in NestedFrames
    PROVE  /\ frame.scanlines \in NestedPoints /\ ~frame.packed
           /\ Columns \subseteq Fields
           /\ frame.points \in Nat /\ frame.returns \in Nat
           /\ \/ frame.points = 0 /\ frame.returns = 0
              \/ /\ frame.points = NumScanlines * PerScanline
                 /\ frame.returns = Cardinality(Places(frame.scanlines, 0))
<1>0. AllPoints = NumScanlines * PerScanline
  BY DEF AllPoints
<1>1. PICK asked \in Asked, lines \in NestedPoints,
           counted \in BOOLEAN :
        frame = [packed |-> FALSE, fields |-> asked[1], reference |-> asked[2], scanlines |-> lines,
                 ids |-> <<>>, points |-> IF counted THEN AllPoints ELSE 0, lines |-> NumScanlines,
                 returns |-> IF counted THEN Cardinality(Places(lines, 0)) ELSE 0]
  BY DEF NestedFrames
<1>2. asked[1] \subseteq Fields
  <2>1. CASE asked \in (SUBSET Fields) \X {"asked"}
    BY <2>1
  <2>2. CASE asked \in {Fields} \X {"none", "default"}
    BY <2>2
  <2> QED
    BY <2>1, <2>2 DEF Asked
<1>3. NumScanlines * PerScanline \in Nat /\ Cardinality(Places(lines, 0)) \in Nat
  BY FrameAssumption, PlacesAreFinite, FS_CardinalityType
<1> QED
  BY <1>0, <1>1, <1>2, <1>3 DEF Columns, RefFrameFull

LEMMA RowsFit ==
    ASSUME frame \in NestedFrames, frame.points # 0
    PROVE  Cardinality(Places(frame.scanlines, 1)) <= frame.points + frame.returns
<1> DEFINE R == Places(frame.scanlines, 1)
           T == Places(frame.scanlines, 0)
           A == 1 .. NumScanlines
           B == 1 .. PerScanline
           f == [q \in R \ T |-> <<q[1], q[2]>>]
<1>1. T \subseteq R /\ IsFiniteSet(R) /\ IsFiniteSet(T) /\ IsFiniteSet(R \ T)
      /\ Cardinality(R) \in Nat /\ Cardinality(T) \in Nat /\ Cardinality(R \ T) \in Nat
  <2>1. ASSUME NEW a \in Nat, NEW b \in Nat, NEW c \in Nat, <<a, b, c>> \in T
        PROVE  <<a, b, c>> \in R
    <3>1. /\ frame.scanlines \in NestedPoints /\ c \in 1 .. MaxReturns /\ (c <= 0 \/ c <= frame.scanlines[a][b])
          /\ a \in 1 .. Len(frame.scanlines) /\ b \in 1 .. Len(frame.scanlines[a])
      BY <2>1, NestedFrame, PlaceIs
    <3>2. c <= frame.scanlines[a][b]
      BY <3>1
    <3> QED
      BY <3>1, <3>2, PlaceIs
  <2>2. T \subseteq R
    BY <2>1, Each
  <2> QED
    BY <2>2, PlacesAreFinite, FS_Difference, FS_CardinalityType
<1>2. \A q \in R \ T : q[3] = 1 /\ q[1] \in A /\ q[2] \in B
  <2> SUFFICES ASSUME NEW q \in R \ T PROVE q[3] = 1 /\ q[1] \in A /\ q[2] \in B
    OBVIOUS
  <2>1. PICK a, b, c \in Nat : q = <<a, b, c>>
    BY Each
  <2>2. /\ frame.scanlines \in NestedPoints /\ c \in 1 .. MaxReturns /\ (c <= 1 \/ c <= frame.scanlines[a][b])
        /\ a \in 1 .. Len(frame.scanlines) /\ b \in 1 .. Len(frame.scanlines[a])
        /\ ~(c <= 0 \/ c <= frame.scanlines[a][b])
    BY <2>1, NestedFrame, PlaceIs
  <2>3. a \in A /\ b \in B
    BY <2>2, LinesOK, FrameAssumption
  <2> QED
    BY <2>1, <2>2, <2>3
<1>3. IsFiniteSet(A \X B) /\ Cardinality(A \X B) = NumScanlines * PerScanline
  <2>1. NumScanlines \in Nat /\ PerScanline \in Nat /\ NumScanlines # 0 /\ PerScanline # 0
    BY FrameAssumption
  <2>2. IsFiniteSet(A) /\ Cardinality(A) = NumScanlines
    BY <2>1, FS_Interval
  <2>3. IsFiniteSet(B) /\ Cardinality(B) = PerScanline
    BY <2>1, FS_Interval
  <2> HIDE DEF A, B
  <2> QED
    BY <2>2, <2>3, FS_Product
<1>4. f \in Injection(R \ T, A \X B)
  <2>1. f \in [R \ T -> A \X B]
    BY <1>2
  <2>2. ASSUME NEW p \in R \ T, NEW q \in R \ T, f[p] = f[q] PROVE p = q
    <3>1. p[1] = q[1] /\ p[2] = q[2] /\ p[3] = q[3]
      BY <1>2, <2>2
    <3>2. p \in Nat \X Nat \X Nat /\ q \in Nat \X Nat \X Nat
      BY PlacesAreFinite
    <3> QED
      BY <3>1, <3>2
  <2> QED
    BY <2>1, <2>2 DEF Injection, IsInjective
<1>5. Cardinality(R \ T) <= NumScanlines * PerScanline
  BY <1>3, <1>4, FS_Injection
<1>6. Cardinality(R) <= Cardinality(T) + Cardinality(R \ T)
  <2>1. R = T \cup (R \ T) /\ T \cap (R \ T) = {}
    BY <1>1
  <2> HIDE DEF R, T
  <2>2. Cardinality(T \cup (R \ T)) = Cardinality(T) + Cardinality(R \ T) - Cardinality({})
    BY <1>1, <2>1, FS_Union
  <2>3. Cardinality({}) = 0
    BY FS_EmptySet
  <2>4. Cardinality(R) = Cardinality(T \cup (R \ T))
    BY <2>1
  <2> QED
    BY <1>1, <2>2, <2>3, <2>4
<1>7. frame.points = NumScanlines * PerScanline /\ frame.returns = Cardinality(T)
  BY NestedFrame
<1> HIDE DEF R, T
<1>8. Cardinality(R) <= frame.points + frame.returns
  BY <1>1, <1>5, <1>6, <1>7, NestedFrame
<1> QED
  BY <1>8 DEF R
-----------------------------------------------------------------------------
(* The array.                                                              *)
LEMMA RowFilled ==
    ASSUME NEW fields, out' = Filled(fields), ~Raises(fields), frame' = frame,
           i \in Nat, Len(out) \in Nat, DOMAIN out = 1 .. Len(out), NEW base,
           Row(i + 1) = [f \in Columns |-> base[f]]
    PROVE  /\ Len(out') = Len(out) /\ DOMAIN out' = DOMAIN out
           /\ \A k \in Nat \ {0} : k # i + 1 => Row(k)' = Row(k)
           /\ \A k : k = i + 1 =>
                Row(k)' = [f \in Columns |-> IF f \in fields THEN Value(at, f) ELSE base[f]]
<1>1. out' = [k \in 1 .. Len(out) |-> out'[k]]
  BY DEF Filled
<1>2. Len(out') = Len(out) /\ DOMAIN out' = DOMAIN out
  BY <1>1, FunIsSeq
<1>3. \A k \in Nat \ {0} : k # i + 1 => Row(k)' = Row(k)
  BY <1>2 DEF Row, Filled, Zeros, Columns, RefFrameFull
<1>4. ASSUME NEW k, k = i + 1
      PROVE  Row(k)' = [f \in Columns |-> IF f \in fields THEN Value(at, f) ELSE base[f]]
  <2>1. CASE k <= Len(out)
    <3>1. k \in DOMAIN out /\ Row(i + 1) = out[k] /\ Row(k)' = out'[k]
      BY <1>2, <1>4, <2>1 DEF Row
    <3>2. out'[k] = [f \in Columns |-> IF f \in fields THEN Value(at, f) ELSE out[k][f]]
      BY <1>4, <3>1 DEF Filled
    <3> QED
      BY <3>1, <3>2
  <2>2. CASE ~(k <= Len(out))
    <3>1. Columns \cap fields = {}
      BY <1>4, <2>2 DEF Raises
    <3>2. Row(i + 1) = Zeros /\ Row(k)' = Zeros
      BY <1>2, <1>4, <2>2 DEF Row, Zeros, Columns, RefFrameFull
    <3> QED
      BY <3>1, <3>2
  <2> QED
    BY <2>1, <2>2
<1> QED
  BY <1>2, <1>3, <1>4

LEMMA AtPlace ==
    ASSUME frame \in NestedFrames, AtOK
    PROVE  /\ at = <<at[1], at[2], at[3]>> /\ \A r : [at EXCEPT ![3] = r] = <<at[1], at[2], r>>
           /\ at[1] \in Nat /\ at[2] \in Nat /\ at[3] \in Nat /\ at[1] >= 1 /\ at[2] >= 1
           /\ Len(frame.scanlines) \in Nat
           /\ ~InLine => at[1] > Len(frame.scanlines)
           /\ InLine => /\ at[1] \in 1 .. Len(frame.scanlines)
                        /\ Len(frame.scanlines[at[1]]) \in Nat
           /\ InLine /\ ~InPoint => at[2] > Len(frame.scanlines[at[1]])
           /\ ~InPoint => at[3] = 0
           /\ InPoint => /\ InLine /\ at[2] \in 1 .. Len(frame.scanlines[at[1]])
                         /\ Returns \in 0 .. MaxReturns /\ at[3] <= Returns + 1
<1>1. frame.scanlines \in NestedPoints /\ ~frame.packed
  BY NestedFrame
<1>2. /\ at \in Nat \X Nat \X Nat /\ at[1] >= 1 /\ at[2] >= 1
      /\ at[3] <= IF InPoint THEN Returns + 1 ELSE 0
  BY <1>1 DEF AtOK
<1>3. /\ at[1] \in Nat /\ at[2] \in Nat /\ at[3] \in Nat /\ at = <<at[1], at[2], at[3]>>
      /\ \A r : [at EXCEPT ![3] = r] = <<at[1], at[2], r>>
  BY <1>2
<1>4. /\ Len(frame.scanlines) \in Nat
      /\ \A s \in 1 .. Len(frame.scanlines) :
           /\ Len(frame.scanlines[s]) \in Nat
           /\ \A k \in 1 .. Len(frame.scanlines[s]) : frame.scanlines[s][k] \in 0 .. MaxReturns
  BY <1>1, LinesOK, FrameAssumption
<1> HIDE FrameAssumption
<1> QED
  BY <1>2, <1>3, <1>4 DEF InPoint, InLine, Returns

LEMMA NextReturns ==
    ASSUME frame \in NestedFrames, frame' = frame, NEW s \in Nat, NEW k \in Nat, s >= 1, k >= 1,
           at' = <<s, k, 0>>
    PROVE  at' \in Nat \X Nat \X Nat /\ at'[3] <= (IF InPoint' THEN Returns' + 1 ELSE 0)
<1>1. at'[1] = s /\ at'[2] = k /\ at'[3] = 0
  OBVIOUS
<1>2. InPoint' => Returns' \in Nat
  <2>1. frame.scanlines \in NestedPoints
    BY NestedFrame
  <2>2. /\ Len(frame.scanlines) \in Nat
        /\ \A a \in 1 .. Len(frame.scanlines) :
             /\ Len(frame.scanlines[a]) \in Nat
             /\ \A b \in 1 .. Len(frame.scanlines[a]) : frame.scanlines[a][b] \in Nat
    BY <2>1, LinesOK, FrameAssumption
  <2> QED
    BY <1>1, <2>2 DEF InPoint, InLine, Returns
<1> QED
  BY <1>1, <1>2

(* Without the two numbers only, an index is out of range.                 *)
LEMMA OnlyUncountedRaises ==
    ASSUME frame \in NestedFrames, NumpyInv, NEW fields, Raises(fields),
           Cardinality(Upto(Places(frame.scanlines, 1), at)) < Cardinality(Places(frame.scanlines, 1))
    PROVE  frame.points = 0
<1>1. i >= frame.points + frame.returns /\ i = Cardinality(Upto(Places(frame.scanlines, 1), at))
  BY DEF NumpyInv, Raises, Allocated
<1>2. /\ Cardinality(Upto(Places(frame.scanlines, 1), at)) \in Nat
      /\ Cardinality(Places(frame.scanlines, 1)) \in Nat
      /\ frame.points \in Nat /\ frame.returns \in Nat
  BY NestedFrame, PlacesAreFinite, UptoIsFinite, FS_CardinalityType
<1> QED
  BY <1>1, <1>2, RowsFit

(* The loop goes on, or an index was out of range for lack of the numbers. *)
NumpyGoesOn ==
    /\ frame' = frame /\ api' = api /\ AtOK'
    /\ \/ outcome' = "running" /\ NumpyInv'
       \/ outcome' = "raised" /\ frame.points = 0

LEMMA NumpyPointKeeps ==
    ASSUME FrameOK, AtOK, NumpyInv, NumpyPoint PROVE NumpyGoesOn
<1> DEFINE R == Places(frame.scanlines, 1)
           s == at[1]
           k == at[2]
<1>0. frame \in NestedFrames /\ frame.scanlines \in NestedPoints /\ ~frame.packed
  BY NestedFrame DEF FrameOK, NumpyInv
<1>1. /\ at = <<s, k, 0>> /\ [at EXCEPT ![3] = 1] = <<s, k, 1>> /\ s \in Nat /\ k \in Nat /\ s >= 1 /\ k >= 1
      /\ s \in 1 .. Len(frame.scanlines) /\ k \in 1 .. Len(frame.scanlines[s])
      /\ InPoint /\ Returns \in 0 .. MaxReturns /\ Returns = frame.scanlines[s][k] /\ at[3] = 0
  BY <1>0, AtPlace DEF NumpyPoint, Returns
<1>2. Upto(R, <<s, k, 1>>) = Upto(R, at)
  BY <1>0, <1>1, BeginPoint
<1>3. Cardinality(Upto(R, at)) < Cardinality(R)
  <2>1. 1 \in 1 .. MaxReturns /\ (1 <= frame.scanlines[s][k] \/ frame.scanlines[s][k] = 0)
    BY <1>1, FrameAssumption
  <2>2. Cardinality(Upto(R, <<s, k, 1>>)) < Cardinality(R)
    BY <1>0, <1>1, <2>1, OneMore
  <2> QED
    BY <1>2, <2>2
<1>4. CASE Raises(PointFields)
  <2>1. frame' = frame /\ api' = api /\ at' = at /\ i' = i /\ outcome' = "raised"
    BY <1>4 DEF NumpyPoint, Fill, Ends
  <2>2. AtOK'
    BY <2>1 DEF AtOK, InPoint, InLine, Returns
  <2> QED
    BY <1>0, <1>3, <1>4, <2>1, <2>2, OnlyUncountedRaises DEF NumpyGoesOn
<1>5. CASE ~Raises(PointFields)
  <2>1. /\ out' = Filled(PointFields) /\ at' = <<s, k, 1>> /\ i' = i
        /\ frame' = frame /\ api' = api /\ outcome' = "running"
    BY <1>1, <1>5 DEF NumpyPoint, Fill, Running
  <2>2. at'[1] = s /\ at'[2] = k /\ at'[3] = 1
    BY <2>1
  <2>3. AtOK'
    BY <1>1, <2>1, <2>2, SMTT(30) DEF AtOK, InPoint, InLine, Returns
  <2>4. /\ DOMAIN out = 1 .. Allocated /\ Len(out) = Allocated /\ Allocated \in Nat
        /\ i = Cardinality(Upto(R, at)) /\ i \in Nat
        /\ \A q \in Upto(R, at) : Row(Number(q, R)) = RowOf(q)
        /\ Row(i + 1) = Zeros /\ \A n \in Nat : n > i + 1 => Row(n) = Zeros
    BY <1>0, <1>1, NestedFrame DEF NumpyInv, Allocated, AtOK
  <2>5. /\ Len(out') = Len(out) /\ DOMAIN out' = DOMAIN out
        /\ \A n \in Nat \ {0} : n # i + 1 => Row(n)' = Row(n)
        /\ \A n : n = i + 1 =>
             Row(n)' = [f \in Columns |-> IF f \in PointFields THEN Value(at, f) ELSE Zeros[f]]
    <3>1. Zeros = [f \in Columns |-> Zeros[f]]
      BY DEF Zeros
    <3> QED
      BY <1>5, <2>1, <2>4, <3>1, RowFilled
  <2>6. PointRow' = [f \in Columns |-> IF f \in PointFields THEN Value(at, f) ELSE Zeros[f]]
    BY <1>1, <2>1, <2>2 DEF PointRow, Value, Zeros, Columns, RefFrameFull
  <2>7. Row(i + 1)' = PointRow'
    BY <2>1, <2>5, <2>6
  <2>8. \A q \in Upto(R, at) : Row(Number(q, R))' = RowOf(q) /\ RowOf(q)' = RowOf(q)
    <3> SUFFICES ASSUME NEW q \in Upto(R, at)
                 PROVE  Row(Number(q, R))' = RowOf(q) /\ RowOf(q)' = RowOf(q)
      OBVIOUS
    <3>1. Number(q, R) \in 1 .. i
      BY <1>0, <1>1, <2>4, PlacesAreFinite, NumberPassed
    <3>2. Number(q, R)' = Number(q, R)
      BY <2>1
    <3>3. \A n \in 1 .. i : Row(n)' = Row(n)
      BY <2>4, <2>5
    <3>4. Row(Number(q, R))' = Row(Number(q, R))
      BY <3>1, <3>2, <3>3
    <3>5. RowOf(q)' = RowOf(q)
      BY <2>1 DEF RowOf, Columns, RefFrameFull, Value
    <3> QED
      BY <2>4, <3>4, <3>5
  <2>9. \A n \in Nat : n > i + 1 => Row(n)' = Zeros
    BY <2>4, <2>5
  <2>10. Zeros' = Zeros /\ Allocated' = Allocated
    BY <2>1 DEF Zeros, Columns, RefFrameFull, Allocated
  <2>11. NumpyInv'
    BY <1>0, <1>2, <2>1, <2>2, <2>4, <2>5, <2>7, <2>8, <2>9, <2>10 DEF NumpyInv
  <2> QED
    BY <2>1, <2>3, <2>11 DEF NumpyGoesOn
<1> QED
  BY <1>4, <1>5

LEMMA NumpyReturnKeeps ==
    ASSUME FrameOK, AtOK, NumpyInv, NumpyReturn PROVE NumpyGoesOn
<1> DEFINE R == Places(frame.scanlines, 1)
           s == at[1]
           k == at[2]
           r == at[3]
<1>0. frame \in NestedFrames /\ frame.scanlines \in NestedPoints /\ ~frame.packed
  BY NestedFrame DEF FrameOK, NumpyInv
<1>1. /\ at = <<s, k, r>> /\ [at EXCEPT ![3] = @ + 1] = <<s, k, r + 1>>
      /\ s \in Nat /\ k \in Nat /\ s >= 1 /\ k >= 1 /\ r \in 1 .. MaxReturns /\ r \in Nat
      /\ s \in 1 .. Len(frame.scanlines) /\ k \in 1 .. Len(frame.scanlines[s])
      /\ InPoint /\ Returns \in Nat /\ r >= 1 /\ r <= Returns /\ Returns = frame.scanlines[s][k]
  <2>1. InPoint /\ r \in 1 .. Returns
    BY DEF NumpyReturn
  <2>2. /\ at = <<s, k, r>> /\ s \in Nat /\ k \in Nat /\ s >= 1 /\ k >= 1
        /\ s \in 1 .. Len(frame.scanlines) /\ k \in 1 .. Len(frame.scanlines[s])
        /\ Returns \in 0 .. MaxReturns
    BY <1>0, <2>1, AtPlace
  <2>3. [at EXCEPT ![3] = @ + 1] = <<s, k, r + 1>>
    BY <2>2
  <2>4. r \in 1 .. MaxReturns /\ r \in Nat /\ r >= 1 /\ r <= Returns /\ Returns \in Nat
    BY <2>1, <2>2, FrameAssumption
  <2> QED
    BY <2>1, <2>2, <2>3, <2>4 DEF Returns
<1>2. /\ at \in R /\ Upto(R, <<s, k, r + 1>>) = Upto(R, at) \cup {at}
      /\ Number(at, R) = Cardinality(Upto(R, at)) + 1
      /\ Cardinality(Upto(R, <<s, k, r + 1>>)) = Cardinality(Upto(R, at)) + 1
      /\ Cardinality(Upto(R, at)) < Cardinality(R)
  BY <1>0, <1>1, OneMore, SMTT(30)
<1>3. CASE Raises(RowFields)
  <2>1. frame' = frame /\ api' = api /\ at' = at /\ i' = i /\ outcome' = "raised"
    BY <1>3 DEF NumpyReturn, Fill, Ends
  <2>2. AtOK'
    BY <2>1 DEF AtOK, InPoint, InLine, Returns
  <2> QED
    BY <1>0, <1>2, <1>3, <2>1, <2>2, OnlyUncountedRaises DEF NumpyGoesOn
<1>4. CASE ~Raises(RowFields)
  <2>1. /\ out' = Filled(RowFields) /\ at' = <<s, k, r + 1>> /\ i' = i + 1
        /\ frame' = frame /\ api' = api /\ outcome' = "running"
    BY <1>1, <1>4 DEF NumpyReturn, Fill, Running
  <2>2. at'[1] = s /\ at'[2] = k /\ at'[3] = r + 1
    BY <2>1
  <2>3. AtOK'
    BY <1>1, <2>1, <2>2, SMTT(30) DEF AtOK, InPoint, InLine, Returns
  <2>4. /\ DOMAIN out = 1 .. Allocated /\ Len(out) = Allocated /\ Allocated \in Nat
        /\ i = Cardinality(Upto(R, at)) /\ i \in Nat
        /\ \A q \in Upto(R, at) : Row(Number(q, R)) = RowOf(q)
        /\ \A n \in Nat : n > i + 1 => Row(n) = Zeros
    BY <1>0, <1>1, NestedFrame DEF NumpyInv, Allocated, AtOK
  <2>5. /\ Len(out') = Len(out) /\ DOMAIN out' = DOMAIN out
        /\ \A n \in Nat \ {0} : n # i + 1 => Row(n)' = Row(n)
        /\ \A n : n = i + 1 => Row(n)' = [f \in Columns |-> Value(at, f)]
    <3>1. Row(i + 1) = Zeros \/ Row(i + 1) = PointRow
      BY DEF NumpyInv
    <3>2. Row(i + 1) = [f \in Columns |-> Row(i + 1)[f]]
      BY <3>1 DEF Zeros, PointRow
    <3>3. /\ Len(out') = Len(out) /\ DOMAIN out' = DOMAIN out
          /\ \A n \in Nat \ {0} : n # i + 1 => Row(n)' = Row(n)
          /\ \A n : n = i + 1 =>
               Row(n)' = [f \in Columns |-> IF f \in RowFields THEN Value(at, f) ELSE Row(i + 1)[f]]
      BY <1>4, <2>1, <2>4, <3>2, RowFilled
    <3>4. \A f \in Columns : f \in RowFields
      BY <1>0, NestedFrame DEF RowFields, Fields
    <3> QED
      BY <3>3, <3>4
  <2>6. RowOf(at) = [f \in Columns |-> Value(at, f)]
    BY <1>1 DEF RowOf
  <2>7. Row(i + 1)' = Zeros
    BY <2>1, <2>4, <2>5
  <2>8. \A q \in Upto(R, at) \cup {at} : Row(Number(q, R))' = RowOf(q)
    <3> SUFFICES ASSUME NEW q \in Upto(R, at) PROVE Row(Number(q, R))' = RowOf(q)
      <4>1. Number(at, R) = i + 1 /\ \A n : n = i + 1 => Row(n)' = RowOf(at)
        BY <1>2, <2>4, <2>5, <2>6
      <4>2. ASSUME NEW q, q = at PROVE Row(Number(q, R))' = RowOf(q)
        BY <2>1, <4>1, <4>2
      <4> QED
        BY <4>2
    <3>1. Number(q, R) \in 1 .. i
      BY <1>0, <1>1, <2>4, PlacesAreFinite, NumberPassed
    <3>2. Number(q, R)' = Number(q, R)
      BY <2>1
    <3>3. \A n \in 1 .. i : Row(n)' = Row(n)
      BY <2>4, <2>5
    <3>4. Row(Number(q, R))' = Row(Number(q, R))
      BY <3>1, <3>2, <3>3
    <3> QED
      BY <2>4, <3>4
  <2>9. \A n \in Nat : n > i + 2 => Row(n)' = Zeros
    BY <2>4, <2>5
  <2>10. /\ Zeros' = Zeros /\ Allocated' = Allocated /\ \A q : RowOf(q)' = RowOf(q)
    BY <2>1 DEF Zeros, Columns, RefFrameFull, Allocated, RowOf, Value
  <2>11. at'[3] # 1 /\ i' = Cardinality(Upto(R, at'))
    BY <1>1, <1>2, <2>1, <2>2, <2>4
  <2>12. NumpyInv'
    BY <1>0, <1>2, <2>1, <2>4, <2>5, <2>7, <2>8, <2>9, <2>10, <2>11 DEF NumpyInv
  <2> QED
    BY <2>1, <2>3, <2>12 DEF NumpyGoesOn
<1> QED
  BY <1>3, <1>4

LEMMA NumpyNextKeeps ==
    ASSUME FrameOK, AtOK, NumpyInv, NumpyNextPoint \/ NumpyNextLine PROVE NumpyGoesOn
<1> DEFINE R == Places(frame.scanlines, 1)
           s == at[1]
           k == at[2]
           r == at[3]
<1>0. frame \in NestedFrames /\ frame.scanlines \in NestedPoints /\ ~frame.packed
  BY NestedFrame DEF FrameOK, NumpyInv
<1>1. /\ at = <<s, k, r>> /\ s \in Nat /\ k \in Nat /\ r \in Nat /\ s >= 1 /\ k >= 1
      /\ s \in 1 .. Len(frame.scanlines)
  BY <1>0, AtPlace DEF NumpyNextPoint, NumpyNextLine
<1>2. /\ frame' = frame /\ api' = api /\ out' = out /\ outcome' = "running"
      /\ Zeros' = Zeros /\ Allocated' = Allocated
      /\ (\A q : RowOf(q)' = RowOf(q)) /\ (\A n : Row(n)' = Row(n))
  BY DEF NumpyNextPoint, NumpyNextLine, Running, Zeros, Columns, RefFrameFull, Allocated, RowOf,
         Value, Row
<1>3. /\ DOMAIN out = 1 .. Allocated /\ Len(out) = Allocated
      /\ i = Cardinality(Upto(R, at)) /\ i \in Nat
      /\ \A q \in Upto(R, at) : Row(Number(q, R)) = RowOf(q)
      /\ Row(i + 1) = (IF r = 1 THEN PointRow ELSE Zeros)
      /\ \A n \in Nat : n > i + 1 => Row(n) = Zeros
  BY DEF NumpyInv, AtOK
<1>4. CASE NumpyNextPoint /\ Returns = 0
  <2>1. /\ k \in 1 .. Len(frame.scanlines[s]) /\ frame.scanlines[s][k] = 0 /\ r = 1 /\ InPoint
        /\ i' = i + 1 /\ at' = <<s, k + 1, 0>>
    BY <1>0, <1>1, <1>4, AtPlace DEF NumpyNextPoint, Returns
  <2>2. /\ at \in R /\ Upto(R, <<s, k + 1, 0>>) = Upto(R, at) \cup {at}
        /\ Number(at, R) = Cardinality(Upto(R, at)) + 1
        /\ Cardinality(Upto(R, <<s, k + 1, 0>>)) = Cardinality(Upto(R, at)) + 1
    <3>1. 1 \in 1 .. MaxReturns
      BY FrameAssumption
    <3>2. at = <<s, k, 1>>
      BY <1>1, <2>1
    <3> HIDE DEF s, k, r
    <3>3. \A next : next = <<s, k + 1, 0>> =>
            /\ <<s, k, 1>> \in R /\ Upto(R, next) = Upto(R, <<s, k, 1>>) \cup {<<s, k, 1>>}
            /\ Number(<<s, k, 1>>, R) = Cardinality(Upto(R, <<s, k, 1>>)) + 1
            /\ Cardinality(Upto(R, next)) = Cardinality(Upto(R, <<s, k, 1>>)) + 1
      BY <1>0, <1>1, <2>1, <3>1, OneMore
    <3> QED
      BY <3>2, <3>3
  <2>3. RowOf(at) = Row(i + 1)
    <3>1. RowOf(at) = PointRow
      BY <2>1 DEF RowOf, PointRow
    <3> QED
      BY <1>3, <2>1, <3>1
  <2>4. \A q \in Upto(R, at) \cup {at} : Row(Number(q, R)) = RowOf(q)
    BY <1>3, <2>2, <2>3
  <2>5. at'[1] = s /\ at'[2] = k + 1 /\ at'[3] = 0
    BY <2>1
  <2>6. AtOK'
    BY <1>0, <1>1, <1>2, <1>3, <2>1, <2>5, NextReturns DEF AtOK
  <2>7. Row(i + 2) = Zeros /\ \A n \in Nat : n > i + 2 => Row(n) = Zeros
    BY <1>3
  <2>8. Row(i + 1)' = Zeros
    BY <1>2, <1>3, <2>1, <2>7
  <2>9. NumpyInv'
    BY <1>0, <1>2, <1>3, <2>1, <2>2, <2>4, <2>5, <2>7, <2>8, SMTT(30) DEF NumpyInv
  <2> QED
    BY <1>2, <2>6, <2>9 DEF NumpyGoesOn
<1>5. CASE NumpyNextPoint /\ Returns # 0
  <2>1. /\ k \in 1 .. Len(frame.scanlines[s]) /\ frame.scanlines[s][k] # 0 /\ InPoint
        /\ r > frame.scanlines[s][k] /\ i' = i /\ at' = <<s, k + 1, 0>> /\ Returns \in Nat
    BY <1>0, <1>1, <1>5, AtPlace, FrameAssumption, SMTT(30) DEF NumpyNextPoint, Returns
  <2>2. Upto(R, <<s, k + 1, 0>>) = Upto(R, at)
    BY <1>0, <1>1, <2>1, EndPoint
  <2>3. r # 1
    BY <2>1 DEF Returns
  <2>4. at'[1] = s /\ at'[2] = k + 1 /\ at'[3] = 0
    BY <2>1
  <2>5. AtOK'
    BY <1>0, <1>1, <1>2, <1>3, <2>1, <2>4, NextReturns, SMTT(30) DEF AtOK
  <2>6. Row(i + 1)' = Zeros
    BY <1>2, <1>3, <2>1, <2>3
  <2>7. NumpyInv'
    BY <1>0, <1>2, <1>3, <2>1, <2>2, <2>4, <2>6 DEF NumpyInv
  <2> QED
    BY <1>2, <2>5, <2>7 DEF NumpyGoesOn
<1>6. CASE NumpyNextLine
  <2>1. /\ k > Len(frame.scanlines[s]) /\ r = 0 /\ i' = i /\ at' = <<s + 1, 1, 0>>
    BY <1>0, <1>1, <1>6, AtPlace DEF NumpyNextLine
  <2>2. Upto(R, <<s + 1, 1, 0>>) = Upto(R, at)
    BY <1>0, <1>1, <2>1, EndLine
  <2>3. at'[1] = s + 1 /\ at'[2] = 1 /\ at'[3] = 0
    BY <2>1
  <2>4. AtOK'
    BY <1>0, <1>1, <1>2, <1>3, <2>1, <2>3, NextReturns DEF AtOK
  <2>5. Row(i + 1)' = Zeros
    BY <1>2, <1>3, <2>1
  <2>6. NumpyInv'
    BY <1>0, <1>2, <1>3, <2>1, <2>2, <2>3, <2>5 DEF NumpyInv
  <2> QED
    BY <1>2, <2>4, <2>6 DEF NumpyGoesOn
<1> QED
  BY <1>4, <1>5, <1>6

LEMMA NumpyEnds ==
    ASSUME FrameOK, AtOK, NumpyInv, NumpyReturns PROVE NumpyRows'
<1> DEFINE R == Places(frame.scanlines, 1)
<1>0. frame \in NestedFrames /\ frame.scanlines \in NestedPoints /\ ~frame.packed
  BY NestedFrame DEF FrameOK, NumpyInv
<1>1. Upto(R, at) = R
  <2>1. at = <<at[1], at[2], at[3]>> /\ at[1] > Len(frame.scanlines)
        /\ at[1] \in Nat /\ at[2] \in Nat /\ at[3] \in Nat
    BY <1>0, AtPlace DEF NumpyReturns
  <2>2. Upto(R, <<at[1], at[2], at[3]>>) = R
    BY <1>0, <2>1, EndLines
  <2> QED
    BY <2>1, <2>2
<1>2. i = Cardinality(R) /\ i \in Nat /\ \A q \in R : Row(Number(q, R)) = RowOf(q)
  BY <1>1 DEF NumpyInv, AtOK
<1>3. /\ out' = [k \in 1 .. i |-> Row(k)] /\ outcome' = "value"
      /\ frame' = frame /\ api' = "numpy" /\ R' = R
  BY DEF NumpyReturns, Ends, Running
<1>4. ASSUME NEW q \in R PROVE out'[Number(q, R)] = RowOf(q)
  <2>1. Number(q, R) \in 1 .. i
    BY <1>1, <1>2, <1>0, PlacesAreFinite, NumberPassed DEF AtOK
  <2> QED
    BY <1>2, <1>3, <2>1
<1>5. \A q : RowOf(q)' = RowOf(q) /\ Number(q, R)' = Number(q, R)
  BY <1>3 DEF RowOf, Columns, RefFrameFull, Value
<1> HIDE DEF R
<1>6. /\ DOMAIN out' = 1 .. Cardinality(R)
      /\ \A q \in R : out'[Number(q, R)] = RowOf(q)'
  BY <1>2, <1>3, <1>4, <1>5
<1>7. ~frame'.packed /\ outcome' # "raised" /\ outcome' # "None"
  BY <1>0, <1>3
<1> QED
  BY <1>3, <1>6, <1>7 DEF NumpyRows, R

-----------------------------------------------------------------------------
(* The calls.                                                              *)
LEMMA PackedFrame ==
    ASSUME frame \in PackedFrames
    PROVE  /\ frame.packed /\ frame.ids \in PackedIds /\ frame.fields \subseteq Fields
           /\ Columns = frame.fields /\ frame.returns \in Nat
           /\ frame.points \in Nat /\ frame.lines \in Int
<1>1. PICK fields \in SUBSET Fields, ids \in PackedIds, size \in Sizes, returns \in 0 .. MaxRows :
        frame = [packed |-> TRUE, fields |-> fields, reference |-> "asked", scanlines |-> <<>>, ids |-> ids,
                 points |-> size[1], lines |-> size[2], returns |-> returns]
  BY DEF PackedFrames
<1>2. size[1] \in Nat /\ size[2] \in Int
  <2>1. AllPoints \in Nat /\ NumScanlines \in Int /\ Partial \subseteq Nat
    BY FrameAssumption DEF AllPoints
  <2>2. \A x \in {0, AllPoints} \cup Partial : x \in Nat
    BY <2>1
  <2>3. \A x \in {NumScanlines, 0, -1} : x \in Int
    BY <2>1
  <2> QED
    BY <2>2, <2>3 DEF Sizes
<1> QED
  BY <1>1, <1>2, FrameAssumption DEF Columns

(* How scan lines are computed.                                            *)
Divides == PointsPerLine \in Nat \ {0}

LEMMA DivisorIs ==
    ASSUME frame \in PackedFrames
    PROVE  /\ "point_id" \in frame.fields /\ ~DividesByZero => Divides
           /\ DividesByZero => frame.lines <= 0 \/ frame.points < frame.lines
<1>1. frame.points \in Nat /\ frame.lines \in Int
  BY PackedFrame
<1>2. frame.lines > 0 => /\ PointsPerLine = frame.points \div frame.lines /\ PointsPerLine \in Nat
                         /\ PointsPerLine = 0 => frame.points < frame.lines
  BY <1>1 DEF PointsPerLine
<1>3. frame.lines < 0 => PointsPerLine = 0
  BY <1>1 DEF PointsPerLine
<1> QED
  BY <1>1, <1>2, <1>3 DEF DividesByZero, Divides

LEMMA Quotient ==
    ASSUME NEW n \in Nat \ {0}, NEW p \in Nat PROVE (n * p) \div n = p
<1>1. n * p \in Nat /\ (n * p) \div n \in Nat
  OBVIOUS
<1> QED
  BY <1>1, SMTT(30)

LEMMA WholeLines == Whole => \A p \in PointIds : Scanline(p) = p \div PerScanline
<1>1. Whole => PointsPerLine = PerScanline
  BY Quotient, FrameAssumption DEF Whole, PointsPerLine, AllPoints
<1> QED
  BY <1>1 DEF Scanline

LEMMA StartsKeeps ==
    ASSUME IInv, NEW name, NEW how, NEW value, Starts(name, how, value)
    PROVE  /\ FrameOK' /\ AtOK' /\ frame' = frame /\ i = 0 /\ i' = 0
           /\ at = <<1, 1, 0>> /\ at' = <<1, 1, 0>>
<1>1. UNCHANGED <<frame, at, i>> /\ i = 0 /\ at = <<1, 1, 0>>
  BY DEF Starts, IInv
<1> QED
  BY <1>1 DEF IInv, FrameOK, AtOK, InPoint, InLine, Returns

LEMMA NoneUpto ==
    ASSUME frame \in NestedFrames, NEW least
    PROVE  /\ Upto(Places(frame.scanlines, least), <<1, 1, 0>>) = {}
           /\ Cardinality(Upto(Places(frame.scanlines, least), <<1, 1, 0>>)) = 0
BY NestedFrame, BeginLines, FS_EmptySet

LEMMA NumpyStarts == ASSUME IInv, RecvFrameAsNumpy PROVE IInv'
<1>1. CASE frame.packed
  <2> DEFINE all == [k \in DOMAIN frame.ids |-> [f \in Columns |-> PackedValue(k, f)]]
  <2>1. Starts("numpy", "value", all)
    BY <1>1 DEF RecvFrameAsNumpy
  <2>2. FrameOK' /\ AtOK' /\ frame' = frame
    BY <2>1, StartsKeeps
  <2>3. Columns = frame.fields
    BY <1>1, PackedFrame DEF IInv, FrameOK
  <2>4. api' = "numpy" /\ outcome' = "value"
        /\ out' = [k \in DOMAIN frame.ids |-> [f \in frame.fields |-> PackedValue(k, f)]]
    BY <2>1, <2>3 DEF Starts
  <2>5. NumpyRows'
    BY <1>1, <2>2, <2>4 DEF NumpyRows, PackedValue
  <2> QED
    BY <2>2, <2>4, <2>5 DEF IInv, Running, SimplePoints, BackInv
<1>2. CASE ~frame.packed /\ ~HasPoints
  <2>1. Starts("numpy", "None", <<>>)
    BY <1>2 DEF RecvFrameAsNumpy
  <2>2. FrameOK' /\ AtOK' /\ frame' = frame
    BY <2>1, StartsKeeps
  <2>3. api' = "numpy" /\ outcome' = "None"
    BY <2>1 DEF Starts
  <2> QED
    BY <1>2, <2>2, <2>3 DEF IInv, Running, NumpyRows, SimplePoints, BackInv, HasPoints
<1>4. CASE ~frame.packed /\ HasPoints /\ ~HasReference
  <2>1. Starts("numpy", "raised", <<>>)
    BY <1>4 DEF RecvFrameAsNumpy
  <2>2. FrameOK' /\ AtOK' /\ frame' = frame
    BY <2>1, StartsKeeps
  <2>3. api' = "numpy" /\ outcome' = "raised"
    BY <2>1 DEF Starts
  <2> QED
    BY <1>4, <2>2, <2>3 DEF IInv, Running, NumpyRows, SimplePoints, BackInv, HasReference
<1>3. CASE ~frame.packed /\ HasPoints /\ HasReference
  <2> DEFINE zeros == [k \in 1 .. Allocated |-> Zeros]
             R == Places(frame.scanlines, 1)
  <2>1. Starts("numpy", "running", zeros)
    BY <1>3 DEF RecvFrameAsNumpy
  <2>2. FrameOK' /\ AtOK' /\ frame' = frame /\ i' = 0 /\ at' = <<1, 1, 0>>
    BY <2>1, StartsKeeps
  <2>3. api' = "numpy" /\ outcome' = "running" /\ out' = zeros
    BY <2>1 DEF Starts
  <2>4. frame \in NestedFrames /\ Allocated \in Nat
    BY <1>3, NestedFrame DEF IInv, FrameOK, Allocated
  <2>5. Len(zeros) = Allocated /\ DOMAIN zeros = 1 .. Allocated
    BY <2>4, FunIsSeq
  <2>6. Zeros' = Zeros /\ Allocated' = Allocated
    BY <2>2 DEF Zeros, Columns, RefFrameFull, Allocated
  <2>7. \A k \in Nat \ {0} : Row(k)' = Zeros
    BY <2>3, <2>4, <2>5, <2>6 DEF Row
  <2>8. Upto(R, at') = {} /\ Cardinality(Upto(R, at')) = 0 /\ R' = R
    BY <2>2, <2>4, NoneUpto
  <2>9. at'[3] # 1
    BY <2>2
  <2>10. Row(i + 1)' = Zeros /\ \A k \in Nat : k > i' + 1 => Row(k)' = Zeros
    <3>1. i = 0 /\ i' = 0
      BY <2>1, StartsKeeps
    <3> QED
      BY <2>7, <3>1
  <2> HIDE DEF zeros, R
  <2>11. NumpyInv'
    BY <1>3, <2>2, <2>3, <2>5, <2>6, <2>8, <2>9, <2>10 DEF NumpyInv, R
  <2> QED
    BY <2>2, <2>3, <2>11 DEF IInv, Running, NumpyRows, SimplePoints, BackInv
<1> QED
  BY <1>1, <1>2, <1>3, <1>4

LEMMA SimpleStarts == ASSUME IInv, ConvertToSimple PROVE IInv'
<1>1. CASE frame.packed
  <2>1. Starts("simple", "value", [k \in DOMAIN frame.ids |-> PackedPoint(k)])
    BY <1>1 DEF ConvertToSimple
  <2>2. FrameOK' /\ AtOK' /\ frame' = frame
    BY <2>1, StartsKeeps
  <2>4. api' = "simple" /\ outcome' = "value" /\ out' = [k \in DOMAIN frame.ids |-> PackedPoint(k)]
    BY <2>1 DEF Starts
  <2>5. SimplePoints'
    BY <1>1, <2>2, <2>4 DEF SimplePoints, PackedPoint, PackedValue
  <2> QED
    BY <2>2, <2>4, <2>5 DEF IInv, Running, NumpyRows, BackInv
<1>2. CASE ~frame.packed
  <2> DEFINE defaults == [k \in 1 .. Resized |-> DefaultPoint]
             R == Places(frame.scanlines, 0)
  <2>1. Starts("simple", "running", defaults)
    BY <1>2 DEF ConvertToSimple
  <2>2. FrameOK' /\ AtOK' /\ frame' = frame /\ i' = 0 /\ at' = <<1, 1, 0>>
    BY <2>1, StartsKeeps
  <2>3. api' = "simple" /\ outcome' = "running" /\ out' = defaults
    BY <2>1 DEF Starts
  <2>4. frame \in NestedFrames /\ Resized \in Nat
    BY <1>2, NestedFrame DEF IInv, FrameOK, Resized
  <2>5. Len(defaults) = Resized /\ DOMAIN defaults = 1 .. Resized
    BY <2>4, FunIsSeq
  <2>6. Upto(R, at') = {} /\ Cardinality(Upto(R, at')) = 0 /\ R' = R /\ Resized' = Resized
    BY <2>2, <2>4, NoneUpto DEF Resized
  <2> HIDE DEF defaults, R
  <2>7. SimpleInv'
    BY <1>2, <2>2, <2>3, <2>4, <2>5, <2>6 DEF SimpleInv, R
  <2> QED
    BY <2>2, <2>3, <2>7 DEF IInv, Running, NumpyRows, SimplePoints, BackInv
<1> QED
  BY <1>1, <1>2

-----------------------------------------------------------------------------
(* The points of frame_t.                                                  *)
SimpleGoesOn ==
    /\ frame' = frame /\ api' = api /\ AtOK'
    /\ \/ outcome' = "running" /\ SimpleInv'
       \/ outcome' = "undefined" /\ (frame.points = 0 \/ "cartesian" \notin frame.fields)

LEMMA SimpleReturnKeeps ==
    ASSUME FrameOK, AtOK, SimpleInv, SimpleReturn PROVE SimpleGoesOn
<1> DEFINE R == Places(frame.scanlines, 0)
           s == at[1]
           k == at[2]
           r == at[3]
<1>0. frame \in NestedFrames /\ frame.scanlines \in NestedPoints /\ ~frame.packed
  BY NestedFrame DEF FrameOK, SimpleInv
<1>1. /\ at = <<s, k, r>> /\ [at EXCEPT ![3] = @ + 1] = <<s, k, r + 1>>
      /\ s \in Nat /\ k \in Nat /\ s >= 1 /\ k >= 1 /\ r \in 1 .. MaxReturns /\ r \in Nat
      /\ s \in 1 .. Len(frame.scanlines) /\ k \in 1 .. Len(frame.scanlines[s])
      /\ InPoint /\ Returns \in Nat /\ r >= 1 /\ r <= Returns /\ Returns = frame.scanlines[s][k]
  <2>1. InPoint /\ r \in 1 .. Returns
    BY DEF SimpleReturn
  <2>2. /\ at = <<s, k, r>> /\ s \in Nat /\ k \in Nat /\ s >= 1 /\ k >= 1
        /\ s \in 1 .. Len(frame.scanlines) /\ k \in 1 .. Len(frame.scanlines[s])
        /\ Returns \in 0 .. MaxReturns
    BY <1>0, <2>1, AtPlace
  <2>3. [at EXCEPT ![3] = @ + 1] = <<s, k, r + 1>>
    BY <2>2
  <2>4. r \in 1 .. MaxReturns /\ r \in Nat /\ r >= 1 /\ r <= Returns /\ Returns \in Nat
    BY <2>1, <2>2, FrameAssumption
  <2> QED
    BY <2>1, <2>2, <2>3, <2>4 DEF Returns
<1>2. /\ at \in R /\ Upto(R, <<s, k, r + 1>>) = Upto(R, at) \cup {at}
      /\ Number(at, R) = Cardinality(Upto(R, at)) + 1
      /\ Cardinality(Upto(R, <<s, k, r + 1>>)) = Cardinality(Upto(R, at)) + 1
      /\ Cardinality(Upto(R, at)) < Cardinality(R)
  BY <1>0, <1>1, OneMore, SMTT(30)
<1>3. /\ DOMAIN out = 1 .. Resized /\ Len(out) = Resized /\ Resized \in Nat /\ Resized = frame.returns
      /\ i = Cardinality(Upto(R, at)) /\ i \in Nat /\ i <= Resized
      /\ \A q \in Upto(R, at) : out[Number(q, R)] = SimplePoint(q)
  BY <1>0, NestedFrame DEF SimpleInv, Resized, AtOK
<1>4. CASE i >= Len(out) \/ "cartesian" \notin frame.fields
  <2>1. frame' = frame /\ api' = api /\ at' = at /\ outcome' = "undefined"
    BY <1>4 DEF SimpleReturn, Ends
  <2>2. AtOK'
    BY <1>4 DEF SimpleReturn, Ends, AtOK, InPoint, InLine, Returns
  <2>3. Cardinality(R) \in Nat
    BY PlacesAreFinite, FS_CardinalityType
  <2> HIDE DEF R
  <2>4. i >= Len(out) => frame.returns # Cardinality(R)
    BY <1>2, <1>3, <2>3
  <2>5. i >= Len(out) => frame.points = 0
    BY <1>0, <2>4, NestedFrame DEF R
  <2> QED
    BY <1>4, <2>1, <2>2, <2>5 DEF SimpleGoesOn
<1>5. CASE ~(i >= Len(out) \/ "cartesian" \notin frame.fields)
  <2>1. /\ out' = [out EXCEPT ![i + 1] = SimplePoint(at)] /\ at' = <<s, k, r + 1>> /\ i' = i + 1
        /\ frame' = frame /\ api' = api /\ outcome' = "running"
    BY <1>1, <1>5 DEF SimpleReturn, Running
  <2>2. at'[1] = s /\ at'[2] = k /\ at'[3] = r + 1
    BY <2>1
  <2>3. AtOK'
    BY <1>1, <2>1, <2>2, SMTT(30) DEF AtOK, InPoint, InLine, Returns
  <2>4. i < Resized /\ i + 1 \in 1 .. Resized
    BY <1>3, <1>5
  <2>5. out' = [n \in 1 .. Resized |-> IF n = i + 1 THEN SimplePoint(at) ELSE out[n]]
    BY <1>3, <2>1
  <2>6. DOMAIN out' = 1 .. Resized /\ Len(out') = Resized
    BY <1>3, <2>5, FunIsSeq
  <2>7. \A q \in Upto(R, at) : out'[Number(q, R)] = SimplePoint(q)
    <3> SUFFICES ASSUME NEW q \in Upto(R, at) PROVE out'[Number(q, R)] = SimplePoint(q)
      OBVIOUS
    <3>1. Number(q, R) \in 1 .. i
      BY <1>1, <1>3, PlacesAreFinite, NumberPassed
    <3>2. \A n \in 1 .. i : out'[n] = out[n]
      BY <1>3, <2>4, <2>5
    <3> QED
      BY <1>3, <3>1, <3>2
  <2>8. out'[Number(at, R)] = SimplePoint(at)
    BY <1>2, <1>3, <2>4, <2>5
  <2>9. /\ R' = R /\ Resized' = Resized /\ \A q : SimplePoint(q)' = SimplePoint(q)
        /\ \A q : Number(q, R)' = Number(q, R)
    BY <2>1 DEF Resized, SimplePoint, Value
  <2>10. i' = Cardinality(Upto(R, at')) /\ i' <= Resized /\ Upto(R, at') = Upto(R, at) \cup {at}
    <3>1. /\ Upto(R, at') = Upto(R, at) \cup {at}
          /\ Cardinality(Upto(R, at')) = Cardinality(Upto(R, at)) + 1
      BY <1>2, <2>1
    <3>2. i' = i + 1 /\ i < Resized /\ i \in Nat /\ Resized \in Nat
      BY <1>3, <2>1, <2>4
    <3>3. i' <= Resized
      BY <3>2
    <3>4. i' = Cardinality(Upto(R, at')) 
      BY <1>3, <3>1, <3>2
    <3> QED
      BY <3>1, <3>3, <3>4
  <2> HIDE DEF R
  <2>11. \A q \in Upto(R, at') : (out[Number(q, R)])' = SimplePoint(q)'
    BY <2>7, <2>8, <2>9, <2>10
  <2>12. SimpleInv'
    BY <1>0, <2>1, <2>6, <2>9, <2>10, <2>11 DEF SimpleInv, R
  <2> QED
    BY <2>1, <2>3, <2>12 DEF SimpleGoesOn
<1> QED
  BY <1>4, <1>5

LEMMA SimpleNextKeeps ==
    ASSUME FrameOK, AtOK, SimpleInv, SimpleNext PROVE SimpleGoesOn
<1> DEFINE R == Places(frame.scanlines, 0)
           s == at[1]
           k == at[2]
           r == at[3]
<1>0. frame \in NestedFrames /\ frame.scanlines \in NestedPoints /\ ~frame.packed
  BY NestedFrame DEF FrameOK, SimpleInv
<1>1. /\ at = <<s, k, r>> /\ s \in Nat /\ k \in Nat /\ r \in Nat /\ s >= 1 /\ k >= 1
      /\ s \in 1 .. Len(frame.scanlines) /\ [at EXCEPT ![3] = 1] = <<s, k, 1>>
  BY <1>0, AtPlace DEF SimpleNext
<1>2. /\ frame' = frame /\ api' = api /\ out' = out /\ outcome' = "running" /\ i' = i
      /\ R' = R /\ Resized' = Resized /\ \A q : SimplePoint(q)' = SimplePoint(q)
  BY DEF SimpleNext, Running, Resized, SimplePoint, Value
<1>3. AtOK' /\ Upto(R, at') = Upto(R, at)
  <2>1. CASE InPoint /\ at[3] = 0 /\ at' = [at EXCEPT ![3] = 1]
    <3>1. at' = <<s, k, 1>> /\ at'[1] = s /\ at'[2] = k /\ at'[3] = 1 /\ Returns \in 0 .. MaxReturns
          /\ at = <<s, k, 0>>
      BY <1>0, <1>1, <2>1, AtPlace
    <3>2. AtOK'
      BY <1>1, <1>2, <2>1, <3>1, FrameAssumption DEF AtOK, InPoint, InLine, Returns
    <3> QED
      BY <1>0, <1>1, <3>1, <3>2, BeginPoint
  <2>2. CASE InPoint /\ at[3] > Returns /\ at' = <<at[1], at[2] + 1, 0>>
    <3>1. /\ k \in 1 .. Len(frame.scanlines[s]) /\ Returns \in 0 .. MaxReturns /\ Returns \in Nat
          /\ Returns = frame.scanlines[s][k]
      BY <1>0, <2>2, AtPlace, FrameAssumption DEF Returns
    <3>2. r > frame.scanlines[s][k] /\ r >= 1
      BY <1>1, <2>2, <3>1
    <3>3. Upto(R, <<s, k + 1, 0>>) = Upto(R, <<s, k, r>>)
      BY <1>0, <1>1, <3>1, <3>2, EndPoint
    <3>4. at'[1] = s /\ at'[2] = k + 1 /\ at'[3] = 0
      BY <2>2
    <3>5. AtOK'
      BY <1>0, <1>1, <1>2, <2>2, <3>4, NextReturns DEF AtOK
    <3> QED
      BY <1>1, <2>2, <3>3, <3>5
  <2>3. CASE ~InPoint /\ at' = <<at[1] + 1, 1, 0>>
    <3>1. k > Len(frame.scanlines[s]) /\ r = 0
      BY <1>0, <2>3, AtPlace DEF SimpleNext
    <3>2. Upto(R, <<s + 1, 1, 0>>) = Upto(R, <<s, k, 0>>)
      BY <1>0, <1>1, <3>1, EndLine
    <3>3. at'[1] = s + 1 /\ at'[2] = 1 /\ at'[3] = 0
      BY <2>3
    <3>4. AtOK'
      BY <1>0, <1>1, <1>2, <2>3, <3>3, NextReturns DEF AtOK
    <3> QED
      BY <1>1, <2>3, <3>1, <3>2, <3>4
  <2> QED
    BY <2>1, <2>2, <2>3 DEF SimpleNext
<1>4. \A q : Number(q, R)' = Number(q, R)
  BY <1>2
<1>5. SimpleInv'
  BY <1>2, <1>3, <1>4 DEF SimpleInv
<1> QED
  BY <1>2, <1>3, <1>5 DEF SimpleGoesOn

LEMMA SimpleEnds ==
    ASSUME FrameOK, AtOK, SimpleInv, SimpleReturns PROVE SimplePoints'
<1> DEFINE R == Places(frame.scanlines, 0)
<1>0. frame \in NestedFrames /\ frame.scanlines \in NestedPoints /\ ~frame.packed
  BY NestedFrame DEF FrameOK, SimpleInv
<1>1. Upto(R, at) = R
  <2>1. at = <<at[1], at[2], at[3]>> /\ at[1] > Len(frame.scanlines)
        /\ at[1] \in Nat /\ at[2] \in Nat /\ at[3] \in Nat
    BY <1>0, AtPlace DEF SimpleReturns
  <2>2. Upto(R, <<at[1], at[2], at[3]>>) = R
    BY <1>0, <2>1, EndLines
  <2> QED
    BY <2>1, <2>2
<1>2. /\ i = Cardinality(R) /\ i \in Nat /\ i <= Resized /\ Resized = frame.returns /\ Resized \in Nat
      /\ DOMAIN out = 1 .. Resized /\ \A q \in R : out[Number(q, R)] = SimplePoint(q)
  BY <1>0, <1>1, NestedFrame DEF SimpleInv, AtOK, Resized
<1>3. Resized = Cardinality(R)
  BY <1>0, <1>2, NestedFrame
<1>4. /\ out' = out /\ outcome' = "value" /\ frame' = frame /\ api' = "simple" /\ R' = R
      /\ \A q : SimplePoint(q)' = SimplePoint(q) /\ Number(q, R)' = Number(q, R)
  BY DEF SimpleReturns, Ends, Running, SimplePoint, Value
<1> HIDE DEF R
<1> QED
  BY <1>0, <1>2, <1>3, <1>4 DEF SimplePoints, R

-----------------------------------------------------------------------------
(* Ordered lists.                                                          *)
LEMMA ListIs ==
    ASSUME NEW S \in SUBSET Nat, NEW seq \in Seq(Nat)
    PROVE  Lists(seq, S) <=> /\ \A k \in 1 .. Len(seq) : seq[k] \in S
                             /\ \A x \in S : \E k \in 1 .. Len(seq) : seq[k] = x
                             /\ \A j, k \in 1 .. Len(seq) : j < k => seq[j] < seq[k]
<1>1. DOMAIN seq = 1 .. Len(seq)
  OBVIOUS
<1>2. S = {seq[k] : k \in 1 .. Len(seq)}
      <=> ((\A k \in 1 .. Len(seq) : seq[k] \in S)
           /\ (\A x \in S : \E k \in 1 .. Len(seq) : seq[k] = x))
  OBVIOUS
<1> QED
  BY <1>1, <1>2 DEF Lists

(* A number that is not below those of a list is its last, or it is new.   *)
LEMMA ListsNext ==
    ASSUME NEW S \in SUBSET Nat, NEW seq \in Seq(Nat), Lists(seq, S), NEW x \in Nat, \A y \in S : y <= x
    PROVE  /\ seq # <<>> /\ seq[Len(seq)] = x => x \in S
           /\ ~(seq # <<>> /\ seq[Len(seq)] = x) =>
                x \notin S /\ Lists(Append(seq, x), S \cup {x})
<1> DEFINE n == Len(seq)
           new == Append(seq, x)
<1>1. /\ n \in Nat /\ DOMAIN seq = 1 .. n /\ (seq # <<>> => n \in 1 .. n) /\ (seq = <<>> => n = 0)
      /\ \A k \in 1 .. n : seq[k] \in S /\ seq[k] \in Nat
      /\ \A y \in S : \E k \in 1 .. n : seq[k] = y
      /\ \A j, k \in 1 .. n : j < k => seq[j] < seq[k]
  <2>1. n \in Nat /\ DOMAIN seq = 1 .. n /\ (seq # <<>> => n \in 1 .. n) /\ (seq = <<>> => n = 0)
    OBVIOUS
  <2> QED
    BY <2>1, ListIs
<1>2. ASSUME seq # <<>>, seq[n] = x PROVE x \in S
  BY <1>1, <1>2
<1>3. ASSUME ~(seq # <<>> /\ seq[n] = x) PROVE x \notin S /\ Lists(new, S \cup {x})
  <2>1. \A k \in 1 .. n : seq[k] < x
    <3> SUFFICES ASSUME NEW k \in 1 .. n PROVE seq[k] < x
      OBVIOUS
    <3>1. seq # <<>> /\ n \in 1 .. n /\ seq[n] < x
      BY <1>1, <1>3
    <3> HIDE DEF n
    <3>2. k = n \/ seq[k] < seq[n]
      BY <1>1, <3>1
    <3> QED
      BY <1>1, <3>1, <3>2
  <2>2. x \notin S
    BY <1>1, <2>1
  <2>3. /\ new \in Seq(Nat) /\ Len(new) = n + 1 /\ new[n + 1] = x
        /\ \A k \in 1 .. n : new[k] = seq[k]
    OBVIOUS
  <2> HIDE DEF new, n
  <2>4. \A k \in 1 .. Len(new) : new[k] \in S \cup {x}
    BY <1>1, <2>3
  <2>5. \A y \in S \cup {x} : \E k \in 1 .. Len(new) : new[k] = y
    BY <1>1, <2>3
  <2>6. \A j, k \in 1 .. Len(new) : j < k => new[j] < new[k]
    <3> SUFFICES ASSUME NEW j \in 1 .. n + 1, NEW k \in 1 .. n + 1, j < k PROVE new[j] < new[k]
      BY <2>3
    <3>1. j \in 1 .. n /\ (k \in 1 .. n \/ k = n + 1)
      BY <1>1
    <3> QED
      BY <1>1, <2>1, <2>3, <3>1
  <2> QED
    BY <2>2, <2>3, <2>4, <2>5, <2>6, ListIs
<1> QED
  BY <1>2, <1>3

(* Ids are different. *)
LEMMA IdsOf ==
    ASSUME NEW seq, NEW n \in Nat, DOMAIN seq = 1 .. n, NEW S \in SUBSET Nat, Lists(Ids(seq), S)
    PROVE  /\ Ids(seq) \in Seq(Nat) /\ Len(Ids(seq)) = n /\ \A k \in 1 .. n : Ids(seq)[k] = seq[k].id
           /\ \A k \in 1 .. n : seq[k].id \in S
           /\ \A k \in 1 .. n : k # n => seq[k].id < seq[n].id
<1>1. DOMAIN Ids(seq) = 1 .. n /\ \A k \in 1 .. n : Ids(seq)[k] = seq[k].id
  BY DEF Ids
<1>2. \A k \in 1 .. n : seq[k].id \in S
  BY <1>1 DEF Lists
<1>3. Ids(seq) \in [1 .. n -> Nat]
  BY <1>1, <1>2 DEF Ids
<1>4. Ids(seq) \in Seq(Nat) /\ Len(Ids(seq)) = n
  BY <1>3
<1>5. ASSUME NEW k \in 1 .. n, k # n PROVE seq[k].id < seq[n].id
  BY <1>1, <1>5 DEF Lists
<1> QED
  BY <1>1, <1>2, <1>4, <1>5

(* One more. *)
LEMMA NextId ==
    ASSUME NEW X, NEW seq \in Seq(X), NEW S \in SUBSET Nat, Lists(Ids(seq), S), NEW new \in X,
           new.id \in Nat, \A y \in S : y <= new.id
    PROVE  /\ seq # <<>> /\ seq[Len(seq)].id = new.id => new.id \in S
           /\ ~(seq # <<>> /\ seq[Len(seq)].id = new.id) =>
                new.id \notin S /\ Lists(Ids(Append(seq, new)), S \cup {new.id})
<1> DEFINE n == Len(seq)
           x == new.id
<1>1. n \in Nat /\ DOMAIN seq = 1 .. n /\ (seq # <<>> => n \in 1 .. n) /\ (seq = <<>> => n = 0)
  OBVIOUS
<1>2. Ids(seq) \in Seq(Nat) /\ Len(Ids(seq)) = n /\ \A k \in 1 .. n : Ids(seq)[k] = seq[k].id
  BY <1>1, IdsOf
<1>3. Ids(seq) # <<>> <=> seq # <<>>
  BY <1>1, <1>2
<1>4. Ids(Append(seq, new)) = Append(Ids(seq), x)
  <2>1. /\ DOMAIN Append(seq, new) = 1 .. n + 1 /\ Append(seq, new)[n + 1] = new
        /\ \A k \in 1 .. n : Append(seq, new)[k] = seq[k]
    OBVIOUS
  <2>2. Ids(Append(seq, new)) = [k \in 1 .. n + 1 |-> Append(seq, new)[k].id]
    BY <2>1 DEF Ids
  <2>3. \A k \in 1 .. n + 1 : Append(seq, new)[k].id = IF k = n + 1 THEN x ELSE seq[k].id
    BY <1>1, <2>1
  <2>4. Append(Ids(seq), x) = [k \in 1 .. n + 1 |-> IF k = n + 1 THEN x ELSE Ids(seq)[k]]
    BY <1>1, <1>2
  <2> QED
    BY <1>1, <1>2, <2>2, <2>3, <2>4
<1> HIDE DEF n, x
<1>5. /\ Ids(seq) # <<>> /\ Ids(seq)[n] = x => x \in S
      /\ ~(Ids(seq) # <<>> /\ Ids(seq)[n] = x) => x \notin S /\ Lists(Append(Ids(seq), x), S \cup {x})
  <2>1. x \in Nat /\ \A y \in S : y <= x
    BY DEF x
  <2>2. \A z \in Nat : (\A y \in S : y <= z) /\ ~(Ids(seq) # <<>> /\ Ids(seq)[n] = z) =>
          z \notin S /\ Lists(Append(Ids(seq), z), S \cup {z})
    BY <1>2, ListsNext
  <2>3. \A z \in Nat : (\A y \in S : y <= z) /\ Ids(seq) # <<>> /\ Ids(seq)[n] = z => z \in S
    BY <1>2, ListsNext
  <2> QED
    BY <2>1, <2>2, <2>3
<1> QED
  BY <1>1, <1>2, <1>3, <1>4, <1>5 DEF n, x

-----------------------------------------------------------------------------
(* A packed frame: a row in three stages, its scan line, its point, itself.*)
PointsOf(P, line) == {p \in P : Scanline(p) = line}
RowsOf(J, p) == {j \in J : frame.ids[j] = p}
LineHolds(line, P, J) ==
    /\ Lists(Ids(line.points), PointsOf(P, line.id))
    /\ \A k \in DOMAIN line.points : Lists(line.points[k].returns, RowsOf(J, line.points[k].id))
Holds(lines, S, P, J) ==
    /\ Lists(Ids(lines), S)
    /\ \A s \in DOMAIN lines : LineHolds(lines[s], P, J)

LEMMA ScanlineOrder ==
    ASSUME Divides, NEW p \in Nat, NEW q \in Nat, p <= q PROVE Scanline(p) <= Scanline(q) /\ Scanline(p) \in Nat
BY DEF Scanline, Divides

(* The last of a list is replaced. *)
LEMMA LastReplaced ==
    ASSUME NEW X, NEW seq \in Seq(X), seq # <<>>, NEW x \in X
    PROVE  LET new == [seq EXCEPT ![Len(seq)] = x]
           IN /\ new \in Seq(X) /\ Len(new) = Len(seq) /\ DOMAIN new = 1 .. Len(seq) /\ Len(seq) \in 1 .. Len(seq)
              /\ new[Len(seq)] = x /\ \A k \in 1 .. Len(seq) : k # Len(seq) => new[k] = seq[k]
              /\ x.id = seq[Len(seq)].id => Ids(new) = Ids(seq)
<1> DEFINE n == Len(seq)
           new == [seq EXCEPT ![n] = x]
<1>1. n \in Nat /\ DOMAIN seq = 1 .. n /\ n \in 1 .. n /\ seq \in [1 .. n -> X]
  OBVIOUS
<1>2. new \in [1 .. n -> X] /\ DOMAIN new = 1 .. n /\ new[n] = x /\ \A k \in 1 .. n : k # n => new[k] = seq[k]
  BY <1>1
<1> HIDE DEF n, new
<1>3. new \in Seq(X) /\ Len(new) = n
  BY <1>1, <1>2
<1>4. x.id = seq[n].id => Ids(new) = Ids(seq)
  BY <1>1, <1>2 DEF Ids
<1> QED
  BY <1>1, <1>2, <1>3, <1>4 DEF n, new

LEMMA ElementIs ==
    ASSUME NEW X, NEW seq \in Seq(X), NEW k \in 1 .. Len(seq) PROVE seq[k] \in X
OBVIOUS

LEMMA Empty == Ids(<<>>) = <<>> /\ Lists(<<>>, {})
BY DEF Ids, Lists

LEMMA LineOpened ==
    ASSUME Divides, NEW lines \in Seq(LineRecords), NEW P \in SUBSET Nat, NEW J, NEW p \in Nat,
           \A x \in P : x <= p, Holds(lines, {Scanline(x) : x \in P}, P, J)
    PROVE  LET new == InLineOf(lines, p)
           IN /\ new \in Seq(LineRecords) /\ new # <<>> /\ new[Len(new)].id = Scanline(p)
              /\ Holds(new, {Scanline(x) : x \in P \cup {p}}, P, J)
<1> DEFINE S == {Scanline(x) : x \in P}
           new == [id |-> Scanline(p), points |-> <<>>]
<1>1. S \in SUBSET Nat /\ Scanline(p) \in Nat /\ (\A y \in S : y <= Scanline(p))
      /\ {Scanline(x) : x \in P \cup {p}} = S \cup {Scanline(p)}
  BY ScanlineOrder
<1>2. new \in LineRecords /\ new.id = Scanline(p) /\ new.points = <<>>
  BY <1>1 DEF LineRecords, NumbersOrUnset
<1>3. Lists(Ids(lines), S)
  BY DEF Holds
<1>4. /\ lines # <<>> /\ lines[Len(lines)].id = Scanline(p) => Scanline(p) \in S
      /\ ~(lines # <<>> /\ lines[Len(lines)].id = Scanline(p)) =>
           Scanline(p) \notin S /\ Lists(Ids(Append(lines, new)), S \cup {Scanline(p)})
  <2> HIDE DEF S, new
  <2>1. new.id \in Nat /\ \A y \in S : y <= new.id
    BY <1>1, <1>2
  <2>2. /\ lines # <<>> /\ lines[Len(lines)].id = new.id => new.id \in S
        /\ ~(lines # <<>> /\ lines[Len(lines)].id = new.id) =>
             new.id \notin S /\ Lists(Ids(Append(lines, new)), S \cup {new.id})
    BY <1>1, <1>2, <1>3, <2>1, NextId
  <2> QED
    BY <1>2, <2>2
<1>5. CASE SameLine(lines, p)
  BY <1>1, <1>4, <1>5 DEF InLineOf, SameLine
<1>6. CASE ~SameLine(lines, p)
  <2>1. Scanline(p) \notin S /\ Lists(Ids(Append(lines, new)), S \cup {Scanline(p)})
    BY <1>4, <1>6 DEF SameLine
  <2>2. PointsOf(P, new.id) = {}
    BY <1>2, <2>1 DEF PointsOf
  <2>3. LineHolds(new, P, J)
    <3> HIDE DEF new
    <3>1. DOMAIN new.points = {}
      BY <1>2
    <3> QED
      BY <1>2, <2>2, <3>1, Empty DEF LineHolds
  <2>4. /\ Append(lines, new) \in Seq(LineRecords) /\ Append(lines, new) # <<>>
        /\ Len(Append(lines, new)) = Len(lines) + 1 /\ Append(lines, new)[Len(lines) + 1] = new
        /\ \A s \in DOMAIN Append(lines, new) :
             Append(lines, new)[s] = new \/ (s \in DOMAIN lines /\ Append(lines, new)[s] = lines[s])
    <3> HIDE DEF new
    <3> QED
      BY <1>2
  <2>5. \A s \in DOMAIN Append(lines, new) : LineHolds(Append(lines, new)[s], P, J)
    BY <2>3, <2>4 DEF Holds
  <2>6. InLineOf(lines, p) = Append(lines, new)
    BY <1>6 DEF InLineOf
  <2> QED
    BY <1>1, <1>2, <2>1, <2>4, <2>5, <2>6 DEF Holds
<1> QED
  BY <1>5, <1>6

(* Its last point is p. *)
LineEndsIn(line, p, P, J) ==
    /\ line.points \in Seq(PointRecords) /\ line.points # <<>>
    /\ line.points[Len(line.points)].id = p /\ LineHolds(line, P, J)

LEMMA PointOpenedInLine ==
    ASSUME NEW line \in LineRecords, NEW P \in SUBSET Nat, NEW J, NEW p \in Nat, \A x \in P : x <= p,
           \A j \in J : frame.ids[j] \in P, line.id = Scanline(p), LineHolds(line, P, J),
           NEW new, new.id = line.id, new.points = InPointOf(line.points, p)
    PROVE  LineEndsIn(new, p, P \cup {p}, J)
<1> DEFINE points == line.points
           Q == PointsOf(P, line.id)
           point == NewPoint(p)
<1>1. points \in Seq(PointRecords) /\ line.id \in NumbersOrUnset
  BY DEF LineRecords
<1>2. Q \in SUBSET Nat /\ (\A y \in Q : y <= p) /\ PointsOf(P \cup {p}, line.id) = Q \cup {p}
      /\ (p \in P => p \in Q) /\ (p \in Q => p \in P)
  BY DEF PointsOf
<1>3. Lists(Ids(points), Q)
      /\ \A k \in DOMAIN points : Lists(points[k].returns, RowsOf(J, points[k].id))
  BY DEF LineHolds
<1>4. point \in PointRecords /\ point.id = p /\ point.returns = <<>>
  BY DEF NewPoint, PointRecords, NumbersOrUnset
<1>5. /\ points # <<>> /\ points[Len(points)].id = p => p \in Q
      /\ ~(points # <<>> /\ points[Len(points)].id = p) =>
           p \notin Q /\ Lists(Ids(Append(points, point)), Q \cup {p})
  <2> HIDE DEF points, Q, point
  <2>1. point.id \in Nat /\ \A y \in Q : y <= point.id
    BY <1>2, <1>4
  <2>2. /\ points # <<>> /\ points[Len(points)].id = point.id => point.id \in Q
        /\ ~(points # <<>> /\ points[Len(points)].id = point.id) =>
             point.id \notin Q /\ Lists(Ids(Append(points, point)), Q \cup {point.id})
    <3>1. /\ points \in Seq(PointRecords) /\ Q \in SUBSET Nat /\ point \in PointRecords
          /\ Lists(Ids(points), Q)
      BY <1>1, <1>2, <1>3, <1>4
    <3> QED
      BY <2>1, <3>1, NextId
  <2> QED
    BY <1>4, <2>2
<1>7. CASE SamePoint(points, p)
  <2>1. p \in Q /\ InPointOf(points, p) = points /\ points # <<>> /\ points[Len(points)].id = p
    BY <1>5, <1>7 DEF SamePoint, InPointOf
  <2>2. Q \cup {p} = Q
    BY <2>1
  <2>3. new.points = points
    BY <2>1
  <2> HIDE DEF points, Q
  <2>4. LineHolds(new, P \cup {p}, J)
    BY <1>2, <1>3, <2>2, <2>3 DEF LineHolds
  <2> QED
    BY <1>1, <2>1, <2>3, <2>4 DEF LineEndsIn
<1>6. CASE ~SamePoint(points, p)
  <2>1. p \notin Q /\ Lists(Ids(Append(points, point)), Q \cup {p}) /\ InPointOf(points, p) = Append(points, point)
    BY <1>5, <1>6 DEF SamePoint, InPointOf
  <2>2. RowsOf(J, p) = {}
    BY <1>2, <2>1 DEF RowsOf
  <2>3. /\ Append(points, point) \in Seq(PointRecords) /\ Append(points, point) # <<>>
        /\ Append(points, point)[Len(Append(points, point))] = point
        /\ \A k \in DOMAIN Append(points, point) :
             Append(points, point)[k] = point \/ (k \in DOMAIN points /\ Append(points, point)[k] = points[k])
    <3> HIDE DEF points, point
    <3> QED
      BY <1>1, <1>4
  <2>4. new.points = Append(points, point)
    BY <2>1
  <2> HIDE DEF points, Q, point
  <2>5. \A k \in DOMAIN new.points : Lists(new.points[k].returns, RowsOf(J, new.points[k].id))
    BY <1>3, <1>4, <2>2, <2>3, <2>4, Empty
  <2>6. LineHolds(new, P \cup {p}, J)
    BY <1>2, <2>1, <2>4, <2>5 DEF LineHolds
  <2> QED
    BY <1>4, <2>3, <2>4, <2>6 DEF LineEndsIn
<1> QED
  BY <1>6, <1>7

LinesEndIn(lines, p, S, P, J) ==
    /\ lines \in Seq(LineRecords) /\ lines # <<>>
    /\ lines[Len(lines)].id = Scanline(p) /\ LineEndsIn(lines[Len(lines)], p, P, J)
    /\ Holds(lines, S, P, J)

LEMMA PointOpened ==
    ASSUME Divides, NEW lines \in Seq(LineRecords), lines # <<>>, NEW S \in SUBSET Nat, NEW P \in SUBSET Nat, NEW J,
           NEW p \in Nat, \A x \in P : x <= p, \A j \in J : frame.ids[j] \in P,
           lines[Len(lines)].id = Scanline(p), Holds(lines, S, P, J)
    PROVE  LinesEndIn([lines EXCEPT ![Len(lines)].points = InPointOf(@, p)], p, S, P \cup {p}, J)
<1> DEFINE n == Len(lines)
           line == lines[n]
           last == [line EXCEPT !.points = InPointOf(@, p)]
           new == [lines EXCEPT ![n] = last]
<1>1. n \in Nat /\ n \in 1 .. n /\ DOMAIN lines = 1 .. n /\ line \in LineRecords
  OBVIOUS
<1>2. Lists(Ids(lines), S) /\ \A s \in 1 .. n : LineHolds(lines[s], P, J)
  BY <1>1 DEF Holds
<1>3. last \in LineRecords /\ last.id = line.id /\ LineEndsIn(last, p, P \cup {p}, J)
  <2>1. line.id = Scanline(p) /\ LineHolds(line, P, J)
    BY <1>1, <1>2
  <2>2. /\ last.id = line.id /\ last.points = InPointOf(line.points, p)
        /\ last.points \in Seq(PointRecords) => last \in LineRecords
    <3> HIDE DEF line
    <3> QED
      BY <1>1 DEF LineRecords
  <2> HIDE DEF line, last
  <2>3. LineEndsIn(last, p, P \cup {p}, J)
    BY <1>1, <2>1, <2>2, PointOpenedInLine
  <2> QED
    BY <2>2, <2>3 DEF LineEndsIn
<1>4. [lines EXCEPT ![Len(lines)].points = InPointOf(@, p)] = new
  OBVIOUS
<1> HIDE DEF last
<1>5. /\ new \in Seq(LineRecords) /\ Len(new) = n /\ DOMAIN new = 1 .. n /\ new[n] = last
      /\ (\A s \in 1 .. n : s # n => new[s] = lines[s]) /\ Ids(new) = Ids(lines)
  BY <1>3, LastReplaced
<1> HIDE DEF new
<1>6. \A s \in 1 .. n : s # n => LineHolds(new[s], P \cup {p}, J)
  <2> SUFFICES ASSUME NEW s \in 1 .. n, s # n PROVE LineHolds(lines[s], P \cup {p}, J)
    BY <1>5
  <2>1. lines[s].id # Scanline(p)
    <3>1. lines[s].id < lines[n].id /\ lines[s].id \in Nat
      BY <1>1, <1>2, IdsOf
    <3>2. Scanline(p) \in Nat
      BY ScanlineOrder
    <3> QED
      BY <3>1, <3>2
  <2>2. PointsOf(P \cup {p}, lines[s].id) = PointsOf(P, lines[s].id)
    BY <2>1 DEF PointsOf
  <2> QED
    BY <1>2, <2>2 DEF LineHolds
<1>7. Holds(new, S, P \cup {p}, J)
  BY <1>2, <1>3, <1>5, <1>6 DEF Holds, LineEndsIn
<1>8. new # <<>>
  <2> HIDE DEF n, line
  <2>1. Len(new) # 0
    BY <1>1, <1>5
  <2> QED
    BY <2>1
<1> QED
  BY <1>3, <1>4, <1>5, <1>7, <1>8 DEF LinesEndIn

(* A row is added to the last point of the last scan line. *)
LEMMA AddedIs ==
    ASSUME NEW lines \in Seq(LineRecords), lines # <<>>, lines[Len(lines)].points # <<>>, NEW row \in Nat
    PROVE  LET new == Added(lines, row)
               n == Len(lines)
               points == lines[n].points
               m == Len(points)
           IN /\ new \in Seq(LineRecords) /\ Len(new) = n /\ DOMAIN new = 1 .. n /\ n \in 1 .. n
              /\ Ids(new) = Ids(lines) /\ \A s \in 1 .. n : s # n => new[s] = lines[s]
              /\ new[n].id = lines[n].id /\ Ids(new[n].points) = Ids(points)
              /\ Len(new[n].points) = m /\ DOMAIN new[n].points = 1 .. m /\ m \in 1 .. m
              /\ \A k \in 1 .. m : k # m => new[n].points[k] = points[k]
              /\ new[n].points[m].id = points[m].id
              /\ new[n].points[m].returns = Append(points[m].returns, row)
<1> DEFINE n == Len(lines)
           line == lines[n]
           points == line.points
           m == Len(points)
           point == [points[m] EXCEPT !.returns = Append(@, row)]
           newpoints == [points EXCEPT ![m] = point]
           newline == [line EXCEPT !.points = newpoints]
           new == [lines EXCEPT ![n] = newline]
<1>1. n \in Nat /\ n \in 1 .. n /\ DOMAIN lines = 1 .. n /\ line \in LineRecords
  OBVIOUS
<1>2. points \in Seq(PointRecords) /\ line.id \in NumbersOrUnset
  <2> HIDE DEF line
  <2> QED
    BY <1>1 DEF LineRecords
<1>3. m \in Nat /\ m \in 1 .. m /\ DOMAIN points = 1 .. m /\ points[m] \in PointRecords
  <2> HIDE DEF points
  <2>1. points # <<>>
    BY DEF points
  <2> QED
    BY <1>2, <2>1
<1>4. Added(lines, row) = new
  BY DEF Added
<1>5. point \in PointRecords /\ point.id = points[m].id /\ point.returns = Append(points[m].returns, row)
  <2>1. \A q \in PointRecords : LET r == [q EXCEPT !.returns = Append(@, row)] IN
          r \in PointRecords /\ r.id = q.id /\ r.returns = Append(q.returns, row)
    <3> SUFFICES ASSUME NEW q \in PointRecords
                 PROVE  LET r == [q EXCEPT !.returns = Append(@, row)] IN
                          r \in PointRecords /\ r.id = q.id /\ r.returns = Append(q.returns, row)
      OBVIOUS
    <3>1. q.id \in NumbersOrUnset /\ q.returns \in Seq(Nat)
      BY DEF PointRecords
    <3>2. Append(q.returns, row) \in Seq(Nat)
      BY <3>1
    <3> QED
      BY <3>1, <3>2 DEF PointRecords
  <2> HIDE DEF points
  <2> QED
    BY <1>3, <2>1
<1> HIDE DEF point
<1>6. /\ newpoints \in Seq(PointRecords) /\ Len(newpoints) = m /\ DOMAIN newpoints = 1 .. m
      /\ newpoints[m] = point /\ (\A k \in 1 .. m : k # m => newpoints[k] = points[k])
      /\ Ids(newpoints) = Ids(points)
  <2> HIDE DEF points
  <2>1. points # <<>>
    BY DEF points
  <2> QED
    BY <1>2, <1>5, <2>1, LastReplaced
<1> HIDE DEF newpoints
<1>7. newline \in LineRecords /\ newline.id = line.id /\ newline.points = newpoints
  <2> HIDE DEF line
  <2> QED
    BY <1>1, <1>6 DEF LineRecords
<1> HIDE DEF newline
<1>8. /\ new \in Seq(LineRecords) /\ Len(new) = n /\ DOMAIN new = 1 .. n /\ new[n] = newline
      /\ (\A s \in 1 .. n : s # n => new[s] = lines[s]) /\ Ids(new) = Ids(lines)
  BY <1>7, LastReplaced
<1> HIDE DEF new
<1> QED
  BY <1>1, <1>3, <1>4, <1>5, <1>6, <1>7, <1>8

LEMMA RowAdded ==
    ASSUME Divides, NEW S \in SUBSET Nat, NEW P \in SUBSET Nat, NEW J \in SUBSET Nat, NEW p \in Nat,
           NEW lines, LinesEndIn(lines, p, S, P, J),
           NEW row \in Nat, frame.ids[row] = p, \A j \in J : j < row
    PROVE  Added(lines, row) \in Seq(LineRecords) /\ Holds(Added(lines, row), S, P, J \cup {row})
<1> DEFINE new == Added(lines, row)
           n == Len(lines)
           points == lines[n].points
           m == Len(points)
           K == J \cup {row}
<1>1. /\ lines \in Seq(LineRecords) /\ lines # <<>> /\ lines[n].id = Scanline(p)
      /\ points \in Seq(PointRecords) /\ points # <<>> /\ points[m].id = p
      /\ Holds(lines, S, P, J)
  BY DEF LinesEndIn, LineEndsIn
<1>2. /\ new \in Seq(LineRecords) /\ Len(new) = n /\ DOMAIN new = 1 .. n /\ n \in 1 .. n
      /\ Ids(new) = Ids(lines) /\ \A s \in 1 .. n : s # n => new[s] = lines[s]
      /\ new[n].id = lines[n].id /\ Ids(new[n].points) = Ids(points)
      /\ Len(new[n].points) = m /\ DOMAIN new[n].points = 1 .. m /\ m \in 1 .. m
      /\ \A k \in 1 .. m : k # m => new[n].points[k] = points[k]
      /\ new[n].points[m].id = points[m].id
      /\ new[n].points[m].returns = Append(points[m].returns, row)
  BY <1>1, AddedIs
<1>3. n \in Nat /\ DOMAIN lines = 1 .. n /\ m \in Nat /\ DOMAIN points = 1 .. m
  BY <1>1
<1>4. Lists(Ids(lines), S) /\ \A s \in 1 .. n : LineHolds(lines[s], P, J)
  BY <1>1, <1>3 DEF Holds
<1>5. \A s \in 1 .. n : Lists(Ids(lines[s].points), PointsOf(P, lines[s].id))
  BY <1>4 DEF LineHolds
<1>6. \A x : x # p => RowsOf(K, x) = RowsOf(J, x)
  BY DEF RowsOf
<1> HIDE DEF new
<1>7. ASSUME NEW s \in 1 .. n, s # n PROVE LineHolds(new[s], P, K)
  <2>1. lines[s].id # Scanline(p)
    <3>1. lines[s].id < lines[n].id /\ lines[s].id \in Nat
      BY <1>3, <1>4, <1>7, IdsOf
    <3>2. Scanline(p) \in Nat
      BY ScanlineOrder
    <3> QED
      BY <1>1, <3>1, <3>2
  <2> DEFINE line == lines[s]
  <2>2. line \in LineRecords /\ LineHolds(line, P, J) /\ new[s] = line
    BY <1>1, <1>2, <1>4, <1>7, ElementIs
  <2>3. line.points \in Seq(PointRecords)
    <3> HIDE DEF line
    <3> QED
      BY <2>2 DEF LineRecords
  <2>4. \A k \in DOMAIN line.points : line.points[k].id # p
    <3> SUFFICES ASSUME NEW k \in DOMAIN line.points PROVE line.points[k].id # p
      OBVIOUS
    <3>1. Ids(line.points)[k] = line.points[k].id /\ k \in DOMAIN Ids(line.points)
      BY DEF Ids
    <3>2. line.points[k].id \in PointsOf(P, line.id)
      BY <1>5, <3>1 DEF Lists
    <3> QED
      BY <2>1, <3>2 DEF PointsOf
  <2> HIDE DEF line, K
  <2> QED
    BY <1>6, <2>2, <2>4 DEF LineHolds
<1>8. LineHolds(new[n], P, K)
  <2>1. LineHolds(lines[n], P, J)
    BY <1>2, <1>4
  <2>2. Lists(Ids(points), PointsOf(P, lines[n].id))
        /\ \A k \in 1 .. m : Lists(points[k].returns, RowsOf(J, points[k].id))
    BY <1>3, <2>1 DEF LineHolds
  <2>3. ASSUME NEW k \in 1 .. m, k # m PROVE points[k].id # p
    <3>1. PointsOf(P, lines[n].id) \in SUBSET Nat
      BY DEF PointsOf
    <3> HIDE DEF points
    <3>2. points[k].id < points[m].id /\ points[k].id \in Nat
      BY <1>3, <2>2, <2>3, <3>1, IdsOf
    <3> QED
      BY <1>1, <3>2
  <2>4. Lists(Append(points[m].returns, row), RowsOf(K, p))
    <3>1. points[m].returns \in Seq(Nat)
      <4> DEFINE point == points[m]
      <4>1. point \in PointRecords
        BY <1>1, <1>2, ElementIs
      <4> HIDE DEF point
      <4>2. point.returns \in Seq(Nat)
        BY <4>1 DEF PointRecords
      <4> QED
        BY <4>2 DEF point
    <3>2. RowsOf(J, p) \in SUBSET Nat /\ (\A j \in RowsOf(J, p) : j <= row) /\ row \notin RowsOf(J, p)
          /\ RowsOf(K, p) = RowsOf(J, p) \cup {row}
      <4>1. \A j \in J : j <= row /\ j # row
        BY <1>1
      <4> QED
        BY <4>1 DEF RowsOf
    <3>3. Lists(points[m].returns, RowsOf(J, p))
      BY <1>1, <1>2, <2>2
    <3> DEFINE returns == points[m].returns
               rows == RowsOf(J, p)
    <3> HIDE DEF returns, rows
    <3>4. Lists(Append(returns, row), rows \cup {row})
      BY <3>1, <3>2, <3>3, ListsNext DEF returns, rows
    <3> QED
      BY <3>2, <3>4 DEF returns, rows
  <2> HIDE DEF points, K
  <2>5. \A k \in 1 .. m : Lists(new[n].points[k].returns, RowsOf(K, new[n].points[k].id))
    <3> SUFFICES ASSUME NEW k \in 1 .. m
                 PROVE  Lists(new[n].points[k].returns, RowsOf(K, new[n].points[k].id))
      OBVIOUS
    <3>1. CASE k = m
      BY <1>1, <1>2, <2>4, <3>1
    <3>2. CASE k # m
      BY <1>2, <1>6, <2>2, <2>3, <3>2
    <3> QED
      BY <3>1, <3>2
  <2> QED
    BY <1>2, <2>2, <2>5 DEF LineHolds
<1>9. Holds(new, S, P, K)
  BY <1>2, <1>4, <1>7, <1>8 DEF Holds
<1> QED
  BY <1>2, <1>9 DEF new

Passed(n) == {frame.ids[k] : k \in 1 .. n}
ScanlinesOf(P) == {Scanline(p) : p \in P}

LEMMA PackedOrder ==
    ASSUME frame \in PackedFrames
    PROVE  /\ Len(frame.ids) \in Nat
           /\ \A k \in 1 .. Len(frame.ids) : frame.ids[k] \in Nat
           /\ \A j, k \in 1 .. Len(frame.ids) : j <= k => frame.ids[j] <= frame.ids[k]
<1> DEFINE ids == frame.ids
<1>1. ids \in PackedIds
  BY PackedFrame
<1> HIDE DEF ids
<1>2. PICK n \in 0 .. MaxRows : ids \in [1 .. n -> PointIds]
  BY <1>1 DEF PackedIds
<1>3. Len(ids) = n /\ DOMAIN ids = 1 .. n /\ n \in Nat
  BY <1>2, FrameAssumption
<1>4. \A j, k \in DOMAIN ids : j <= k => ids[j] <= ids[k]
  BY <1>1 DEF PackedIds
<1>5. PointIds \subseteq Nat
  BY FrameAssumption DEF PointIds
<1> QED
  BY <1>2, <1>3, <1>4, <1>5 DEF ids

LEMMA InScanlinesIs ==
    ASSUME NEW lines, NEW n
    PROVE  InScanlines(lines, n) <=> Holds(lines, ScanlinesOf(Passed(n)), Passed(n), 1 .. n)
<1>1. ScanlinesOf(Passed(n)) = {Scanline(frame.ids[k]) : k \in 1 .. n}
  BY DEF ScanlinesOf, Passed
<1>2. \A line : PointsOf(Passed(n), line) = {frame.ids[k] : k \in {k \in 1 .. n : Scanline(frame.ids[k]) = line}}
  BY DEF PointsOf, Passed
<1> QED
  BY <1>1, <1>2 DEF InScanlines, Holds, LineHolds, RowsOf

LEMMA DivisorSame == ASSUME frame' = frame PROVE PointsPerLine' = PointsPerLine
BY DEF PointsPerLine

LEMMA FrameReturnKeeps ==
    ASSUME FrameOK, AtOK, FrameInv, FrameReturn, ~DividesByZero
    PROVE  AtOK' /\ FrameInv' /\ frame' = frame /\ api' = api /\ outcome' = "running"
<1> DEFINE row == i + 1
           p == frame.ids[row]
           lines == IF "point_id" \in frame.fields THEN Opened(out, p) ELSE out
<1>1. /\ frame \in PackedFrames /\ frame.packed /\ i < frame.returns /\ frame.returns \in Nat
      /\ frame.returns <= Len(frame.ids) /\ i \in Nat /\ out \in Seq(LineRecords)
      /\ Len(frame.ids) \in Nat
  BY PackedFrame, PackedOrder DEF FrameOK, AtOK, FrameInv, FrameReturn, LinesOfPoints, LineRecords,
     PointRecords
<1>2. /\ frame' = frame /\ api' = api /\ outcome' = "running" /\ at' = at
      /\ i' = row /\ out' = Added(lines, row) /\ row <= frame.returns /\ row \in Nat
  BY <1>1 DEF FrameReturn, Running
<1>3. AtOK'
  BY <1>1, <1>2 DEF AtOK
<1>4. CASE "point_id" \in frame.fields
  <2> DEFINE P == Passed(i)
             J == 1 .. i
  <2>0. Divides
    BY <1>1, <1>4, DivisorIs
  <2>1. Holds(out, ScanlinesOf(P), P, J)
    BY <1>4, InScanlinesIs DEF FrameInv
  <2>2. /\ row \in 1 .. Len(frame.ids) /\ p \in Nat /\ J \in SUBSET Nat
        /\ \A j \in J : j \in 1 .. Len(frame.ids) /\ j < row /\ frame.ids[j] \in Nat /\ frame.ids[j] <= p
    <3>1. row \in 1 .. Len(frame.ids) /\ J \in SUBSET Nat
          /\ \A j \in J : j \in 1 .. Len(frame.ids) /\ j < row /\ j <= row
      BY <1>1
    <3> HIDE DEF J, row
    <3> QED
      BY <1>1, <3>1, PackedOrder
  <2>3. /\ P \in SUBSET Nat /\ (\A x \in P : x <= p) /\ \A j \in J : frame.ids[j] \in P
    BY <2>2 DEF Passed
  <2>4. Passed(row) = P \cup {p} /\ 1 .. row = J \cup {row}
    <3>1. 1 .. row = J \cup {row}
      BY <1>1
    <3> HIDE DEF J, row
    <3>2. P = {frame.ids[k] : k \in J}
      BY DEF Passed, J
    <3> QED
      BY <3>1, <3>2 DEF Passed
  <2> DEFINE open == InLineOf(out, p)
             S == ScanlinesOf(P \cup {p})
  <2> HIDE DEF P, J, p
  <2>5. /\ open \in Seq(LineRecords) /\ open # <<>> /\ open[Len(open)].id = Scanline(p)
        /\ Holds(open, S, P, J)
    BY <1>1, <2>0, <2>1, <2>2, <2>3, LineOpened DEF ScanlinesOf
  <2>6. S \in SUBSET Nat
    BY <2>0, <2>2, <2>3, ScanlineOrder DEF ScanlinesOf
  <2> HIDE DEF open, S
  <2>7. LinesEndIn([open EXCEPT ![Len(open)].points = InPointOf(@, p)], p, S, P \cup {p}, J)
    BY <2>0, <2>2, <2>3, <2>5, <2>6, PointOpened
  <2>8. LinesEndIn(lines, p, S, P \cup {p}, J)
    BY <1>4, <2>7 DEF Opened, open
  <2> HIDE DEF lines
  <2>9. Added(lines, row) \in Seq(LineRecords) /\ Holds(Added(lines, row), S, P \cup {p}, J \cup {row})
    <3>1. P \cup {p} \in SUBSET Nat /\ frame.ids[row] = p
      BY <2>2, <2>3 DEF p
    <3> HIDE DEF row
    <3> QED
      BY <1>2, <2>0, <2>2, <2>6, <2>8, <3>1, RowAdded
  <2>10. out' \in Seq(LineRecords) /\ Holds(out', ScanlinesOf(Passed(row)), Passed(row), 1 .. row)
    BY <1>2, <2>4, <2>9 DEF S
  <2>11. InScanlines(out', i')
    BY <1>2, <2>10, InScanlinesIs
  <2>12. InScanlines(out, i)'
    <3>1. PointsPerLine' = PointsPerLine /\ frame' = frame
      BY <1>2, DivisorSame
    <3> QED
      BY <2>11, <3>1 DEF InScanlines, Scanline
  <2> QED
    BY <1>1, <1>2, <1>3, <1>4, <2>10, <2>12
       DEF FrameInv, LinesOfPoints, LineRecords, PointRecords
<1>5. CASE "point_id" \notin frame.fields
  <2>1. /\ lines = out /\ Len(out) = 1 /\ Len(out[1].points) = 1 /\ out # <<>>
        /\ Lists(out[1].points[1].returns, 1 .. i)
    BY <1>5 DEF FrameInv
  <2>2. out[1] \in LineRecords
    BY <1>1, <2>1, ElementIs
  <2>3. out[1].points \in Seq(PointRecords)
    BY <2>2 DEF LineRecords
  <2>4. out[1].points # <<>> /\ out[1].points[1] \in PointRecords
    BY <2>1, <2>3, ElementIs
  <2>5. out[1].points[1].returns \in Seq(Nat)
    BY <2>4 DEF PointRecords
  <2>6. /\ out' \in Seq(LineRecords) /\ Len(out') = 1 /\ Len(out'[1].points) = 1
        /\ out'[1].points[1].returns = Append(out[1].points[1].returns, row)
    <3> HIDE DEF row, lines
    <3> DEFINE n == Len(out)
               m == Len(out[n].points)
               new == Added(out, row)
    <3>1. n = 1 /\ m = 1 /\ out[n].points # <<>>
      BY <2>1, <2>4
    <3>2. /\ new \in Seq(LineRecords) /\ Len(new) = n /\ Len(new[n].points) = m
          /\ new[n].points[m].returns = Append(out[n].points[m].returns, row)
      BY <1>1, <1>2, <2>1, <3>1, AddedIs
    <3> HIDE DEF n, m, new
    <3>3. /\ new \in Seq(LineRecords) /\ Len(new) = 1 /\ Len(new[1].points) = 1
          /\ new[1].points[1].returns = Append(out[1].points[1].returns, row)
      BY <3>1, <3>2
    <3> QED
      BY <1>2, <2>1, <3>3 DEF new
  <2>7. Lists(Append(out[1].points[1].returns, row), 1 .. row)
    <3> DEFINE returns == out[1].points[1].returns
    <3>1. row \in Nat /\ row \notin 1 .. i /\ (1 .. i) \in SUBSET Nat /\ (\A y \in 1 .. i : y <= row)
          /\ 1 .. row = (1 .. i) \cup {row}
      BY <1>1
    <3>2. returns \in Seq(Nat) /\ Lists(returns, 1 .. i)
      BY <2>1, <2>5
    <3> HIDE DEF returns, row
    <3>3. Lists(Append(returns, row), (1 .. i) \cup {row})
      BY <3>1, <3>2, ListsNext
    <3> QED
      BY <3>1, <3>3 DEF returns
  <2> QED
    <3>1. Len(out') = 1 /\ Len(out'[1].points) = 1 /\ Lists(out'[1].points[1].returns, 1 .. i')
      BY <1>2, <2>6, <2>7
    <3>2. Lists(out[1].points[1].returns, 1 .. i)'
      BY <3>1 DEF Lists
    <3> QED
      BY <1>1, <1>2, <1>3, <1>5, <2>6, <3>1, <3>2 DEF FrameInv, LinesOfPoints, LineRecords, PointRecords
<1> QED
  BY <1>4, <1>5

LEMMA FrameStarts == ASSUME IInv, ConvertToFrame PROVE IInv'
<1>1. CASE ~frame.packed
  <2>1. Starts("frame", "value", frame.scanlines)
    BY <1>1 DEF ConvertToFrame
  <2>2. FrameOK' /\ AtOK' /\ frame' = frame
    BY <2>1, StartsKeeps
  <2>3. api' = "frame" /\ outcome' = "value"
    BY <2>1 DEF Starts
  <2> QED
    BY <1>1, <2>2, <2>3 DEF IInv, Running, NumpyRows, SimplePoints, BackInv
<1>2. CASE frame.packed
  <2> DEFINE start == IF "point_id" \in frame.fields THEN <<>>
                      ELSE <<[id |-> Unset, points |-> <<NewPoint(Unset)>>]>>
  <2>1. Starts("frame", "running", start)
    BY <1>2 DEF ConvertToFrame
  <2>2. FrameOK' /\ AtOK' /\ frame' = frame /\ i' = 0
    BY <2>1, StartsKeeps
  <2>3. api' = "frame" /\ outcome' = "running" /\ out' = start /\ frame.returns \in Nat
    BY <1>2, <2>1, PackedFrame DEF Starts, IInv, FrameOK
  <2>4. CASE "point_id" \in frame.fields
    <3>1. out' = <<>> /\ Ids(<<>>) = <<>> /\ Lists(<<>>, {}) /\ {Scanline(frame.ids[k])' : k \in 1 .. i'} = {}
      BY <2>2, <2>3, <2>4, Empty
    <3>2. Ids(out') = <<>> /\ DOMAIN out' = {}
      BY <3>1
    <3>3. InScanlines(out, i)'
      BY <3>1, <3>2 DEF InScanlines
    <3>4. FrameInv'
      BY <1>2, <2>2, <2>3, <2>4, <3>1, <3>3 DEF FrameInv, LinesOfPoints
    <3> QED
      BY <2>2, <2>3, <3>4 DEF IInv, Running, NumpyRows, SimplePoints, BackInv
  <2>5. CASE "point_id" \notin frame.fields
    <3> DEFINE point == NewPoint(Unset)
               line == [id |-> Unset, points |-> <<point>>]
    <3>1. out' = <<line>> /\ Len(out') = 1 /\ out'[1].points = <<point>> /\ Len(out'[1].points) = 1
          /\ out'[1].points[1].returns = <<>>
      BY <2>3, <2>5 DEF NewPoint
    <3>2. point \in PointRecords
      BY DEF NewPoint, PointRecords, NumbersOrUnset
    <3> HIDE DEF point
    <3>3. <<point>> \in Seq(PointRecords) /\ Unset \in NumbersOrUnset
      BY <3>2 DEF NumbersOrUnset
    <3>4. line \in LineRecords
      BY <3>3 DEF LineRecords
    <3> HIDE DEF line
    <3>5. out' \in LinesOfPoints
      BY <3>1, <3>4 DEF LinesOfPoints, LineRecords, PointRecords
    <3>6. Lists(out[1].points[1].returns, 1 .. i)'
      <4>1. out'[1].points[1].returns = <<>> /\ 1 .. i' = {}
        BY <2>2, <3>1
      <4> QED
        BY <4>1 DEF Lists
    <3>7. FrameInv'
      BY <1>2, <2>2, <2>3, <2>5, <3>1, <3>5, <3>6 DEF FrameInv
    <3> QED
      BY <2>2, <2>3, <3>7 DEF IInv, Running, NumpyRows, SimplePoints, BackInv
  <2> QED
    BY <2>4, <2>5
<1> QED
  BY <1>1, <1>2

LEMMA FrameEnds ==
    ASSUME FrameOK, AtOK, FrameInv, FrameReturns PROVE BackInv'
<1>1. i = frame.returns
  <2>1. frame.returns \in Nat /\ i \in Nat /\ i <= frame.returns /\ i >= frame.returns
    BY PackedFrame DEF FrameOK, AtOK, FrameInv, FrameReturns
  <2> QED
    BY <2>1
<1>2. frame' = frame /\ out' = out
  BY DEF FrameReturns, Ends
<1>3. "point_id" \in frame.fields => InScanlines(out, frame.returns)'
  <2>1. "point_id" \in frame.fields => InScanlines(out, frame.returns)
    BY <1>1 DEF FrameInv
  <2>2. InScanlines(out, frame.returns)' <=> InScanlines(out, frame.returns)
    BY <1>2, DivisorSame DEF InScanlines, Scanline
  <2> QED
    BY <2>1, <2>2
<1>4. "point_id" \notin frame.fields =>
        Len(out') = 1 /\ Len(out'[1].points) = 1 /\ Lists(out[1].points[1].returns, 1 .. frame.returns)'
  BY <1>1, <1>2 DEF FrameInv, Lists
<1>5. outcome' = "value"
  BY DEF FrameReturns, Ends
<1> QED
  BY <1>2, <1>3, <1>4, <1>5 DEF BackInv
-----------------------------------------------------------------------------
(* The steps together.                                                     *)
LEMMA Stutters == ASSUME IInv, UNCHANGED vars PROVE IInv'
<1>1. frame' = frame /\ api' = api /\ at' = at /\ i' = i /\ out' = out /\ outcome' = outcome
  BY DEF vars
<1>2. /\ Zeros' = Zeros /\ Allocated' = Allocated /\ Resized' = Resized /\ PointRow' = PointRow
      /\ (\A q : RowOf(q)' = RowOf(q)) /\ (\A k : Row(k)' = Row(k))
      /\ (\A q : SimplePoint(q)' = SimplePoint(q)) /\ (\A k : PackedPoint(k)' = PackedPoint(k))
      /\ (\A k, f : PackedValue(k, f)' = PackedValue(k, f))
  BY <1>1 DEF Zeros, Columns, RefFrameFull, Allocated, Resized, PointRow, RowOf, Row, Value, SimplePoint,
     PackedPoint, PackedValue
<1>3. FrameOK' /\ AtOK'
  BY <1>1 DEF IInv, FrameOK, AtOK, InPoint, InLine, Returns
<1>4. NumpyInv' <=> NumpyInv
  BY <1>1, <1>2 DEF NumpyInv
<1>5. SimpleInv' <=> SimpleInv
  BY <1>1, <1>2 DEF SimpleInv
<1>6. InScanlines(out, i)' <=> InScanlines(out, i)
  BY <1>1, DivisorSame DEF InScanlines, Scanline
<1>7. FrameInv' <=> FrameInv
  BY <1>1, <1>6 DEF FrameInv
<1>8. NumpyRows'
  BY <1>1, <1>2 DEF IInv, NumpyRows, HasReference
<1>9. SimplePoints'
  BY <1>1, <1>2 DEF IInv, SimplePoints
<1>10. BackInv'
  <2>1. InScanlines(out, frame.returns)' <=> InScanlines(out, frame.returns)
    BY <1>1, DivisorSame DEF InScanlines, Scanline
  <2> QED
    BY <1>1, <2>1 DEF IInv, BackInv
<1> QED
  BY <1>1, <1>3, <1>4, <1>5, <1>7, <1>8, <1>9, <1>10 DEF IInv, Running

LEMMA FrameInit == Init => IInv
<1> SUFFICES ASSUME Init PROVE IInv
  OBVIOUS
<1>1. frame \in NestedFrames \cup PackedFrames /\ (frame.packed => frame.returns <= Len(frame.ids))
      /\ api = "none" /\ at = <<1, 1, 0>> /\ i = 0 /\ outcome = "none"
  BY DEF Init
<1>2. FrameOK
  BY <1>1, NestedFrame, PackedFrame DEF FrameOK
<1>3. AtOK
  <2>1. at \in Nat \X Nat \X Nat /\ at[1] = 1 /\ at[2] = 1 /\ at[3] = 0 /\ i \in Nat
    BY <1>1
  <2>2. ~frame.packed /\ InPoint => Returns \in 0 .. MaxReturns
    <3>1. ~frame.packed => frame.scanlines \in NestedPoints
      BY <1>2, NestedFrame DEF FrameOK
    <3> QED
      BY <2>1, <3>1, LinesOK, FrameAssumption DEF InPoint, InLine, Returns
  <2> QED
    BY <2>1, <2>2, FrameAssumption DEF AtOK
<1> QED
  BY <1>1, <1>2, <1>3 DEF IInv, Running, NumpyRows, SimplePoints, BackInv

LEMMA FrameNext == IInv /\ [Next]_vars => IInv'
<1> SUFFICES ASSUME IInv, [Next]_vars PROVE IInv'
  OBVIOUS
<1>1. FrameOK /\ AtOK /\ (Running("numpy") => NumpyInv) /\ (Running("simple") => SimpleInv)
      /\ (Running("frame") => FrameInv)
  BY DEF IInv
<1>2. ASSUME frame' = frame PROVE FrameOK'
  BY <1>1, <1>2 DEF FrameOK
<1>3. ASSUME frame' = frame, at' = at, i' = i PROVE AtOK'
  BY <1>1, <1>3 DEF AtOK, InPoint, InLine, Returns
<1>4. CASE RecvFrameAsNumpy
  BY <1>4, NumpyStarts
<1>5. CASE ConvertToSimple
  BY <1>5, SimpleStarts
<1>6. CASE ConvertToFrame
  BY <1>6, FrameStarts
<1>7. CASE NumpyPoint \/ NumpyReturn \/ NumpyNextPoint \/ NumpyNextLine
  <2>1. Running("numpy")
    BY <1>7 DEF NumpyPoint, NumpyReturn, NumpyNextPoint, NumpyNextLine
  <2>2. NumpyGoesOn
    BY <1>1, <1>7, <2>1, NumpyPointKeeps, NumpyReturnKeeps, NumpyNextKeeps
  <2> QED
    BY <1>2, <2>1, <2>2 DEF NumpyGoesOn, IInv, Running, NumpyRows, SimplePoints, BackInv
<1>8. CASE NumpyReturns
  <2>1. Running("numpy") /\ frame' = frame /\ api' = "numpy" /\ outcome' = "value" /\ at' = at /\ i' = i
    BY <1>8 DEF NumpyReturns, Ends, Running
  <2>2. NumpyRows'
    BY <1>1, <1>8, <2>1, NumpyEnds
  <2> QED
    BY <1>2, <1>3, <2>1, <2>2 DEF IInv, Running, SimplePoints, BackInv
<1>9. CASE SimpleReturn \/ SimpleNext
  <2>1. Running("simple")
    BY <1>9 DEF SimpleReturn, SimpleNext
  <2>2. SimpleGoesOn
    BY <1>1, <1>9, <2>1, SimpleReturnKeeps, SimpleNextKeeps
  <2> QED
    BY <1>2, <2>1, <2>2 DEF SimpleGoesOn, IInv, Running, NumpyRows, SimplePoints, BackInv
<1>10. CASE SimpleReturns
  <2>1. Running("simple") /\ frame' = frame /\ api' = "simple" /\ outcome' = "value" /\ at' = at /\ i' = i
    BY <1>10 DEF SimpleReturns, Ends, Running
  <2>2. SimplePoints'
    BY <1>1, <1>10, <2>1, SimpleEnds
  <2> QED
    BY <1>2, <1>3, <2>1, <2>2 DEF IInv, Running, NumpyRows, BackInv
<1>11. CASE FrameReturn
  <2>1. Running("frame")
    BY <1>11 DEF FrameReturn
  <2>2. CASE DividesByZero
    <3>1. frame' = frame /\ api' = "frame" /\ at' = at /\ i' = i /\ outcome' = "undefined"
      BY <1>11, <2>1, <2>2 DEF FrameReturn, Ends, Running
    <3>2. frame.lines <= 0 \/ frame.points < frame.lines
      BY <1>1, <2>1, <2>2, DivisorIs DEF FrameInv, FrameOK
    <3> QED
      BY <1>2, <1>3, <3>1, <3>2 DEF IInv, Running, NumpyRows, SimplePoints, BackInv
  <2>3. CASE ~DividesByZero
    <3>1. AtOK' /\ FrameInv' /\ frame' = frame /\ api' = api /\ outcome' = "running"
      BY <1>1, <1>11, <2>1, <2>3, FrameReturnKeeps
    <3> QED
      BY <1>2, <2>1, <3>1 DEF IInv, Running, NumpyRows, SimplePoints, BackInv
  <2> QED
    BY <2>2, <2>3
<1>12. CASE FrameReturns
  <2>1. Running("frame") /\ frame' = frame /\ api' = "frame" /\ outcome' = "value" /\ at' = at /\ i' = i
    BY <1>12 DEF FrameReturns, Ends, Running
  <2>2. BackInv'
    BY <1>1, <1>12, <2>1, FrameEnds
  <2> QED
    BY <1>2, <1>3, <2>1, <2>2 DEF IInv, Running, NumpyRows, SimplePoints
<1>13. CASE UNCHANGED vars
  BY <1>13, Stutters
<1> QED
  BY <1>4, <1>5, <1>6, <1>7, <1>8, <1>9, <1>10, <1>11, <1>12, <1>13 DEF Next, Numpy, Simple

LEMMA FrameInvariant == Spec => []IInv
<1> QED
  BY FrameInit, FrameNext, PTL DEF Spec

(* The numpy array has the rows of the device, in its order, with the      *)
(* values of their own returns (recv_frame_as_numpy).                      *)
THEOREM NumpyRowsAreRight == Spec => []NumpyRows
<1>1. IInv => NumpyRows
  BY DEF IInv
<1> QED
  BY <1>1, FrameInvariant, PTL

(* frame_t has the returns of the device, in its order, and nothing is     *)
(* written out of range (convert_point_cloud to frame_t).                  *)
THEOREM SimplePointsAreRight == Spec => []SimplePoints
<1>1. IInv => SimplePoints
  BY DEF IInv
<1> QED
  BY <1>1, FrameInvariant, PTL

(* The rows of a packed frame are put back into the scan lines and points  *)
(* that they came from (convert_point_cloud to Frame).                     *)
THEOREM ScanlinesAreRight == Spec => []BackInScanlines
<1>1. IInv => BackInScanlines
  BY WholeLines DEF IInv, BackInv, BackInScanlines
<1> QED
  BY <1>1, FrameInvariant, PTL
=============================================================================
