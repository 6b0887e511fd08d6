------------------------------ MODULE Heightmap ------------------------------
(***************************************************************************)
(* The editor's terrain: a grid of heights, its RAW file in four formats   *)
(* and the sculpting brush, as operators.  A byte has Base values instead  *)
(* of 256, and heights are the naturals up to Top, as fine as floats are:  *)
(* a narrower format rounds them as the code rounds floats to 1/255 and    *)
(* 1/65535.                                                                *)
(***************************************************************************)
EXTENDS Integers, Sequences, FiniteSets, FiniteSetsExt

CONSTANTS
    Base,       \* values of a byte
    MaxSide     \* the largest width or height (8192)

ASSUME HeightmapAssumption == Base \in Nat \ {0, 1} /\ MaxSide \in Nat \ {0, 1}

Formats == {"r16", "u8", "u16", "f32"}
BrushModes == {"Raise", "Lower", "Smooth", "Flatten"}

BytesPerSample(format) == CASE format = "u8" -> 1 [] format \in {"r16", "u16"} -> 2 [] format = "f32" -> 4

\* What n bytes can hold, 1.0 in the units of a height, and the sample that
\* stands for 1.0: the four bytes of a float hold other numbers too.
Levels(n) == IF n = 1 THEN Base ELSE IF n = 2 THEN Base * Base ELSE Base * Base * Base * Base
Top == (Levels(2) - 1) * Levels(2)
MaxSample(n) == IF n = 4 THEN Top ELSE Levels(n) - 1
Heights == 0 .. Top
DefaultHeight == Top \div 2

ClampHeight(h) == IF h < 0 THEN 0 ELSE IF h > Top THEN Top ELSE h

\* ClampHeight of a float: bits above those of 1.0 stand for no number, for a
\* larger one or for a negative one.
FloatHeight(bits) ==
    IF bits <= Top THEN bits
    ELSE IF bits % 3 = 0 THEN DefaultHeight ELSE IF bits % 3 = 1 THEN ClampHeight(bits) ELSE ClampHeight(-bits)

ValidSize(width, height) == width \in 2 .. MaxSide /\ height \in 2 .. MaxSide

Cells(width, height) == (0 .. width - 1) \X (0 .. height - 1)

\* A heightmap holds a height for each <<x, y>>.
IsHeightmap(m) ==
    /\ ValidSize(m.width, m.height)
    /\ m.values \in [Cells(m.width, m.height) -> Heights]

Flat(width, height, h) ==
    [width |-> width, height |-> height, values |-> [c \in Cells(width, height) |-> ClampHeight(h)]]

-----------------------------------------------------------------------------
(***************************************************************************)
(* RAW files: the samples of one row after the other, little-endian.       *)
(***************************************************************************)
GetIndex(width, c) == c[2] * width + c[1]
CellAt(width, i) == <<i % width, i \div width>>

\* std::round(value * (levels - 1)).
\* Mutant: the conversion truncates.
Quantize_Down(h, n) == (h * MaxSample(n)) \div Top
Quantize(h, n) == (2 * h * MaxSample(n) + Top) \div (2 * Top)

\* The height that a sample read stands for.
Decoded(sample, n) == IF n = 4 THEN FloatHeight(sample) ELSE (sample * Top) \div MaxSample(n)

\* The i-th byte of a sample, the lowest first, and the sample again.
PlaceOf(i) == CASE i = 1 -> 1 [] i = 2 -> Base [] i = 3 -> Base * Base [] i = 4 -> Base * Base * Base
ByteOf(sample, i) == (sample \div PlaceOf(i)) % Base
FromBytes(bytes, at, n) ==
    CASE n = 1 -> bytes[at + 1]
      [] n = 2 -> bytes[at + 1] + Base * bytes[at + 2]
      [] n = 4 -> bytes[at + 1] + Base * (bytes[at + 2] + Base * (bytes[at + 3] + Base * bytes[at + 4]))

RawBytes(m, format) ==
    LET n == BytesPerSample(format)
    IN  [k \in 1 .. n * m.width * m.height |->
            ByteOf(Quantize(m.values[CellAt(m.width, (k - 1) \div n)], n), ((k - 1) % n) + 1)]

\* What LoadRaw accepts: a file of exactly the bytes that the size and the
\* format call for.
FitsSize(bytes, width, height, format) == Len(bytes) = width * height * BytesPerSample(format)

LoadsRaw(bytes, width, height, format) == ValidSize(width, height) /\ FitsSize(bytes, width, height, format)

LoadedRaw(bytes, width, height, format) ==
    LET n == BytesPerSample(format)
        decode(i) == Decoded(FromBytes(bytes, i * n, n), n)
    IN  [width |-> width, height |-> height,
         values |-> [c \in Cells(width, height) |-> decode(GetIndex(width, c))]]

\* TryDetectSquareRawDimensions: the side, or 0 when the file is no square.
SquareSide(bytes, format) ==
    LET sides == {s \in 2 .. MaxSide : s * s * BytesPerSample(format) = Len(bytes)}
    IN  IF sides = {} THEN 0 ELSE Max(sides)

-----------------------------------------------------------------------------
(***************************************************************************)
(* ApplyBrush.  Distances are in tenths of a cell, and "amount" is the     *)
(* strength times the frame's time.                                        *)
(***************************************************************************)
SquaredDistance(c, centre) == (c[1] - centre[1]) * (c[1] - centre[1]) + (c[2] - centre[2]) * (c[2] - centre[2])
Distance(c, centre) ==
    LET squared == 100 * SquaredDistance(c, centre)
    IN  CHOOSE d \in 0 .. squared : d * d <= squared /\ squared < (d + 1) * (d + 1)

\* amount * clamp(1 - distance / radius): 0 at the rim.
Weighted(amount, distance, radius) == (amount * (10 * radius - distance)) \div (10 * radius)

\* from + (to - from) * the weight's share of Top, at most all of the way.
Towards(from, to, share) ==
    LET part == IF share > Top THEN Top ELSE share
    IN  IF to >= from THEN from + ((to - from) * part) \div Top ELSE from - ((from - to) * part) \div Top

\* The sum over the nine cells around one, of those that are in the grid,
\* and their mean.
SumAround(f, c) ==
    LET term(x, y) == IF <<x, y>> \in DOMAIN f THEN f[<<x, y>>] ELSE 0
        row(y) == term(c[1] - 1, y) + term(c[1], y) + term(c[1] + 1, y)
    IN  row(c[2] - 1) + row(c[2]) + row(c[2] + 1)
CalculateNeighborAverage(m, c) == SumAround(m.values, c) \div SumAround([d \in DOMAIN m.values |-> 1], c)

Brushed(m, c, weight, mode, flatten) ==
    CASE mode = "Raise" -> m.values[c] + weight
      [] mode = "Lower" -> m.values[c] - weight
      [] mode = "Smooth" -> Towards(m.values[c], CalculateNeighborAverage(m, c), 4 * weight)
      [] mode = "Flatten" -> Towards(m.values[c], ClampHeight(flatten), 2 * weight)

\* The cells of the grid within the brush's circle.
\* Mutant: the square around it.
UnderBrush_Square(m, centre, radius) ==
    {c \in DOMAIN m.values : c[1] - centre[1] \in -radius .. radius /\ c[2] - centre[2] \in -radius .. radius}
UnderBrush(m, centre, radius) == {c \in DOMAIN m.values : SquaredDistance(c, centre) <= radius * radius}

ApplyBrush(m, centre, radius, amount, mode, flatten) ==
    IF radius <= 0 \/ amount <= 0 THEN m
    ELSE [m EXCEPT !.values = [c \in DOMAIN m.values |->
            IF c \in UnderBrush(m, centre, radius)
            THEN ClampHeight(Brushed(m, c, Weighted(amount, Distance(c, centre), radius), mode, flatten))
            ELSE m.values[c]]]
==============================================================================
