--------------------------- MODULE TransposeProofs ---------------------------
(* For matrices of any size, elements of any width and payloads of any        *)
(* length: the copy loop never leaves its buffers, never writes a byte twice, *)
(* and implements TensorTranspose.                                            *)
EXTENDS Transpose, TLAPS

-----------------------------------------------------------------------------
(* Arithmetic of the offsets.                                                 *)

(* Multiplication by a natural number preserves order.                        *)
LEMMA MulMono == \A a, b, n \in Nat : a <= b => a * n <= b * n
  OBVIOUS

(* Natural numbers are closed under the products the offsets are made of.     *)
LEMMA MulNat == \A a, b \in Nat : a * b \in Nat
  OBVIOUS

(* Division with a remainder, which splits a byte position into an element    *)
(* and a byte of it.                                                          *)
LEMMA DivMod ==
    \A k \in Nat, w \in Nat \ {0} :
        k \div w \in Nat /\ k % w \in 0 .. w - 1 /\ k = (k \div w) * w + (k % w)
  OBVIOUS

(* The bytes of m * n elements.                                               *)
BufferSize(m, n, w) == (m * n) * w

(* The size is a natural number, and the same for the transposed matrix.      *)
LEMMA BufferSizeNat ==
    \A m, n, w \in Nat : BufferSize(m, n, w) \in Nat /\ BufferSize(m, n, w) = BufferSize(n, m, w)
  BY MulNat DEF BufferSize

(* Element (i, j) is one of the m * n elements.                               *)
LEMMA ElementInRange ==
    ASSUME NEW m \in Nat, NEW n \in Nat, NEW i \in 0 .. m - 1, NEW j \in 0 .. n - 1
    PROVE  i * n + j \in Nat /\ i * n + j + 1 <= m * n
<1>1. (i + 1) * n <= m * n
  BY MulMono, i + 1 <= m
<1>2. (i + 1) * n = i * n + n
  OBVIOUS
<1>3. i * n \in Nat /\ m * n \in Nat
  BY MulNat
<1> QED
  BY <1>1, <1>2, <1>3

(* Two different elements have different numbers.                             *)
LEMMA ElementInjective ==
    ASSUME NEW n \in Nat,
           NEW i \in Nat, NEW j \in 0 .. n - 1, NEW x \in Nat, NEW y \in 0 .. n - 1,
           i * n + j = x * n + y
    PROVE  i = x /\ j = y
<1>1. ASSUME NEW a \in Nat, NEW b \in Nat, NEW c \in 0 .. n - 1, NEW d \in 0 .. n - 1, a < b
      PROVE  a * n + c < b * n + d
  <2>1. (a + 1) * n <= b * n
    BY MulMono, <1>1
  <2>2. (a + 1) * n = a * n + n
    OBVIOUS
  <2>3. a * n \in Nat /\ b * n \in Nat
    BY MulNat
  <2> QED
    BY <2>1, <2>2, <2>3
<1>2. ~(i < x) /\ ~(x < i)
  BY <1>1
<1> QED
  BY <1>2, MulNat

(* The bytes of element (i, j) lie inside a buffer of m * n elements.         *)
LEMMA OffsetInRange ==
    ASSUME NEW m \in Nat, NEW n \in Nat, NEW w \in Nat \ {0},
           NEW i \in 0 .. m - 1, NEW j \in 0 .. n - 1
    PROVE  Offset(i, j, n, w) \in Nat /\ Offset(i, j, n, w) + w <= BufferSize(m, n, w)
<1> DEFINE e == i * n + j
<1>1. e \in Nat /\ e + 1 <= m * n
  BY ElementInRange
<1>2. m * n \in Nat
  BY MulNat
<1> HIDE DEF e
<1>3. (e + 1) * w <= BufferSize(m, n, w)
  BY <1>1, <1>2, MulMono DEF BufferSize
<1>4. (e + 1) * w = e * w + w /\ e * w \in Nat
  BY <1>1
<1> QED
  BY <1>3, <1>4 DEF Offset, e

(* Different elements occupy different bytes.                                 *)
LEMMA OffsetDisjoint ==
    ASSUME NEW n \in Nat, NEW w \in Nat \ {0},
           NEW i \in Nat, NEW j \in 0 .. n - 1, NEW b \in 0 .. w - 1,
           NEW x \in Nat, NEW y \in 0 .. n - 1, NEW c \in 0 .. w - 1,
           Offset(i, j, n, w) + b = Offset(x, y, n, w) + c
    PROVE  i = x /\ j = y
<1> DEFINE e == i * n + j
           f == x * n + y
<1>1. e \in Nat /\ f \in Nat
  BY MulNat
<1>2. e * w + b = f * w + c
  BY DEF Offset
<1> HIDE DEF e, f
<1>3. e = f
  BY <1>1, <1>2, ElementInjective, w \in Nat
<1> QED
  BY <1>3, ElementInjective DEF e, f

(* Dividing by the width and by the columns finds the element of a byte.      *)
LEMMA ElementOfByte ==
    ASSUME NEW m \in Nat, NEW n \in Nat, NEW w \in Nat \ {0},
           NEW k \in 0 .. BufferSize(m, n, w) - 1
    PROVE  /\ (k \div w) \div n \in 0 .. m - 1
           /\ (k \div w) % n \in 0 .. n - 1
           /\ k % w \in 0 .. w - 1
           /\ k = Offset((k \div w) \div n, (k \div w) % n, n, w) + (k % w)
<1> DEFINE e == k \div w
           i == e \div n
           j == e % n
<1>0. k \in Nat /\ k < BufferSize(m, n, w) /\ BufferSize(m, n, w) \in Nat
  BY BufferSizeNat
<1>1. e \in Nat /\ k % w \in 0 .. w - 1 /\ k = e * w + (k % w)
  BY <1>0, DivMod
<1>2. m * n \in Nat
  BY MulNat
<1>3. e < m * n
  <2> HIDE DEF e
  <2>1. SUFFICES ASSUME m * n <= e PROVE FALSE
    BY <1>1, <1>2
  <2>2. BufferSize(m, n, w) <= e * w
    BY <2>1, <1>1, <1>2, MulMono DEF BufferSize
  <2>3. e * w \in Nat
    BY <1>1, MulNat
  <2> QED
    BY <2>2, <2>3, <1>0, <1>1
<1>4. n # 0
  BY <1>1, <1>3
<1> HIDE DEF e
<1>5. i \in Nat /\ j \in 0 .. n - 1 /\ e = i * n + j
  BY <1>1, <1>4, DivMod
<1> HIDE DEF i, j
<1>6. i < m
  <2>1. SUFFICES ASSUME m <= i PROVE FALSE
    BY <1>5
  <2>2. m * n <= i * n
    BY <2>1, <1>5, MulMono
  <2> QED
    BY <2>2, <1>2, <1>3, <1>5, MulNat
<1>7. k = Offset(i, j, n, w) + (k % w)
  BY <1>1, <1>5 DEF Offset
<1> QED
  BY <1>1, <1>5, <1>6, <1>7 DEF e, i, j

(* Every byte of the buffer belongs to an element: nothing is left out.       *)
LEMMA OffsetCovers ==
    ASSUME NEW m \in Nat, NEW n \in Nat, NEW w \in Nat \ {0},
           NEW k \in 0 .. BufferSize(m, n, w) - 1
    PROVE  \E i \in 0 .. m - 1, j \in 0 .. n - 1, b \in 0 .. w - 1 :
              k = Offset(i, j, n, w) + b
<1> DEFINE i == (k \div w) \div n
           j == (k \div w) % n
           b == k % w
<1>1. i \in 0 .. m - 1 /\ j \in 0 .. n - 1 /\ b \in 0 .. w - 1 /\ k = Offset(i, j, n, w) + b
  BY ElementOfByte
<1> HIDE DEF i, j, b
<1> QED
  BY <1>1

(* The same four facts for the offsets of the copy loop, m rows and n columns *)
(* being copied.                                                              *)
LEMMA CopyInRange ==
    ASSUME NEW m \in Nat, NEW n \in Nat, NEW w \in Nat \ {0},
           NEW i \in 0 .. m - 1, NEW j \in 0 .. n - 1
    PROVE  /\ SourceOffset(i, j, m, n, w) \in Nat
           /\ DestOffset(i, j, m, n, w) \in Nat
           /\ SourceOffset(i, j, m, n, w) + w <= BufferSize(m, n, w)
           /\ DestOffset(i, j, m, n, w) + w <= BufferSize(m, n, w)
<1>1. SourceOffset(i, j, m, n, w) \in Nat /\ SourceOffset(i, j, m, n, w) + w <= BufferSize(m, n, w)
  BY OffsetInRange DEF SourceOffset
<1>2. DestOffset(i, j, m, n, w) \in Nat /\ DestOffset(i, j, m, n, w) + w <= BufferSize(n, m, w)
  BY OffsetInRange DEF DestOffset
<1> QED
  BY <1>1, <1>2, BufferSizeNat

(* Both copies of a byte of an element are places in the buffer.              *)
LEMMA DestByteInRange ==
    ASSUME NEW m \in Nat, NEW n \in Nat, NEW w \in Nat \ {0},
           NEW i \in 0 .. m - 1, NEW j \in 0 .. n - 1, NEW b \in 0 .. w - 1
    PROVE  /\ DestOffset(i, j, m, n, w) + b \in 0 .. BufferSize(m, n, w) - 1
           /\ SourceOffset(i, j, m, n, w) + b \in 0 .. BufferSize(m, n, w) - 1
<1> DEFINE d == DestOffset(i, j, m, n, w)
           s == SourceOffset(i, j, m, n, w)
<1>1. d \in Nat /\ s \in Nat /\ d + w <= BufferSize(m, n, w) /\ s + w <= BufferSize(m, n, w)
  BY CopyInRange
<1>2. BufferSize(m, n, w) \in Nat
  BY BufferSizeNat
<1> HIDE DEF d, s
<1>3. d + b \in 0 .. BufferSize(m, n, w) - 1 /\ s + b \in 0 .. BufferSize(m, n, w) - 1
  BY <1>1, <1>2
<1> QED
  BY <1>3 DEF d, s

(* Two elements whose destinations share a byte are the same element.         *)
LEMMA DestInjective ==
    ASSUME NEW m \in Nat, NEW n \in Nat, NEW w \in Nat \ {0},
           NEW i \in 0 .. m - 1, NEW j \in 0 .. n - 1, NEW b \in 0 .. w - 1,
           NEW x \in 0 .. m - 1, NEW y \in 0 .. n - 1, NEW c \in 0 .. w - 1,
           DestOffset(i, j, m, n, w) + b = DestOffset(x, y, m, n, w) + c
    PROVE  i = x /\ j = y
  BY OffsetDisjoint DEF DestOffset

(* Every byte of the destination belongs to an element.                       *)
LEMMA DestCovers ==
    ASSUME NEW m \in Nat, NEW n \in Nat, NEW w \in Nat \ {0},
           NEW k \in 0 .. BufferSize(m, n, w) - 1
    PROVE  \E i \in 0 .. m - 1, j \in 0 .. n - 1, b \in 0 .. w - 1 :
              k = DestOffset(i, j, m, n, w) + b
<1>1. k \in 0 .. BufferSize(n, m, w) - 1
  BY BufferSizeNat
<1>2. \E j \in 0 .. n - 1, i \in 0 .. m - 1, b \in 0 .. w - 1 : k = Offset(j, i, m, w) + b
  BY <1>1, OffsetCovers
<1> QED
  BY <1>2 DEF DestOffset

-----------------------------------------------------------------------------
(* The inductive invariant: while the loop runs, the elements before          *)
(* (row, col) are in their transposed places and every other place is still   *)
(* zero-filled.                                                               *)
Copied(i, j) == i < row \/ (i = row /\ j < col)

BufferFollowsLoop ==
    /\ len = BufferSize(rows, cols, width)
    /\ DOMAIN dest = 0 .. len - 1
    /\ \A i \in 0 .. rows - 1, j \in 0 .. cols - 1, b \in 0 .. width - 1 :
          dest[DestOffset(i, j, rows, cols, width) + b] =
              IF Copied(i, j) THEN SourceOffset(i, j, rows, cols, width) + b ELSE Zeroed

Inv ==
    /\ phase \in {"fetched", "refused", "copying", "returned"}
    /\ len \in 0 .. MaxLength
    /\ rows \in Sides
    /\ cols \in Sides
    /\ width \in Widths
    /\ row \in 0 .. rows
    /\ col \in 0 .. cols
    /\ phase \in {"fetched", "refused"} => row = 0 /\ col = 0 /\ DOMAIN dest = {}
    /\ phase = "copying" => BufferFollowsLoop /\ (row = rows => col = 0)
    /\ phase = "returned" => BufferFollowsLoop /\ row = rows

(* The constants as the arithmetic lemmas take them.                          *)
LEMMA Sizes == Inv => rows \in Nat /\ cols \in Nat /\ width \in Nat \ {0} /\ len \in Nat
  BY SidesAssumption, WidthsAssumption, LengthAssumption DEF Inv

(* The saturating byte count is only met by an exact one: no payload is as    *)
(* long as the largest u64.                                                   *)
LEMMA LengthExact ==
    Inv /\ LengthMatches => len = BufferSize(rows, cols, width)
<1> SUFFICES ASSUME Inv, LengthMatches PROVE len = BufferSize(rows, cols, width)
  OBVIOUS
<1>1. len <= MaxLength /\ MaxLength < MaxU64 /\ {len, MaxLength, MaxU64} \subseteq Nat
  BY LengthAssumption DEF Inv
<1>2. BufferSize(rows, cols, width) \in Nat
  BY Sizes, BufferSizeNat
<1>3. len = IF BufferSize(rows, cols, width) > MaxU64 THEN MaxU64 ELSE BufferSize(rows, cols, width)
  BY DEF LengthMatches, SaturatingMul, BufferSize
<1> QED
  BY <1>1, <1>2, <1>3

(* The loop invariant holds before the length check.                          *)
LEMMA InitInv == Init => Inv
  BY SidesAssumption, LengthAssumption DEF Init, Inv

(* One element copied: its place and no other changes.                        *)
LEMMA CopyElementInv ==
    ASSUME Inv, CopyElement
    PROVE  Inv' /\ \A k \in DOMAIN dest : dest[k] # Zeroed => dest'[k] = dest[k]
<1> DEFINE s == SourceOffset(row, col, rows, cols, width)
           d == DestOffset(row, col, rows, cols, width)
<1>1. /\ rows \in Nat /\ cols \in Nat /\ width \in Nat \ {0} /\ len \in Nat
      /\ phase = "copying" /\ BufferFollowsLoop
      /\ row \in 0 .. rows - 1 /\ col \in 0 .. cols - 1
  BY Sizes DEF Inv, CopyElement
<1>2. /\ s \in Nat /\ d \in Nat
      /\ s + width <= len /\ d + width <= len
  BY <1>1, CopyInRange DEF BufferFollowsLoop
<1>3. /\ dest' = [k \in DOMAIN dest |->
                     IF k \in d .. d + width - 1 THEN s + (k - d) ELSE dest[k]]
      /\ col' = col + 1
      /\ phase' = phase /\ row' = row
      /\ len' = len /\ rows' = rows /\ cols' = cols /\ width' = width
  BY <1>2 DEF CopyElement, InRange, args
<1>4. DOMAIN dest' = 0 .. len - 1
  BY <1>1, <1>3 DEF BufferFollowsLoop
<1>5. ASSUME NEW i \in 0 .. rows - 1, NEW j \in 0 .. cols - 1, NEW b \in 0 .. width - 1
      PROVE  dest'[DestOffset(i, j, rows, cols, width) + b] =
                 IF i < row \/ (i = row /\ j < col + 1)
                 THEN SourceOffset(i, j, rows, cols, width) + b ELSE Zeroed
  <2> DEFINE k == DestOffset(i, j, rows, cols, width) + b
  <2>1. k \in DOMAIN dest
    BY <1>1, <1>5, DestByteInRange DEF BufferFollowsLoop
  <2>2. CASE i = row /\ j = col
    <3>1. k \in d .. d + width - 1 /\ k - d = b
      BY <2>2, <1>1, <1>2
    <3> QED
      BY <3>1, <2>1, <2>2, <1>1, <1>3
  <2>3. CASE ~(i = row /\ j = col)
    <3>1. k \notin d .. d + width - 1
      <4>1. SUFFICES ASSUME k \in d .. d + width - 1 PROVE FALSE
        OBVIOUS
      <4>0. k \in Nat
        <5>1. DOMAIN dest = 0 .. len - 1
          BY <1>1 DEF BufferFollowsLoop
        <5> HIDE DEF k
        <5> QED
          BY <2>1, <5>1, <1>1
      <4> HIDE DEF k, d
      <4>2. k - d \in 0 .. width - 1 /\ k = d + (k - d)
        BY <4>0, <4>1, <1>1, <1>2
      <4>3. k = DestOffset(i, j, rows, cols, width) + b /\ d = DestOffset(row, col, rows, cols, width)
        BY DEF k, d
      <4> QED
        BY <4>2, <4>3, <1>1, <1>5, <2>3, DestInjective
    <3>2. dest'[k] = dest[k]
      BY <3>1, <2>1, <1>3
    <3>3. (i < row \/ (i = row /\ j < col + 1)) <=> Copied(i, j)
      BY <2>3, <1>1 DEF Copied
    <3> QED
      BY <3>2, <3>3, <1>1, <1>5 DEF BufferFollowsLoop
  <2> QED
    BY <2>2, <2>3
<1>6. BufferFollowsLoop'
  <2>1. \A i \in 0 .. rows - 1, j \in 0 .. cols - 1, b \in 0 .. width - 1 :
          dest'[DestOffset(i, j, rows, cols, width) + b] =
              IF i < row \/ (i = row /\ j < col + 1)
              THEN SourceOffset(i, j, rows, cols, width) + b ELSE Zeroed
    BY <1>5
  <2>2. (len = BufferSize(rows, cols, width))' /\ (DOMAIN dest = 0 .. len - 1)'
    BY <1>1, <1>3, <1>4 DEF BufferFollowsLoop
  <2>3. (\A i \in 0 .. rows - 1, j \in 0 .. cols - 1, b \in 0 .. width - 1 :
           dest[DestOffset(i, j, rows, cols, width) + b] =
               IF Copied(i, j) THEN SourceOffset(i, j, rows, cols, width) + b ELSE Zeroed)'
    BY <2>1, <1>3 DEF Copied
  <2> QED
    BY <2>2, <2>3 DEF BufferFollowsLoop
<1>7. Inv'
  BY <1>1, <1>3, <1>6 DEF Inv
<1>8. ASSUME NEW k \in DOMAIN dest, dest[k] # Zeroed
      PROVE  dest'[k] = dest[k]
  <2>1. k \notin d .. d + width - 1
    <3>1. SUFFICES ASSUME k \in d .. d + width - 1 PROVE FALSE
      OBVIOUS
    <3>2. k - d \in 0 .. width - 1 /\ k = d + (k - d)
      BY <3>1, <1>1, <1>2, <1>8 DEF BufferFollowsLoop
    <3>3. ~Copied(row, col)
      BY <1>1 DEF Copied
    <3>4. dest[d + (k - d)] = Zeroed
      BY <3>2, <3>3, <1>1 DEF BufferFollowsLoop
    <3> QED
      BY <3>2, <3>4, <1>8
  <2> QED
    BY <2>1, <1>3
<1> QED
  BY <1>7, <1>8

(* Starting the next row and returning move no byte.                          *)
LEMMA NextRowInv ==
    ASSUME Inv, NextRow
    PROVE  Inv'
<1>1. /\ rows \in Nat /\ cols \in Nat /\ phase = "copying" /\ BufferFollowsLoop
      /\ row \in 0 .. rows - 1 /\ col = cols
  BY Sizes DEF Inv, NextRow
<1>2. ASSUME NEW i \in 0 .. rows - 1, NEW j \in 0 .. cols - 1
      PROVE  (i < row + 1 \/ (i = row + 1 /\ j < 0)) <=> Copied(i, j)
  BY <1>1 DEF Copied
<1>3. BufferFollowsLoop'
  BY <1>1, <1>2 DEF BufferFollowsLoop, Copied, NextRow, args
<1> QED
  BY <1>1, <1>3 DEF Inv, NextRow, args

(* The buffer is allocated for exactly the matrix, zero-filled.               *)
LEMMA AllocateInv ==
    ASSUME Inv, Allocate
    PROVE  Inv'
<1>1. rows \in Nat /\ cols \in Nat /\ width \in Nat \ {0} /\ row = 0 /\ col = 0
  BY Sizes DEF Inv, Allocate
<1>2. len = BufferSize(rows, cols, width)
  BY LengthExact DEF Allocate
<1>3. ASSUME NEW i \in 0 .. rows - 1, NEW j \in 0 .. cols - 1, NEW b \in 0 .. width - 1
      PROVE  /\ DestOffset(i, j, rows, cols, width) + b \in 0 .. len - 1
             /\ ~Copied(i, j)
  BY <1>1, <1>2, <1>3, DestByteInRange DEF Copied
<1>4. BufferFollowsLoop'
  BY <1>1, <1>2, <1>3 DEF BufferFollowsLoop, Copied, Allocate, args
<1> QED
  BY <1>1, <1>4 DEF Inv, Allocate, args

(* Every step of the loop machine keeps the loop invariant.                   *)
LEMMA NextInv == Inv /\ [Next]_vars => Inv'
<1> SUFFICES ASSUME Inv, [Next]_vars PROVE Inv'
  OBVIOUS
<1>1. CASE Refuse
  BY <1>1 DEF Inv, Refuse, args
<1>2. CASE Allocate
  BY <1>2, AllocateInv
<1>3. CASE CopyElement
  BY <1>3, CopyElementInv
<1>4. CASE NextRow
  BY <1>4, NextRowInv
<1>5. CASE Return
  BY <1>5 DEF Inv, Return, args, BufferFollowsLoop, Copied
<1>6. CASE UNCHANGED vars
  BY <1>6 DEF vars, args, Inv, BufferFollowsLoop, Copied
<1> QED
  BY <1>1, <1>2, <1>3, <1>4, <1>5, <1>6 DEF Next

(* The loop invariant holds in every reachable state.                         *)
THEOREM Invariance == Spec => []Inv
  BY InitInv, NextInv, PTL DEF Spec

-----------------------------------------------------------------------------
(* What is ahead of the call gets shorter with every step.                    *)
LEMMA RowEnd ==
    ASSUME NEW m \in Nat \ {0}, NEW n \in Nat
    PROVE  (m - 1) * (n + 1) \in Nat /\ m * (n + 1) = (m - 1) * (n + 1) + n + 1
<1>1. m - 1 \in Nat /\ n + 1 \in Nat
  OBVIOUS
<1> QED
  BY <1>1, MulNat

LEMMA NextAdvances ==
    ASSUME Inv, Next
    PROVE  StepsLeft' \in Nat /\ StepsLeft' < StepsLeft
<1>1. /\ rows \in Nat /\ cols \in Nat /\ row \in 0 .. rows /\ col \in 0 .. cols
      /\ rows * (cols + 1) \in Nat
  BY Sizes, MulNat DEF Inv
<1>2. phase = "copying" /\ row < rows =>
         /\ (rows - row - 1) * (cols + 1) \in Nat
         /\ StepsLeft = (rows - row - 1) * (cols + 1) + cols + 1 - col + 1
  <2> SUFFICES ASSUME phase = "copying", row < rows
               PROVE  /\ (rows - row - 1) * (cols + 1) \in Nat
                      /\ StepsLeft = (rows - row - 1) * (cols + 1) + cols + 1 - col + 1
    OBVIOUS
  <2> DEFINE m == rows - row
  <2>1. m \in Nat \ {0}
    BY <1>1
  <2>2. StepsLeft = m * (cols + 1) - col + 1
    BY DEF StepsLeft
  <2> HIDE DEF m
  <2>3. (m - 1) * (cols + 1) \in Nat /\ m * (cols + 1) = (m - 1) * (cols + 1) + cols + 1
    BY <1>1, <2>1, RowEnd
  <2>4. StepsLeft = (m - 1) * (cols + 1) + cols + 1 - col + 1
    BY <1>1, <2>2, <2>3
  <2> QED
    BY <2>3, <2>4 DEF m
<1>3. CASE Refuse
  BY <1>1, <1>3 DEF Refuse, StepsLeft
<1>4. CASE Allocate
  <2>1. StepsLeft = rows * (cols + 1) + 2
    BY <1>4 DEF Allocate, StepsLeft
  <2>2. StepsLeft' = (rows - 0) * (cols + 1) - 0 + 1
    BY <1>4 DEF Allocate, StepsLeft, args, Inv
  <2>3. rows - 0 = rows
    BY <1>1
  <2> QED
    BY <1>1, <2>1, <2>2, <2>3
<1>5. CASE CopyElement
  <2>1. phase = "copying" /\ row < rows /\ col < cols /\ phase' = "copying"
    BY <1>5, CopyElementInv DEF CopyElement, Inv
  <2>2. /\ col' = col + 1 /\ row' = row /\ rows' = rows /\ cols' = cols
    BY <1>5, <2>1 DEF CopyElement, args
  <2>3. /\ StepsLeft = (rows - row) * (cols + 1) - col + 1
        /\ StepsLeft' = (rows - row) * (cols + 1) - (col + 1) + 1
    BY <2>1, <2>2 DEF StepsLeft
  <2>4. (rows - row) * (cols + 1) \in Nat
    <3>1. rows - row \in Nat
      BY <1>1
    <3> QED
      BY <1>1, <3>1, MulNat
  <2> QED
    BY <1>1, <1>2, <2>1, <2>3, <2>4
<1>6. CASE NextRow
  <2>1. phase = "copying" /\ row < rows /\ col = cols
    BY <1>6 DEF NextRow
  <2>2. StepsLeft' = (rows - (row + 1)) * (cols + 1) - 0 + 1
    BY <1>6 DEF NextRow, args, StepsLeft
  <2>3. rows - (row + 1) = rows - row - 1
    BY <1>1
  <2>4. StepsLeft' = (rows - row - 1) * (cols + 1) + 1
    BY <1>1, <1>2, <2>1, <2>2, <2>3
  <2>5. StepsLeft = (rows - row - 1) * (cols + 1) + 2
    BY <1>1, <1>2, <2>1
  <2> QED
    BY <1>2, <2>1, <2>4, <2>5
<1>7. CASE Return
  <2>1. phase = "copying" /\ row = rows /\ col = 0 /\ StepsLeft' = 0
    BY <1>7 DEF Return, Inv, StepsLeft
  <2>2. StepsLeft = (rows - row) * (cols + 1) - col + 1
    BY <2>1 DEF StepsLeft
  <2>3. rows - row = 0 /\ 0 * (cols + 1) = 0
    BY <1>1, <2>1
  <2> QED
    BY <2>1, <2>2, <2>3
<1> QED
  BY <1>3, <1>4, <1>5, <1>6, <1>7 DEF Next

(* The copy loop ends after as many steps as the sides say, at the latest:    *)
(* the part of Terminates that needs no fairness, for sides of any size.      *)
THEOREM LoopEnds == Spec => EndsInTime
<1>1. Inv /\ [Next]_vars => [StepsLeft' \in Nat /\ StepsLeft' < StepsLeft]_vars
  BY NextAdvances
<1> QED
  BY <1>1, Invariance, PTL DEF Spec, EndsInTime

-----------------------------------------------------------------------------
(* What every byte of the buffer holds: nothing yet, or a byte of the         *)
(* payload.                                                                   *)
LEMMA BufferBytes ==
    ASSUME Inv, BufferFollowsLoop, NEW k \in DOMAIN dest
    PROVE  dest[k] \in {Zeroed} \cup 0 .. len - 1
<1>1. k \in 0 .. BufferSize(rows, cols, width) - 1
  BY DEF BufferFollowsLoop
<1>2. rows \in Nat /\ cols \in Nat /\ width \in Nat \ {0}
  BY Sizes
<1>3. \E i \in 0 .. rows - 1, j \in 0 .. cols - 1, b \in 0 .. width - 1 :
       k = DestOffset(i, j, rows, cols, width) + b
  BY <1>1, <1>2, DestCovers
<1>4. PICK i \in 0 .. rows - 1, j \in 0 .. cols - 1, b \in 0 .. width - 1 :
          k = DestOffset(i, j, rows, cols, width) + b
  BY <1>3
<1>5. SourceOffset(i, j, rows, cols, width) + b \in 0 .. len - 1
  BY Sizes, DestByteInRange DEF BufferFollowsLoop
<1> QED
  BY <1>4, <1>5 DEF BufferFollowsLoop

(* The counters and the buffer stay inside what the declared sides and the    *)
(* payload's length allow, for all sizes.                                     *)
THEOREM TypeCorrect == Spec => []TypeOK
<1>1. Inv => TypeOK
  <2> SUFFICES ASSUME Inv PROVE TypeOK
    OBVIOUS
  <2>1. CASE phase \in {"copying", "returned"}
    <3>1. BufferFollowsLoop
      BY <2>1 DEF Inv
    <3>2. \A k \in DOMAIN dest : dest[k] \in {Zeroed} \cup 0 .. len - 1
      BY <3>1, BufferBytes
    <3> QED
      BY <3>1, <3>2 DEF Inv, TypeOK, BufferFollowsLoop
  <2>2. CASE phase \in {"fetched", "refused"}
    BY <2>2 DEF Inv, TypeOK
  <2> QED
    BY <2>1, <2>2 DEF Inv
<1> QED
  BY <1>1, Invariance, PTL

(* No slice of the copy loop is out of range, for any sides that pass the     *)
(* length check: read_payload does not panic.                                 *)
THEOREM NoPanic == Spec => []NeverPanics
<1>1. Inv => NeverPanics
  BY DEF Inv, NeverPanics
<1> QED
  BY <1>1, Invariance, PTL

(* No byte of the answer is ever written over.                                *)
THEOREM EachByteWrittenOnce == Spec => WritesOnce
<1>1. Inv /\ [Next]_vars =>
        [\A k \in DOMAIN dest : dest[k] # Zeroed => dest'[k] = dest[k]]_vars
  <2> SUFFICES ASSUME Inv, Next
               PROVE  \A k \in DOMAIN dest : dest[k] # Zeroed => dest'[k] = dest[k]
    OBVIOUS
  <2>1. CASE Allocate
    BY <2>1 DEF Inv, Allocate
  <2>2. CASE CopyElement
    BY <2>2, CopyElementInv
  <2>3. CASE Refuse \/ NextRow \/ Return
    BY <2>3 DEF Refuse, NextRow, Return
  <2> QED
    BY <2>1, <2>2, <2>3 DEF Next
<1> QED
  BY <1>1, Invariance, PTL DEF Spec, WritesOnce

-----------------------------------------------------------------------------
(* When the loop is done the buffer is the transpose TensorTranspose          *)
(* describes, with no byte left zero-filled.                                  *)
LEMMA LoopTransposes ==
    ASSUME Inv, BufferFollowsLoop, row = rows
    PROVE  Abstract!IsTranspose(dest)
<1>1. ASSUME NEW i \in 0 .. rows - 1, NEW j \in 0 .. cols - 1, NEW b \in 0 .. width - 1
      PROVE  /\ dest[DestOffset(i, j, rows, cols, width) + b]
                   = SourceOffset(i, j, rows, cols, width) + b
             /\ SourceOffset(i, j, rows, cols, width) + b \in Nat
  <2>1. Copied(i, j)
    BY Sizes DEF Copied
  <2>2. dest[DestOffset(i, j, rows, cols, width) + b]
            = SourceOffset(i, j, rows, cols, width) + b
    BY <2>1 DEF BufferFollowsLoop
  <2>3. SourceOffset(i, j, rows, cols, width) + b \in 0 .. BufferSize(rows, cols, width) - 1
    BY Sizes, DestByteInRange
  <2>4. SourceOffset(i, j, rows, cols, width) + b \in Nat
    BY <2>3, Sizes, BufferSizeNat
  <2> QED
    BY <2>2, <2>4
<1>2. \A i \in 0 .. rows - 1, j \in 0 .. cols - 1, b \in 0 .. width - 1 :
          dest[(j * rows + i) * width + b] = (i * cols + j) * width + b
  BY <1>1 DEF DestOffset, SourceOffset, Offset
<1>3. ASSUME NEW k \in 0 .. len - 1
      PROVE  dest[k] # Zeroed
  <2>1. k \in 0 .. BufferSize(rows, cols, width) - 1
    BY DEF BufferFollowsLoop
  <2>2. rows \in Nat /\ cols \in Nat /\ width \in Nat \ {0}
    BY Sizes
  <2>3. \E i \in 0 .. rows - 1, j \in 0 .. cols - 1, b \in 0 .. width - 1 :
         k = DestOffset(i, j, rows, cols, width) + b
    BY <2>1, <2>2, DestCovers
  <2>4. PICK i \in 0 .. rows - 1, j \in 0 .. cols - 1, b \in 0 .. width - 1 :
            k = DestOffset(i, j, rows, cols, width) + b
    BY <2>3
  <2> QED
    BY <2>4, <1>1, ZeroedAssumption
<1> QED
  BY <1>2, <1>3 DEF Abstract!IsTranspose, BufferFollowsLoop

(* A refusal is justified: the payload is not a rows x cols matrix. A count   *)
(* over the largest u64 cannot be met by a payload either.                    *)
LEMMA RefusalJustified ==
    ASSUME Inv, Refuse
    PROVE  len # rows * cols * width
<1>1. len \in Nat /\ len < MaxU64 /\ MaxU64 \in Nat
  BY LengthAssumption DEF Inv
<1>2. CASE ElementCountOverflows
  <2>1. rows * cols \in Nat /\ rows * cols > MaxU64
    BY <1>2, Sizes, MulNat DEF ElementCountOverflows
  <2> DEFINE n == rows * cols
  <2> HIDE DEF n
  <2>2. n \in Nat /\ n > MaxU64
    BY <2>1 DEF n
  <2>3. 1 * n <= width * n
    BY <2>2, Sizes, MulMono
  <2>4. n * width > MaxU64
    BY <2>2, <2>3, <1>1, Sizes
  <2> QED
    BY <2>4, <1>1 DEF n
<1>3. CASE ~LengthMatches
  <2>1. BufferSize(rows, cols, width) \in Nat
    BY Sizes, BufferSizeNat
  <2>2. len # IF BufferSize(rows, cols, width) > MaxU64 THEN MaxU64
              ELSE BufferSize(rows, cols, width)
    BY <1>3 DEF LengthMatches, SaturatingMul, BufferSize
  <2>3. len # BufferSize(rows, cols, width)
    BY <2>1, <2>2, <1>1
  <2> QED
    BY <2>3 DEF BufferSize
<1> QED
  BY <1>2, <1>3 DEF Refuse

(* The loop implements the one-step transposition: refusals and answers are   *)
(* its steps, everything in between is invisible.                             *)
THEOREM Refinement == Spec => ImplementsTranspose
<1>1. Init => Abstract!Init
  BY DEF Init, Abstract!Init, Outcome
<1>2. Inv /\ Inv' /\ [Next]_vars =>
        [Abstract!Refuse \/ Abstract!Return]_<<Abstract!args, Outcome,
            IF phase = "returned" THEN dest ELSE [k \in {} |-> Zeroed]>>
  <2> SUFFICES ASSUME Inv, Inv', [Next]_vars
               PROVE  \/ Abstract!Refuse
                      \/ Abstract!Return
                      \/ UNCHANGED <<Abstract!args, Outcome,
                            IF phase = "returned" THEN dest ELSE [k \in {} |-> Zeroed]>>
    OBVIOUS
  <2>1. CASE Refuse
    BY <2>1, RefusalJustified DEF Refuse, Abstract!Refuse, Outcome, args, Abstract!args
  <2>2. CASE Allocate
    BY <2>2 DEF Allocate, Outcome, args, Abstract!args
  <2>3. CASE CopyElement
    <3>1. phase = "copying" /\ phase' = "copying" /\ UNCHANGED args
      BY <2>3 DEF CopyElement, Inv
    <3> QED
      BY <3>1 DEF Outcome, args, Abstract!args
  <2>4. CASE NextRow
    BY <2>4 DEF NextRow, Outcome, args, Abstract!args
  <2>5. CASE Return
    <3>1. phase = "copying" /\ phase' = "returned" /\ row = rows /\ BufferFollowsLoop
          /\ UNCHANGED <<args, dest>>
      BY <2>5 DEF Return, Inv
    <3>2. Abstract!IsTranspose(dest)
      BY <3>1, LoopTransposes
    <3>3. (Abstract!IsTranspose(dest))'
      BY <3>1, <3>2 DEF Abstract!IsTranspose, args
    <3>4. len = rows * cols * width
      BY <3>1 DEF BufferFollowsLoop, BufferSize
    <3> QED
      BY <3>1, <3>3, <3>4 DEF Abstract!Return, Abstract!IsTranspose, Outcome, args, Abstract!args
  <2>6. CASE UNCHANGED vars
    BY <2>6 DEF vars, args, Outcome, Abstract!args
  <2> QED
    BY <2>1, <2>2, <2>3, <2>4, <2>5, <2>6 DEF Next
<1> QED
  BY <1>1, <1>2, Invariance, PTL DEF Spec, ImplementsTranspose, Abstract!Spec

-----------------------------------------------------------------------------
(* What the loop of one answer copies, element by element, is the closed form *)
(* by which the reads of the payload source are modelled.                     *)
THEOREM LoopIsClosedForm == Spec => []MatchesClosedForm
<1>1. Inv => MatchesClosedForm
  <2> SUFFICES ASSUME Inv, phase = "returned", NEW k \in 0 .. len - 1
               PROVE  dest[k] = SourceOfByte(k, rows, cols, width)
    BY DEF MatchesClosedForm
  <2> DEFINE i == (k \div width) % rows
             j == (k \div width) \div rows
             b == k % width
  <2>1. /\ rows \in Nat /\ cols \in Nat /\ width \in Nat \ {0}
        /\ BufferFollowsLoop /\ row = rows
    BY Sizes DEF Inv
  <2>2. k \in 0 .. BufferSize(cols, rows, width) - 1
    BY <2>1, BufferSizeNat DEF BufferFollowsLoop
  <2>3. /\ i \in 0 .. rows - 1 /\ j \in 0 .. cols - 1 /\ b \in 0 .. width - 1
        /\ k = Offset(j, i, rows, width) + b
    BY <2>1, <2>2, ElementOfByte
  <2>4. SourceOfByte(k, rows, cols, width) = SourceOffset(i, j, rows, cols, width) + b
    BY DEF SourceOfByte
  <2> HIDE DEF i, j, b
  <2>5. k = DestOffset(i, j, rows, cols, width) + b
    BY <2>3 DEF DestOffset
  <2>6. Copied(i, j)
    BY <2>1, <2>3 DEF Copied
  <2>7. dest[k] = SourceOffset(i, j, rows, cols, width) + b
    BY <2>1, <2>3, <2>5, <2>6 DEF BufferFollowsLoop
  <2> QED
    BY <2>4, <2>7
<1> QED
  BY <1>1, Invariance, PTL
=============================================================================
