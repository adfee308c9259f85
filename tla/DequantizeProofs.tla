-------------------------- MODULE DequantizeProofs --------------------------
(* Theorems about HalfFloat and Dequantize: every half float is converted     *)
(* exactly, and a raw buffer of any length into the values its format says.   *)
EXTENDS Dequantize, HalfFloat, SequenceTheorems, FiniteSetTheorems, TLAPS

(* The powers of two that occur: those the mantissa is multiplied with in     *)
(* ten shifts, and those the exponents differ by.                             *)
LEMMA Powers ==
    /\ 2^0 = 1 /\ 2^5 = 32 /\ 2^10 = 1024 /\ 2^13 = 8192
    /\ 2^15 = 32768 /\ 2^23 = 8388608
  OBVIOUS

Power(s) == 2^s

LEMMA ShiftPowers ==
    ASSUME NEW s \in 0 .. 10
    PROVE  /\ Power(s) \in 1 .. 1024
           /\ s = 0 => Power(s) = 1
           /\ s = 10 => Power(s) = 1024
           /\ s < 10 => Power(s + 1) = 2 * Power(s)
           /\ Power(13 + s) = 8192 * Power(s)
<1>1. s \in {0, 1, 2, 3, 4, 5, 6, 7, 8, 9, 10}
  OBVIOUS
<1>2. CASE s = 0  BY <1>2 DEF Power
<1>3. CASE s = 1  BY <1>3 DEF Power
<1>4. CASE s = 2  BY <1>4 DEF Power
<1>5. CASE s = 3  BY <1>5 DEF Power
<1>6. CASE s = 4  BY <1>6 DEF Power
<1>7. CASE s = 5  BY <1>7 DEF Power
<1>8. CASE s = 6  BY <1>8 DEF Power
<1>9. CASE s = 7  BY <1>9 DEF Power
<1>10. CASE s = 8  BY <1>10 DEF Power
<1>11. CASE s = 9  BY <1>11 DEF Power
<1>12. CASE s = 10  BY <1>12 DEF Power
<1> QED
  BY <1>1, <1>2, <1>3, <1>4, <1>5, <1>6, <1>7, <1>8, <1>9, <1>10, <1>11, <1>12

(* The three fields of a pattern.                                             *)
LEMMA Fields ==
    ASSUME bits \in U16
    PROVE  /\ Sign \in 0 .. 1 /\ Exponent \in 0 .. 31 /\ Mantissa \in 0 .. 1023
           /\ Sign = bits \div 32768
           /\ Exponent = (bits \div 1024) % 32
           /\ Mantissa = bits % 1024
<1>1. Sign = bits \div 32768 /\ Exponent = (bits \div 1024) % 32 /\ Mantissa = bits % 1024
  BY Powers DEF Sign, Exponent, Mantissa
<1>2. bits \div 32768 \in 0 .. 1
  BY SMT DEF U16
<1>3. (bits \div 1024) % 32 \in 0 .. 31
  BY SMT DEF U16
<1>4. bits % 1024 \in 0 .. 1023
  BY SMT DEF U16
<1> QED
  BY <1>1, <1>2, <1>3, <1>4

Scaled(m, s) == 8192 * (m * Power(s))
Apart(e, f, s) == e \in Int /\ f \in Int /\ e - f = 13 + s

(* Multiplied and divided by the same power, a mantissa is what it was.       *)
LEMMA Shifted ==
    ASSUME NEW m \in Nat, NEW s \in 0 .. 10, NEW e, NEW f, Apart(e, f, s)
    PROVE  SameNumber(m, e, Scaled(m, s), f)
<1> USE DEF Apart
<1> DEFINE p == Power(s)
<1>1. p \in 1 .. 1024 /\ Power(13 + s) = 8192 * p
  BY ShiftPowers
<1>2. 2^(e - f) = Power(13 + s)
  BY DEF Power
<1> HIDE DEF p
<1>3. 8192 * (m * p) = m * (8192 * p) /\ 8192 * p \in Nat \ {0}
  BY <1>1
<1>4. \A x \in Nat, y \in Nat \ {0} : (x * y) % y = 0 /\ (x * y) \div y = x
  OBVIOUS
<1>5. (m * (8192 * p)) % (8192 * p) = 0 /\ (m * (8192 * p)) \div (8192 * p) = m
  BY <1>3, <1>4
<1>6. m = 0 => 8192 * (m * p) = 0
  BY <1>1
<1>7. e >= f
  OBVIOUS
<1>8. SameNumber(m, e, 8192 * (m * p), f)
  BY <1>1, <1>2, <1>3, <1>5, <1>6, <1>7 DEF SameNumber
<1> QED
  BY <1>8 DEF p, Scaled

(* The shifting mantissa is the pattern's, times the power of two of the      *)
(* shifts so far, and has eleven bits at most: it has its leading bit after   *)
(* ten shifts, which keeps the exponent of the result positive.               *)
HalfInv ==
    /\ bits \in U16
    /\ half \in {"start", "shift", "done"}
    /\ half = "start" => shift = 0
    /\ half = "shift" =>
          /\ Exponent = 0 /\ Mantissa # 0
          /\ shift \in 0 .. 10
          /\ mantissa = Mantissa * Power(shift)
          /\ mantissa \in 1 .. 2047
    /\ HalfIsExact

LEMMA HalfInitInv == HalfInit => HalfInv
  BY DEF HalfInit, HalfInv, HalfIsExact

LEMMA SubnormalInv ==
    ASSUME HalfInv, Subnormal
    PROVE  HalfInv'
<1>1. /\ Exponent' = Exponent /\ Mantissa' = Mantissa /\ bits' = bits
      /\ Exponent = 0 /\ Mantissa # 0 /\ Mantissa \in 0 .. 1023
      /\ half' = "shift" /\ mantissa' = Mantissa /\ shift' = 0
  BY Fields DEF Subnormal, Exponent, Mantissa, HalfInv
<1>2. Power(0) = 1
  BY ShiftPowers
<1> QED
  BY <1>1, <1>2 DEF HalfInv, HalfIsExact

(* A mantissa without the leading bit is below 2^10, so that was no more than *)
(* the ninth shift.                                                           *)
LEMMA ShiftLeftInv ==
    ASSUME HalfInv, ShiftLeft
    PROVE  HalfInv'
<1>0. /\ Exponent' = Exponent /\ Mantissa' = Mantissa /\ bits' = bits
      /\ half' = "shift" /\ mantissa' = 2 * mantissa /\ shift' = shift + 1
  BY DEF ShiftLeft, Exponent, Mantissa
<1>1. /\ Exponent = 0 /\ Mantissa # 0 /\ Mantissa \in 0 .. 1023
      /\ mantissa = Mantissa * Power(shift) /\ mantissa \in 1 .. 2047 /\ shift \in 0 .. 10
  <2>1. Mantissa \in 0 .. 1023
    BY Fields DEF HalfInv
  <2> QED
    BY <2>1, SMT DEF ShiftLeft, HalfInv
<1>2. mantissa < 1024
  <2>1. (mantissa \div 1024) % 2 # 1
    BY Powers DEF ShiftLeft, LeadingBit
  <2> QED
    BY <1>1, <2>1
<1>3. shift # 10
  <2>1. \A m \in 0 .. 1023 : m # 0 => m * 1024 >= 1024
    OBVIOUS
  <2> SUFFICES ASSUME shift = 10 PROVE FALSE
    OBVIOUS
  <2>2. Power(shift) = 1024
    BY ShiftPowers
  <2>3. mantissa = Mantissa * 1024
    BY <1>1, <2>2
  <2>4. Mantissa * 1024 >= 1024
    BY <1>1, <2>1
  <2> QED
    BY <1>2, <2>3, <2>4
<1>4. mantissa' = Mantissa * Power(shift + 1)
  <2>1. Power(shift + 1) = 2 * Power(shift) /\ Power(shift) \in Nat
    BY <1>1, <1>3, ShiftPowers
  <2>2. \A m, p \in Nat : 2 * (m * p) = m * (2 * p)
    OBVIOUS
  <2> QED
    BY <1>0, <1>1, <2>1, <2>2
<1>5. shift' \in 0 .. 10 /\ mantissa' \in 1 .. 2047
  BY <1>0, <1>1, <1>2, <1>3
<1>6. mantissa' = Mantissa' * Power(shift')
  BY <1>0, <1>4
<1> QED
  BY <1>0, <1>1, <1>5, <1>6, SMT DEF HalfInv, HalfIsExact

(* The number a pattern stands for is number * 2^e, and the one that is put   *)
(* together from exponent and m is n * 2^f.                                   *)
OfPattern(number, e) ==
    /\ Exponent = 31 => number = Mantissa /\ e = 13
    /\ Exponent = 0 => number = Mantissa /\ e = -24
    /\ Exponent \in 1 .. 30 => number = 1024 + Mantissa /\ e = Exponent - 25

OfFloat(exponent, m, n, f) ==
    /\ exponent \in 0 .. 255 /\ m \in 0 .. 1023
    /\ exponent = 255 => n = 8192 * m /\ f = 0
    /\ exponent = 0 => n = 8192 * m /\ f = -149
    /\ exponent \in 1 .. 254 => n = 8388608 + 8192 * m /\ f = exponent - 150

(* What a return has to show.                                                 *)
LEMMA ReturnInv ==
    ASSUME HalfInv, NEW exponent, NEW m, HalfReturn(Float32(exponent, m)),
           Exponent = 31 <=> exponent = 255,
           NEW number, NEW e, OfPattern(number, e),
           NEW n, NEW f, OfFloat(exponent, m, n, f),
           SameNumber(number, e, n, f)
    PROVE  HalfInv'
<1> USE DEF OfPattern, OfFloat
<1>1. /\ Exponent' = Exponent /\ Mantissa' = Mantissa /\ Sign' = Sign /\ bits' = bits
      /\ half' = "done" /\ single' = Float32(exponent, m)
  BY DEF HalfReturn, Exponent, Mantissa, Sign
<1>2. /\ single'.sign = Sign
      /\ single'.magnitude = exponent * 8388608 + m * 8192
  BY <1>1, Powers, SMT DEF Float32
<1>3. /\ single'.magnitude \div 8388608 = exponent
      /\ single'.magnitude % 8388608 = 8192 * m
  BY <1>2, SMT
<1>4. HalfIsExact'
  <2>1. Exponent \in 0 .. 31 /\ 2^23 = 8388608 /\ 2^10 = 1024
    BY Fields, Powers DEF HalfInv
  <2> QED
    BY <1>1, <1>2, <1>3, <2>1, SMT DEF HalfIsExact
<1> QED
  BY <1>1, <1>4, SMT DEF HalfInv

LEMMA ZeroInv ==
    ASSUME HalfInv, Zero
    PROVE  HalfInv'
<1> DEFINE e == -24
           f == -149
<1>1. Exponent = 0 /\ Mantissa = 0 /\ HalfReturn(Float32(0, 0))
  BY DEF Zero
<1>2. SameNumber(0, e, 0, f)
  BY DEF SameNumber
<1>3. OfPattern(0, e) /\ OfFloat(0, 0, 0, f)
  BY <1>1, SMT DEF OfPattern, OfFloat
<1>4. Exponent # 31 /\ 0 # 255
  BY <1>1, SMT
<1> HIDE DEF e, f
<1> QED
  BY <1>1, <1>2, <1>3, <1>4, ReturnInv, SMT

LEMMA NormalInv ==
    ASSUME HalfInv, Normal
    PROVE  HalfInv'
<1> DEFINE exponent == Exponent - 15 + 127
           number == 1024 + Mantissa
           e == Exponent - 25
           n == Scaled(number, 0)
           f == exponent - 150
<1>1. Exponent \in 1 .. 30 /\ Mantissa \in 0 .. 1023 /\ HalfReturn(Float32(exponent, Mantissa))
  BY Fields DEF Normal, HalfInv
<1>2. exponent \in 113 .. 142 /\ number \in Nat /\ Exponent # 31 /\ exponent # 255
  BY <1>1
<1>3. Apart(e, f, 0)
  BY <1>1 DEF Apart
<1>4. n = 8388608 + 8192 * Mantissa
  BY <1>1, ShiftPowers, SMT DEF Scaled
<1>5. OfPattern(number, e) /\ OfFloat(exponent, Mantissa, n, f)
  BY <1>1, <1>2, <1>4, SMT DEF OfPattern, OfFloat
<1>6. SameNumber(number, e, n, f)
  BY <1>2, <1>3, Shifted, SMT
<1> HIDE DEF exponent, number, e, n, f
<1> QED
  BY <1>1, <1>2, <1>5, <1>6, ReturnInv, SMT

LEMMA InfinityOrNaNInv ==
    ASSUME HalfInv, InfinityOrNaN
    PROVE  HalfInv'
<1> DEFINE n == Scaled(Mantissa, 0)
<1>1. Exponent = 31 /\ Mantissa \in 0 .. 1023 /\ HalfReturn(Float32(255, Mantissa))
  BY Fields DEF InfinityOrNaN, HalfInv
<1>2. Apart(13, 0, 0)
  BY DEF Apart
<1>3. n = 8192 * Mantissa
  BY <1>1, ShiftPowers, SMT DEF Scaled
<1>4. OfPattern(Mantissa, 13) /\ OfFloat(255, Mantissa, n, 0)
  BY <1>1, <1>3, SMT DEF OfPattern, OfFloat
<1>5. SameNumber(Mantissa, 13, n, 0)
  BY <1>1, <1>2, Shifted, SMT
<1> HIDE DEF n
<1> QED
  BY <1>1, <1>4, <1>5, ReturnInv, SMT

(* The renormalized number has exponent 113 - shift and the shifted mantissa  *)
(* without its leading bit.                                                   *)
LEMMA RenormalizedInv ==
    ASSUME HalfInv, Renormalized
    PROVE  HalfInv'
<1> DEFINE exponent == 127 - 15 - shift + 1
           m == mantissa % 1024
           e == -24
           n == Scaled(Mantissa, shift)
           f == exponent - 150
<1>1. /\ Exponent = 0 /\ Mantissa \in 0 .. 1023 /\ shift \in 0 .. 10
      /\ mantissa = Mantissa * Power(shift) /\ mantissa \in 1 .. 2047
  <2>1. Mantissa \in 0 .. 1023
    BY Fields DEF HalfInv
  <2> QED
    BY <2>1, SMT DEF Renormalized, HalfInv
<1>2. HalfReturn(Float32(exponent, m)) /\ (mantissa \div 1024) % 2 = 1
  BY Powers DEF Renormalized, LeadingBit
<1>3. m \in 0 .. 1023 /\ mantissa = 1024 + m
  BY <1>1, <1>2
<1>4. exponent \in 103 .. 113 /\ Apart(e, f, shift) /\ Exponent # 31 /\ exponent # 255
  BY <1>1 DEF Apart
<1>5. n = 8388608 + 8192 * m
  BY <1>1, <1>3, SMT DEF Scaled
<1>6. OfPattern(Mantissa, e) /\ OfFloat(exponent, m, n, f)
  <2>1. OfPattern(Mantissa, e)
    BY <1>1, SMT DEF OfPattern
  <2>2. f = exponent - 150
    OBVIOUS
  <2> HIDE DEF exponent, m, n, f
  <2>3. OfFloat(exponent, m, n, f)
    BY <1>3, <1>4, <1>5, <2>2, SMT DEF OfFloat
  <2> QED
    BY <2>1, <2>3
<1>7. SameNumber(Mantissa, e, n, f)
  <2> HIDE DEF e, f
  <2>1. Mantissa \in Nat /\ shift \in 0 .. 10
    BY <1>1
  <2> QED
    BY <2>1, <1>4, Shifted, SMT
<1> HIDE DEF exponent, m, e, n, f
<1> QED
  BY <1>2, <1>4, <1>6, <1>7, ReturnInv, SMT

(* The conversion is exact for every pattern, subnormals, infinities and NaNs *)
(* included: f16_to_f32, dequantize.rs:40.                                    *)
THEOREM HalfExact == HalfSpec => []HalfIsExact
<1>1. HalfInit => HalfInv
  BY HalfInitInv
<1>2. HalfInv /\ [HalfNext]_halfVars => HalfInv'
  <2> SUFFICES ASSUME HalfInv, [HalfNext]_halfVars
               PROVE  HalfInv'
    OBVIOUS
  <2>1. CASE Zero  BY <2>1, ZeroInv
  <2>2. CASE Subnormal  BY <2>2, SubnormalInv
  <2>3. CASE ShiftLeft  BY <2>3, ShiftLeftInv
  <2>4. CASE Renormalized  BY <2>4, RenormalizedInv
  <2>5. CASE InfinityOrNaN  BY <2>5, InfinityOrNaNInv
  <2>6. CASE Normal  BY <2>6, NormalInv
  <2>7. CASE UNCHANGED halfVars
    BY <2>7, SMT DEF halfVars, HalfInv, HalfIsExact, Exponent, Mantissa, Sign
  <2> QED
    BY <2>1, <2>2, <2>3, <2>4, <2>5, <2>6, <2>7 DEF HalfNext
<1>3. HalfInv => HalfIsExact
  BY DEF HalfInv
<1> QED
  BY <1>1, <1>2, <1>3, PTL DEF HalfSpec

-----------------------------------------------------------------------------
(* Bit k of a mask.                                                           *)
Bit(mask, k) == (mask \div 2^k) % 2 = 1

(* The masks of the code, bit by bit: 15 and 63 keep what is low, and the     *)
(* eight that select a bit of qh keep one.                                    *)
LEMMA MaskBits ==
    ASSUME NEW k \in 0 .. 7
    PROVE  /\ Bit(15, k) <=> k < 4
           /\ Bit(63, k) <=> k < 6
           /\ Bit(1, k) <=> k = 0
           /\ Bit(2, k) <=> k = 1
           /\ Bit(4, k) <=> k = 2
           /\ Bit(8, k) <=> k = 3
           /\ Bit(16, k) <=> k = 4
           /\ Bit(32, k) <=> k = 5
           /\ Bit(64, k) <=> k = 6
           /\ Bit(128, k) <=> k = 7
<1>1. k \in {0, 1, 2, 3, 4, 5, 6, 7}
  OBVIOUS
<1>2. CASE k = 0  BY <1>2, SMT DEF Bit
<1>3. CASE k = 1  BY <1>3, SMT DEF Bit
<1>4. CASE k = 2  BY <1>4, SMT DEF Bit
<1>5. CASE k = 3  BY <1>5, SMT DEF Bit
<1>6. CASE k = 4  BY <1>6, SMT DEF Bit
<1>7. CASE k = 5  BY <1>7, SMT DEF Bit
<1>8. CASE k = 6  BY <1>8, SMT DEF Bit
<1>9. CASE k = 7  BY <1>9, SMT DEF Bit
<1> QED
  BY <1>1, <1>2, <1>3, <1>4, <1>5, <1>6, <1>7, <1>8, <1>9, SMT

(* A bit of the buffer by itself, and no bit. The lemmas say what is in bit k *)
(* of the results of the operations in these words.                           *)
One(p, k) == {<<p, k>>}
NoBit == {}

LEMMA RawBit ==
    ASSUME NEW p, NEW k \in 0 .. 7
    PROVE  RawByte(p)[k] = One(p, k)
  BY DEF RawByte, One

LEMMA AndBit ==
    ASSUME NEW w, NEW mask, NEW k \in 0 .. 7
    PROVE  /\ Bit(mask, k) => And(w, mask)[k] = w[k]
           /\ ~Bit(mask, k) => And(w, mask)[k] = NoBit
  BY DEF And, Bit, NoBit

LEMMA RightBit ==
    ASSUME NEW w, NEW n, NEW k \in 0 .. 7
    PROVE  /\ k + n < 8 => ShiftedRight(w, n)[k] = w[k + n]
           /\ ~(k + n < 8) => ShiftedRight(w, n)[k] = NoBit
  BY DEF ShiftedRight, NoBit

LEMMA LeftBit ==
    ASSUME NEW w, NEW n, NEW k \in 0 .. 7
    PROVE  /\ k >= n => ShiftedLeft(w, n)[k] = w[k - n]
           /\ ~(k >= n) => ShiftedLeft(w, n)[k] = NoBit
  BY DEF ShiftedLeft, NoBit

LEMMA OrBit ==
    ASSUME NEW v, NEW w, NEW k \in 0 .. 7
    PROVE  /\ w[k] = NoBit => Or(v, w)[k] = v[k]
           /\ v[k] = NoBit => Or(v, w)[k] = w[k]
  BY DEF Or, NoBit

(* The two top bits of x on top of the four low bits of v, and no more.       *)
LEMMA PackedBit ==
    ASSUME NEW v, NEW x, NEW k \in 0 .. 7, k >= 4 => v[k] = NoBit
    PROVE  LET packed == Or(v, ShiftedLeft(ShiftedRight(x, 6), 4))
           IN  /\ k < 4 => packed[k] = v[k]
               /\ k \in 4 .. 5 => packed[k] = x[k + 2]
               /\ k \in 6 .. 7 => packed[k] = NoBit
<1> DEFINE r == ShiftedRight(x, 6)
           w == ShiftedLeft(r, 4)
<1>1. CASE k < 4
  <2>1. w[k] = NoBit
    BY <1>1, LeftBit
  <2> QED
    BY <1>1, <2>1, OrBit
<1>2. CASE k >= 4
  <2>1. w[k] = r[k - 4]
    BY <1>2, LeftBit
  <2>2. k - 4 \in 0 .. 7 /\ (k - 4) + 6 = k + 2
    BY <1>2
  <2>3. /\ k \in 4 .. 5 => r[k - 4] = x[(k - 4) + 6]
        /\ k \in 6 .. 7 => r[k - 4] = NoBit
    BY <2>2, RightBit
  <2>4. Or(v, w)[k] = w[k]
    BY <1>2, OrBit
  <2> HIDE DEF w, r
  <2>5. k \in 4 .. 5 => Or(v, w)[k] = x[k + 2]
    BY <2>1, <2>2, <2>3, <2>4
  <2>6. k \in 6 .. 7 => Or(v, w)[k] = NoBit
    BY <2>1, <2>3, <2>4
  <2> QED
    BY <1>2, <2>5, <2>6 DEF w, r
<1> QED
  BY <1>1, <1>2

LEMMA LowBits ==
    ASSUME NEW p, NEW k \in 0 .. 7
    PROVE  /\ k < 6 => And(RawByte(p), 63)[k] = One(p, k)
           /\ ~(k < 6) => And(RawByte(p), 63)[k] = NoBit
           /\ k < 4 => And(RawByte(p), 15)[k] = One(p, k)
           /\ ~(k < 4) => And(RawByte(p), 15)[k] = NoBit
           /\ k < 4 => ShiftedRight(RawByte(p), 4)[k] = One(p, k + 4)
           /\ ~(k < 4) => ShiftedRight(RawByte(p), 4)[k] = NoBit
<1>1. /\ k < 6 => And(RawByte(p), 63)[k] = One(p, k)
      /\ ~(k < 6) => And(RawByte(p), 63)[k] = NoBit
  BY RawBit, AndBit, MaskBits
<1>2. /\ k < 4 => And(RawByte(p), 15)[k] = One(p, k)
      /\ ~(k < 4) => And(RawByte(p), 15)[k] = NoBit
  BY RawBit, AndBit, MaskBits
<1>3. k < 4 => ShiftedRight(RawByte(p), 4)[k] = RawByte(p)[k + 4] /\ k + 4 \in 0 .. 7
  BY RightBit
<1>4. ~(k < 4) => ShiftedRight(RawByte(p), 4)[k] = NoBit
  BY RightBit
<1> QED
  BY <1>1, <1>2, <1>3, <1>4, RawBit

(* The packed factors, bit by bit: get_scale_min_k4 unpacks the format.       *)
LEMMA ScaleMinBits ==
    ASSUME NEW j \in 0 .. 7, NEW k \in 0 .. 7, Scales \in Nat
    PROVE  LET by == get_scale_min_k4(j)
           IN  /\ k < 6 => /\ by.scale[k] = ScaleBit(Scales, j, k)
                           /\ by.min[k] = MinBit(Scales, j, k)
               /\ ~(k < 6) => by.scale[k] = NoBit /\ by.min[k] = NoBit
<1> DEFINE scales(x) == RawByte(Scales + x)
           by == get_scale_min_k4(j)
<1>1. CASE j < 4
  <2>1. by.scale = And(scales(j), 63) /\ by.min = And(scales(j + 4), 63)
    BY <1>1 DEF get_scale_min_k4
  <2>2. k < 6 => /\ by.scale[k] = One(Scales + j, k)
                 /\ by.min[k] = One(Scales + (j + 4), k)
    BY <2>1, LowBits
  <2>3. ~(k < 6) => by.scale[k] = NoBit /\ by.min[k] = NoBit
    BY <2>1, LowBits
  <2>4. /\ ScaleBit(Scales, j, k) = One(Scales + j, k)
        /\ MinBit(Scales, j, k) = One(Scales + (j + 4), k)
    BY <1>1 DEF ScaleBit, MinBit, One
  <2> HIDE DEF by
  <2> QED
    BY <2>2, <2>3, <2>4 DEF by
<1>2. CASE j >= 4
  <2> DEFINE low == And(scales(j + 4), 15)
             high == ShiftedRight(scales(j + 4), 4)
  <2>1. /\ by.scale = Or(low, ShiftedLeft(ShiftedRight(scales(j - 4), 6), 4))
        /\ by.min = Or(high, ShiftedLeft(ShiftedRight(scales(j), 6), 4))
    BY <1>2 DEF get_scale_min_k4
  <2>2. /\ k < 4 => low[k] = One(Scales + (j + 4), k) /\ high[k] = One(Scales + (j + 4), k + 4)
        /\ ~(k < 4) => low[k] = NoBit /\ high[k] = NoBit
    BY LowBits
  <2>3. k < 6 => /\ scales(j - 4)[k + 2] = One(Scales + (j - 4), k + 2)
                 /\ scales(j)[k + 2] = One(Scales + j, k + 2)
    BY RawBit
  <2> HIDE DEF low, high, scales, by
  <2>4. /\ k < 4 => by.scale[k] = low[k]
        /\ k \in 4 .. 5 => by.scale[k] = scales(j - 4)[k + 2]
        /\ k \in 6 .. 7 => by.scale[k] = NoBit
    BY <2>1, <2>2, PackedBit
  <2>5. /\ k < 4 => by.min[k] = high[k]
        /\ k \in 4 .. 5 => by.min[k] = scales(j)[k + 2]
        /\ k \in 6 .. 7 => by.min[k] = NoBit
    BY <2>1, <2>2, PackedBit
  <2>6. CASE k < 4
    <3>1. /\ ScaleBit(Scales, j, k) = One(Scales + (j + 4), k)
          /\ MinBit(Scales, j, k) = One(Scales + (j + 4), k + 4)
      BY <1>2, <2>6 DEF ScaleBit, MinBit, One
    <3> QED
      BY <2>2, <2>4, <2>5, <2>6, <3>1 DEF by
  <2>7. CASE k \in 4 .. 5
    <3>1. /\ ScaleBit(Scales, j, k) = One(Scales + (j - 4), k + 2)
          /\ MinBit(Scales, j, k) = One(Scales + j, k + 2)
      BY <1>2, <2>7 DEF ScaleBit, MinBit, One
    <3> QED
      BY <2>3, <2>4, <2>5, <2>7, <3>1 DEF by
  <2>8. CASE k \in 6 .. 7
    BY <2>4, <2>5, <2>8 DEF by
  <2> QED
    BY <2>6, <2>7, <2>8
<1> QED
  BY <1>1, <1>2

(* The mask of a trip has one bit, that of its sub-block.                     *)
OnlyBit(mask, sub) == \A x \in 0 .. 7 : Bit(mask, x) <=> x = sub

(* A nibble with the bit of qh that the mask selects on top of it.            *)
LEMMA HighBit ==
    ASSUME NEW nibble, NEW p, NEW mask, NEW j \in 0 .. 7,
           OnlyBit(mask, j), NEW k \in 0 .. 7, k >= 4 => nibble[k] = NoBit
    PROVE  LET value == Or(nibble, IfAnySixteen(And(RawByte(p), mask)))
           IN  /\ k < 4 => value[k] = nibble[k]
               /\ k = 4 => value[k] = One(p, j)
               /\ k > 4 => value[k] = NoBit
<1> DEFINE w == And(RawByte(p), mask)
           six == IfAnySixteen(w)
<1>1. w[j] = One(p, j) /\ \A x \in 0 .. 7 : x # j => w[x] = NoBit
  BY AndBit, RawBit DEF OnlyBit
<1> HIDE DEF w
<1>2. UNION {w[x] : x \in 0 .. 7} = w[j]
  BY <1>1 DEF NoBit
<1>3. k = 4 => six[k] = One(p, j)
  BY <1>1, <1>2 DEF IfAnySixteen
<1>4. k # 4 => six[k] = NoBit
  BY DEF IfAnySixteen, NoBit
<1> HIDE DEF six
<1>5. k # 4 => Or(nibble, six)[k] = nibble[k]
  BY <1>4, OrBit
<1>6. k = 4 => Or(nibble, six)[k] = One(p, j)
  BY <1>3, OrBit
<1> QED
  BY <1>5, <1>6 DEF six, w

-----------------------------------------------------------------------------
Whole == length \div BlockBytesOf[kind]

LEMMA Sizes ==
    ASSUME kind \in Kinds
    PROVE  /\ kind = "Q8" => BlockBytesOf[kind] = 34 /\ ElementsOf(kind) = 32
           /\ kind = "Q4K" => BlockBytesOf[kind] = 144 /\ ElementsOf(kind) = 256
           /\ kind = "Q5K" => BlockBytesOf[kind] = 176 /\ ElementsOf(kind) = 256
           /\ kind \in {"Q8", "Q4K", "Q5K"}
  BY DEF Kinds, BlockBytesOf, ElementsOf, Q8_0_BLOCK_ELEMENTS, QK_BLOCK_ELEMENTS

(* Loop variable, sub-block and masks go together: the masks select the bit   *)
(* of qh that belongs to the sub-block, and overflow to zero with the last.   *)
Counted ==
    \/ chunk_start = 0 /\ is = 0 /\ u1 = 1 /\ u2 = 2
    \/ chunk_start = 64 /\ is = 2 /\ u1 = 4 /\ u2 = 8
    \/ chunk_start = 128 /\ is = 4 /\ u1 = 16 /\ u2 = 32
    \/ chunk_start = 192 /\ is = 6 /\ u1 = 64 /\ u2 = 128
    \/ chunk_start = 256 /\ is = 8 /\ u1 = 0 /\ u2 = 0

(* The values so far are those of the blocks before this one and of the       *)
(* chunks of this one that are done, each as the format has it.               *)
Filled ==
    /\ \E S : out \in Seq(S)
    /\ Len(out) = block * ElementsOf(kind) + chunk_start
    /\ \A n \in 1 .. Len(out) :
          OfFormat(out[n], (n - 1) \div ElementsOf(kind), (n - 1) % ElementsOf(kind))

DequantizeInv ==
    /\ call \in {"running", "returned"}
    /\ kind \in Kinds /\ length \in Nat /\ block \in 0 .. Whole
    /\ Counted
    /\ kind = "Q8" \/ block = Whole => chunk_start = 0
    /\ call = "returned" => block = Whole
    /\ Filled

LEMMA DequantizeInitInv == DequantizeInit => DequantizeInv
<1> SUFFICES ASSUME DequantizeInit PROVE DequantizeInv
  OBVIOUS
<1>1. kind \in Kinds /\ length \in Nat
  BY RawLengthsAssumption DEF DequantizeInit
<1>2. Whole \in Nat /\ ElementsOf(kind) \in Nat
  BY <1>1, Sizes DEF Whole
<1>3. out = <<>> /\ block = 0 /\ chunk_start = 0
  BY DEF DequantizeInit
<1>4. Filled
  BY <1>2, <1>3 DEF Filled
<1> QED
  BY <1>1, <1>2, <1>3, <1>4 DEF DequantizeInit, DequantizeInv, Counted

LEMMA Masks ==
    ASSUME Counted, chunk_start < 256
    PROVE  /\ is \in 0 .. 6 /\ is + 1 \in 1 .. 7
           /\ chunk_start = 32 * is /\ is % 2 = 0
           /\ \A x \in 0 .. 7 : Bit(u1, x) <=> x = is
           /\ \A x \in 0 .. 7 : Bit(u2, x) <=> x = is + 1
  BY MaskBits DEF Counted

(* Where the fields of a block of a K format are, as the format counts them.  *)
LEMMA Places ==
    ASSUME DequantizeInv, kind # "Q8"
    PROVE  /\ block \in Nat /\ Base \in Nat /\ Base = block * BlockBytesOf[kind]
           /\ Scales = Base + 4 /\ Scales \in Nat /\ High = Base + 16
           /\ Quants = Base + BlockBytesOf[kind] - 128 /\ Quants \in Nat
<1>1. block \in Nat
  BY Sizes DEF DequantizeInv, Whole
<1>2. BlockBytesOf[kind] \in {144, 176} /\ (kind = "Q5K" <=> BlockBytesOf[kind] = 176)
  BY Sizes DEF DequantizeInv
<1>3. Base = block * BlockBytesOf[kind] /\ Base \in Nat
  <2>1. Base = block * BlockBytesOf[kind]
    BY DEF Base
  <2>2. block * 144 \in Nat /\ block * 176 \in Nat
    BY <1>1
  <2>3. CASE BlockBytesOf[kind] = 144
    BY <2>1, <2>2, <2>3
  <2>4. CASE BlockBytesOf[kind] = 176
    BY <2>1, <2>2, <2>4
  <2> QED
    BY <1>2, <2>3, <2>4
<1> QED
  BY <1>1, <1>2, <1>3, Sizes DEF DequantizeInv, Scales, High, Quants, K_SCALE_SIZE

(* Element i of the half part of a trip: four bits of the byte it shares with *)
(* the other half.                                                            *)
NibbleOf(nibble, i, part) ==
    \A k \in 0 .. 7 :
       /\ k < 4 => nibble[k] = One(Quants + chunk_start \div 2 + i - 1, k + 4 * part)
       /\ k >= 4 => nibble[k] = NoBit

(* Element i of an extend is element i of sub-block is + part of the block:   *)
(* nibble 0 or 1 of its byte, and bit is + part of its byte of qh.            *)
LEMMA ExtendedElement ==
    ASSUME DequantizeInv, InChunk, NEW part \in 0 .. 1, NEW sub, sub = is + part,
           NEW nibbles, NEW mask, NEW i \in 1 .. 32, NEW e, e = chunk_start + 32 * part + i - 1,
           OnlyBit(mask, sub), NibbleOf(nibbles[i], i, part)
    PROVE  OfFormat(Extended(sub, nibbles, mask)[i], block, e)
<1> DEFINE v == Extended(sub, nibbles, mask)[i]
           j == e \div 32
           q == Base + BlockBytesOf[kind] - 128
<1>1. /\ kind \in {"Q4K", "Q5K"} /\ Counted /\ chunk_start < 256
  BY Sizes DEF DequantizeInv, InChunk, QK_BLOCK_ELEMENTS
<1>2. /\ part \in 0 .. 1 /\ sub = is + part
      /\ j = is + part /\ j \in 0 .. 7 /\ e % 32 = i - 1 /\ j % 2 = part
      /\ 32 * (e \div 64) = chunk_start \div 2
  <2>1. is + part \in 0 .. 7 /\ e = 32 * (is + part) + (i - 1)
    BY <1>1, Masks
  <2>2. j = is + part /\ j \in 0 .. 7 /\ e % 32 = i - 1
    BY <2>1
  <2> HIDE DEF j
  <2>3. part = 0 \/ part = 1
    OBVIOUS
  <2>4. j % 2 = part
    BY <1>1, <2>2, <2>3 DEF Counted
  <2>5. 64 * (e \div 64) = chunk_start
    BY <1>1, <2>1, <2>3 DEF Counted
  <2>6. e \in Nat /\ chunk_start \in Nat
    <3>1. chunk_start \in Nat
      BY <1>1 DEF Counted
    <3>2. e \in Nat
      BY <2>1
    <3> QED
      BY <3>1, <3>2
  <2>7. 32 * (e \div 64) = chunk_start \div 2
    BY <2>5, <2>6
  <2> QED
    BY <2>2, <2>4, <2>7
<1>3. /\ v.d = <<Base, Base + 1>> /\ v.dmin = <<Base + 2, Base + 3>>
      /\ v.by = get_scale_min_k4(sub)
      /\ kind = "Q4K" => v.quant = nibbles[i]
      /\ kind = "Q5K" =>
           v.quant = Or(nibbles[i], IfAnySixteen(And(RawByte(High + i - 1), mask)))
  BY <1>1 DEF Extended
<1> HIDE DEF v
<1>4. /\ Base = block * BlockBytesOf[kind] /\ Scales = Base + 4 /\ Scales \in Nat
      /\ High = Base + 16 /\ Quants = q /\ Base \in Nat /\ Quants \in Nat
  BY <1>1, Places
<1>5. ASSUME NEW k \in 0 .. 7
      PROVE  /\ v.by.scale[k] = IF k < 6 THEN ScaleBit(Base + 4, j, k) ELSE {}
             /\ v.by.min[k] = IF k < 6 THEN MinBit(Base + 4, j, k) ELSE {}
  <2> HIDE DEF j
  <2>0. v.by = get_scale_min_k4(j)
    BY <1>2, <1>3
  <2>1. /\ k < 6 => /\ v.by.scale[k] = ScaleBit(Scales, j, k)
                    /\ v.by.min[k] = MinBit(Scales, j, k)
        /\ ~(k < 6) => v.by.scale[k] = NoBit /\ v.by.min[k] = NoBit
    BY <1>2, <1>4, <2>0, ScaleMinBits
  <2> QED
    BY <1>4, <2>1 DEF NoBit
<1>6. ASSUME NEW k \in 0 .. 7
      PROVE  v.quant[k] = IF k < 4 \/ (k = 4 /\ kind = "Q5K")
                          THEN QuantBit(q, Base + 16, e, k) ELSE {}
  <2> HIDE DEF j, q
  <2>0. LET value == Or(nibbles[i], IfAnySixteen(And(RawByte(High + i - 1), mask)))
        IN  /\ k < 4 => value[k] = nibbles[i][k]
            /\ k = 4 => value[k] = One(High + i - 1, sub)
            /\ k > 4 => value[k] = NoBit
    <3>1. k >= 4 => nibbles[i][k] = NoBit
      BY DEF NibbleOf
    <3>2. sub \in 0 .. 7
      BY <1>2
    <3> QED
      BY <3>1, <3>2, HighBit
  <2>1. CASE k < 4
    <3>1. nibbles[i][k] = One(Quants + chunk_start \div 2 + i - 1, k + 4 * part)
      BY <2>1 DEF NibbleOf
    <3>2. v.quant[k] = nibbles[i][k]
      BY <1>1, <1>3, <2>0, <2>1
    <3>3. QuantBit(q, Base + 16, e, k) =
            One(q + 32 * (e \div 64) + (e % 32), k + 4 * ((e \div 32) % 2))
      BY <2>1 DEF QuantBit, One
    <3>4. /\ q + 32 * (e \div 64) + (e % 32) = Quants + chunk_start \div 2 + i - 1
          /\ (e \div 32) % 2 = part
      BY <1>1, <1>2, <1>4 DEF j, Counted
    <3> QED
      BY <2>1, <3>1, <3>2, <3>3, <3>4
  <2>2. CASE k = 4 /\ kind = "Q5K"
    <3>1. v.quant[k] = One(High + i - 1, is + part)
      BY <1>1, <1>2, <1>3, <2>0, <2>2
    <3>2. QuantBit(q, Base + 16, e, k) = One(Base + 16 + (e % 32), e \div 32)
      BY <2>2 DEF QuantBit, One
    <3> QED
      BY <1>2, <1>4, <2>2, <3>1, <3>2 DEF j
  <2>3. CASE k >= 4 /\ ~(k = 4 /\ kind = "Q5K")
    <3>1. nibbles[i][k] = NoBit
      BY <2>3 DEF NibbleOf
    <3>2. v.quant[k] = NoBit
      BY <1>1, <1>3, <2>0, <2>3, <3>1
    <3> QED
      BY <2>3, <3>2 DEF NoBit
  <2> QED
    BY <2>1, <2>2, <2>3
<1> QED
  BY <1>1, <1>3, <1>4, <1>5, <1>6 DEF OfFormat, v

LEMMA FormatKept ==
    ASSUME UNCHANGED kind
    PROVE  \A v, b, e : OfFormat(v, b, e)' <=> OfFormat(v, b, e)
  BY DEF OfFormat

LEMMA Place ==
    ASSUME NEW b \in Nat, NEW E \in {32, 256}, NEW r \in 0 .. E - 1
    PROVE  (b * E + r) \div E = b /\ (b * E + r) % E = r
<1>1. CASE E = 32
  <2>1. (b * 32 + r) \div 32 = b /\ (b * 32 + r) % 32 = r
    BY <1>1
  <2> QED
    BY <1>1, <2>1
<1>2. CASE E = 256
  <2>1. (b * 256 + r) \div 256 = b /\ (b * 256 + r) % 256 = r
    BY <1>2
  <2> QED
    BY <1>2, <2>1
<1> QED
  BY <1>1, <1>2

(* Values that are the next ones of the block may be put behind what is there. *)
LEMMA AppendFormat ==
    ASSUME DequantizeInv,
           NEW n \in Nat, n + chunk_start <= ElementsOf(kind),
           NEW S, NEW t \in Seq(S), Len(t) = n, out' = out \o t,
           \A i \in 1 .. n : OfFormat(t[i], block, chunk_start + i - 1)
    PROVE  /\ \E T : out' \in Seq(T)
           /\ Len(out') = block * ElementsOf(kind) + chunk_start + n
           /\ \A m \in 1 .. Len(out') :
                 OfFormat(out'[m], (m - 1) \div ElementsOf(kind), (m - 1) % ElementsOf(kind))
<1> DEFINE E == ElementsOf(kind)
<1>1. /\ block \in Nat /\ chunk_start \in Nat /\ E \in {32, 256}
      /\ Len(out) = block * E + chunk_start
  BY Sizes DEF DequantizeInv, Filled, Whole, Counted
<1>2. PICK R : out \in Seq(R)
  BY DEF DequantizeInv, Filled
<1>3. /\ out' \in Seq(R \cup S) /\ Len(out') = Len(out) + n /\ Len(out) \in Nat
      /\ \A m \in 1 .. Len(out') : out'[m] = IF m <= Len(out) THEN out[m] ELSE t[m - Len(out)]
  <2>1. out \in Seq(R \cup S) /\ t \in Seq(R \cup S)
    BY <1>2
  <2>2. Len(out) \in Nat
    BY <1>2
  <2> QED
    BY <2>1, <2>2, ConcatProperties
<1>4. ASSUME NEW m \in 1 .. Len(out')
      PROVE  OfFormat(out'[m], (m - 1) \div E, (m - 1) % E)
  <2>1. CASE m <= Len(out)
    BY <1>3, <2>1 DEF DequantizeInv, Filled
  <2>2. CASE m > Len(out)
    <3> DEFINE i == m - Len(out)
               r == chunk_start + i - 1
    <3>1. i \in 1 .. n /\ out'[m] = t[i]
      BY <1>3, <2>2
    <3>2. r \in 0 .. E - 1
      <4> HIDE DEF E, i
      <4>1. n + chunk_start <= E
        BY DEF E
      <4> QED
        BY <1>1, <3>1, <4>1
    <3>3. m - 1 = block * E + r
      <4> HIDE DEF E
      <4>1. block * E \in Nat
        BY <1>1
      <4> QED
        BY <1>1, <1>3, <4>1
    <3> HIDE DEF i, E, r
    <3>4. (m - 1) \div E = block /\ (m - 1) % E = r
      BY <1>1, <3>2, <3>3, Place
    <3>5. OfFormat(t[i], block, r)
      BY <3>1 DEF r
    <3> QED
      BY <3>1, <3>4, <3>5
  <2> QED
    BY <1>3, <2>1, <2>2
<1> QED
  <2>1. Len(out') = block * E + chunk_start + n
    <3> HIDE DEF E
    <3>1. block * E \in Nat
      BY <1>1
    <3> QED
      BY <1>1, <1>3, <3>1
  <2> QED
    BY <1>3, <1>4, <2>1

LEMMA Q8Inv ==
    ASSUME DequantizeInv, DequantizeQ8
    PROVE  DequantizeInv'
<1> DEFINE t == [i \in 1 .. 32 |-> [d |-> <<Base, Base + 1>>, quant |-> RawByte(Base + 1 + i)]]
           S == {t[i] : i \in 1 .. 32}
<1>1. /\ kind = "Q8" /\ chunk_start = 0 /\ ElementsOf(kind) = 32 /\ block \in Nat /\ Whole \in Nat
      /\ block < Whole /\ call = "running" /\ length \in Nat /\ kind \in Kinds
  BY Sizes DEF DequantizeInv, DequantizeQ8, InBlock, Whole
<1>2. /\ out' = out \o t /\ block' = block + 1
      /\ UNCHANGED <<call, kind, length, chunk_start, is, u1, u2>>
  BY DEF DequantizeQ8, Q8_0_BLOCK_ELEMENTS
<1>3. t \in Seq(S) /\ Len(t) = 32
  OBVIOUS
<1>4. ASSUME NEW i \in 1 .. 32
      PROVE  OfFormat(t[i], block, chunk_start + i - 1)
  <2>1. Base = block * BlockBytesOf[kind] /\ Base \in Nat
    <3>1. Base = block * 34
      BY <1>1, Sizes DEF Base
    <3> QED
      BY <1>1, <3>1 DEF Base
  <2>2. Base + 2 + (chunk_start + i - 1) = Base + 1 + i
    BY <1>1, <2>1
  <2> QED
    BY <1>1, <2>1, <2>2 DEF OfFormat
<1> HIDE DEF t, S
<1>5. /\ \E T : out' \in Seq(T)
      /\ Len(out') = block * ElementsOf(kind) + chunk_start + 32
      /\ \A m \in 1 .. Len(out') :
            OfFormat(out'[m], (m - 1) \div ElementsOf(kind), (m - 1) % ElementsOf(kind))
  <2>1. 32 + chunk_start <= ElementsOf(kind)
    BY <1>1
  <2> QED
    BY <1>2, <1>3, <1>4, <2>1, AppendFormat
<1>6. Filled'
  <2>1. Len(out') = block' * ElementsOf(kind') + chunk_start'
    BY <1>1, <1>2, <1>5
  <2> QED
    BY <1>2, <1>5, <2>1, FormatKept DEF Filled
<1> QED
  BY <1>1, <1>2, <1>6 DEF DequantizeInv, Whole, Counted

LEMMA ConcatTwice ==
    ASSUME NEW R, NEW s \in Seq(R), NEW S, NEW t \in Seq(S), NEW u \in Seq(S)
    PROVE  (s \o t) \o u = s \o (t \o u)
<1>1. s \in Seq(R \cup S) /\ t \in Seq(R \cup S) /\ u \in Seq(R \cup S)
  OBVIOUS
<1> QED
  BY <1>1, ConcatAssociative, SMT

(* A trip through the loop puts the low nibbles of its 32 bytes and then the  *)
(* high ones behind what is there, as two sub-blocks.                         *)
LEMMA ChunkInv ==
    ASSUME DequantizeInv, DequantizeChunk
    PROVE  DequantizeInv'
<1> DEFINE low == [i \in 1 .. 32 |-> And(ChunkByte(i), 15)]
           high == [i \in 1 .. 32 |-> ShiftedRight(ChunkByte(i), 4)]
           A == Extended(is, low, u1)
           B == Extended(is + 1, high, u2)
           S == {A[i] : i \in 1 .. 32} \cup {B[i] : i \in 1 .. 32}
           t == A \o B
<1>1. /\ InChunk /\ Counted /\ chunk_start < 256 /\ kind # "Q8" /\ ElementsOf(kind) = 256
      /\ block \in Nat /\ call = "running" /\ block < Whole
  BY Sizes DEF DequantizeInv, DequantizeChunk, InChunk, InBlock, QK_BLOCK_ELEMENTS, Whole
<1>2. /\ out' = (out \o A) \o B
      /\ chunk_start' = chunk_start + 64 /\ is' = is + 2
      /\ u1' = (u1 * 4) % 256 /\ u2' = (u2 * 4) % 256
      /\ UNCHANGED <<call, kind, length, block>>
  BY DEF DequantizeChunk
<1>3. /\ A \in Seq(S) /\ Len(A) = 32
      /\ B \in Seq(S) /\ Len(B) = 32
  BY DEF Extended
<1>4. /\ t \in Seq(S) /\ Len(t) = 64
      /\ \A i \in 1 .. 32 : t[i] = A[i]
      /\ \A i \in 33 .. 64 : t[i] = B[i - 32]
  <2> HIDE DEF A, B, S
  <2>1. /\ t \in Seq(S) /\ Len(t) = Len(A) + Len(B)
        /\ \A i \in 1 .. Len(A) + Len(B) : t[i] = IF i <= Len(A) THEN A[i] ELSE B[i - Len(A)]
    BY <1>3, ConcatProperties, Zenon
  <2> HIDE DEF t
  <2> QED
    BY <1>3, <2>1
<1>5. out' = out \o t
  <2>1. PICK R : out \in Seq(R)
    BY DEF DequantizeInv, Filled
  <2> HIDE DEF A, B, S
  <2>2. (out \o A) \o B = out \o (A \o B)
    BY <1>3, <2>1, ConcatTwice
  <2> QED
    BY <1>2, <2>2
<1>6. ASSUME NEW i \in 1 .. 32
      PROVE  /\ OfFormat(A[i], block, chunk_start + i - 1)
             /\ OfFormat(B[i], block, chunk_start + 32 + i - 1)
  <2>1. ChunkByte(i) = RawByte(Quants + chunk_start \div 2 + i - 1)
    BY DEF ChunkByte
  <2>2. ASSUME NEW k \in 0 .. 7
        PROVE  /\ k < 4 => /\ low[i][k] = One(Quants + chunk_start \div 2 + i - 1, k)
                           /\ high[i][k] = One(Quants + chunk_start \div 2 + i - 1, k + 4)
               /\ k >= 4 => low[i][k] = NoBit /\ high[i][k] = NoBit
    BY <2>1, LowBits
  <2> HIDE DEF low, high
  <2>3. ASSUME NEW sub, sub = is + 0, NEW e, e = chunk_start + 32 * 0 + i - 1
        PROVE  OfFormat(Extended(sub, low, u1)[i], block, e)
    <3>1. OnlyBit(u1, sub)
      BY <1>1, <2>3, Masks DEF OnlyBit
    <3>2. NibbleOf(low[i], i, 0)
      BY <2>2 DEF NibbleOf
    <3> QED
      BY <1>1, <2>3, <3>1, <3>2, ExtendedElement
  <2>4. ASSUME NEW sub, sub = is + 1, NEW e, e = chunk_start + 32 * 1 + i - 1
        PROVE  OfFormat(Extended(sub, high, u2)[i], block, e)
    <3>1. OnlyBit(u2, sub)
      BY <1>1, <2>4, Masks DEF OnlyBit
    <3>2. NibbleOf(high[i], i, 1)
      BY <2>2 DEF NibbleOf
    <3> QED
      BY <1>1, <2>4, <3>1, <3>2, ExtendedElement
  <2>5. /\ is = is + 0
        /\ chunk_start + i - 1 = chunk_start + 32 * 0 + i - 1
        /\ chunk_start + 32 + i - 1 = chunk_start + 32 * 1 + i - 1
    BY <1>1 DEF Counted
  <2>6. OfFormat(A[i], block, chunk_start + i - 1)
    BY <2>3, <2>5
  <2>7. OfFormat(B[i], block, chunk_start + 32 + i - 1)
    BY <2>4, <2>5
  <2> QED
    BY <2>6, <2>7
<1> HIDE DEF low, high, A, B, S, t
<1>7. /\ \E T : out' \in Seq(T)
      /\ Len(out') = block * ElementsOf(kind) + chunk_start + 64
      /\ \A m \in 1 .. Len(out') :
            OfFormat(out'[m], (m - 1) \div ElementsOf(kind), (m - 1) % ElementsOf(kind))
  <2>1. 64 + chunk_start <= ElementsOf(kind)
    BY <1>1 DEF Counted
  <2>2. ASSUME NEW i \in 1 .. 64
        PROVE  OfFormat(t[i], block, chunk_start + i - 1)
    <3>1. CASE i \in 1 .. 32
      <4>1. t[i] = A[i] /\ OfFormat(A[i], block, chunk_start + i - 1)
        BY <1>4, <1>6, <3>1
      <4> QED
        BY <4>1
    <3>2. CASE i \in 33 .. 64
      <4> DEFINE p == i - 32
      <4>1. p \in 1 .. 32 /\ chunk_start + 32 + p - 1 = chunk_start + i - 1
        BY <1>1, <3>2 DEF Counted
      <4>3. t[i] = B[p]
        BY <1>4, <3>2
      <4> HIDE DEF p
      <4>2. OfFormat(B[p], block, chunk_start + 32 + p - 1)
        BY <1>6, <4>1
      <4> QED
        BY <4>1, <4>2, <4>3
    <3> QED
      BY <3>1, <3>2
  <2> QED
    BY <1>4, <1>5, <2>1, <2>2, AppendFormat
<1>8. Filled'
  <2>1. Len(out') = block' * ElementsOf(kind') + chunk_start'
    BY <1>1, <1>2, <1>7 DEF Counted
  <2> QED
    BY <1>2, <1>7, <2>1, FormatKept DEF Filled
<1>9. Counted'
  BY <1>1, <1>2 DEF Counted
<1> QED
  BY <1>1, <1>2, <1>8, <1>9 DEF DequantizeInv, Whole

LEMMA NextBlockInv ==
    ASSUME DequantizeInv, NextBlock
    PROVE  DequantizeInv'
<1>1. /\ kind # "Q8" /\ ElementsOf(kind) = 256 /\ chunk_start = 256 /\ kind \in Kinds
      /\ block \in Nat /\ Whole \in Nat /\ block < Whole /\ call = "running" /\ length \in Nat
  BY Sizes DEF DequantizeInv, NextBlock, InBlock, QK_BLOCK_ELEMENTS, Whole
<1>2. /\ block' = block + 1 /\ chunk_start' = 0 /\ Counted'
      /\ UNCHANGED <<call, kind, length, out>>
  BY DEF NextBlock, Counted
<1>3. Filled'
  <2>1. Len(out') = block' * ElementsOf(kind') + chunk_start'
    BY <1>1, <1>2 DEF DequantizeInv, Filled
  <2> QED
    BY <1>2, <2>1, FormatKept DEF DequantizeInv, Filled
<1> QED
  BY <1>1, <1>2, <1>3 DEF DequantizeInv, Whole

LEMMA DequantizeReturnInv ==
    ASSUME DequantizeInv, DequantizeReturn
    PROVE  DequantizeInv'
<1>1. /\ Whole \in Nat /\ block = Whole /\ call' = "returned"
      /\ UNCHANGED <<kind, length, block, chunk_start, is, u1, u2, out>>
  BY Sizes DEF DequantizeInv, DequantizeReturn, InBlock, Whole
<1>2. Filled'
  BY <1>1, FormatKept DEF DequantizeInv, Filled
<1> QED
  BY <1>1, <1>2 DEF DequantizeInv, Whole, Counted

LEMMA DequantizeInvariance == DequantizeSpec => []DequantizeInv
<1>1. DequantizeInv /\ [DequantizeNext]_dequantizeVars => DequantizeInv'
  <2> SUFFICES ASSUME DequantizeInv, [DequantizeNext]_dequantizeVars
               PROVE  DequantizeInv'
    OBVIOUS
  <2>1. CASE DequantizeQ8  BY <2>1, Q8Inv
  <2>2. CASE DequantizeChunk  BY <2>2, ChunkInv
  <2>3. CASE NextBlock  BY <2>3, NextBlockInv
  <2>4. CASE DequantizeReturn  BY <2>4, DequantizeReturnInv
  <2>5. CASE UNCHANGED dequantizeVars
    <3>1. UNCHANGED <<call, kind, length, block, chunk_start, is, u1, u2, out>>
      BY <2>5 DEF dequantizeVars
    <3>2. Filled'
      BY <3>1, FormatKept DEF DequantizeInv, Filled
    <3> QED
      BY <3>1, <3>2 DEF DequantizeInv, Whole, Counted
  <2> QED
    BY <2>1, <2>2, <2>3, <2>4, <2>5 DEF DequantizeNext
<1> QED
  BY <1>1, DequantizeInitInv, PTL DEF DequantizeSpec

(* Element e of block b is where Value looks for it.                          *)
LEMMA ValueOfFormat ==
    ASSUME DequantizeInv, call = "returned",
           NEW b \in Blocks, NEW e \in 0 .. ElementsOf(kind) - 1
    PROVE  OfFormat(Value(b, e), b, e)
<1> DEFINE E == ElementsOf(kind)
           n == b * E + e + 1
<1>1. E \in {32, 256} /\ Whole \in Nat /\ b \in 0 .. Whole - 1 /\ Len(out) = Whole * E
  BY Sizes DEF DequantizeInv, Filled, Whole, Blocks
<1>2. n \in 1 .. Len(out) /\ n - 1 = b * E + e
  <2>1. CASE E = 32
    <3>1. b * 32 + e + 1 \in 1 .. Whole * 32 /\ b * 32 + e + 1 - 1 = b * 32 + e
      BY <1>1, <2>1
    <3> QED
      BY <1>1, <2>1, <3>1
  <2>2. CASE E = 256
    <3>1. b * 256 + e + 1 \in 1 .. Whole * 256 /\ b * 256 + e + 1 - 1 = b * 256 + e
      BY <1>1, <2>2
    <3> QED
      BY <1>1, <2>2, <3>1
  <2> QED
    BY <1>1, <2>1, <2>2
<1>3. (n - 1) \div E = b /\ (n - 1) % E = e
  <2> HIDE DEF E
  <2>1. b \in Nat /\ e \in 0 .. E - 1
    BY <1>1 DEF E
  <2> QED
    BY <1>1, <1>2, <2>1, Place
<1>4. OfFormat(out[n], (n - 1) \div E, (n - 1) % E)
  <2> HIDE DEF n
  <2> QED
    BY <1>2 DEF DequantizeInv, Filled
<1> QED
  BY <1>3, <1>4 DEF Value

(* However long the raw buffer is, what the dequantizers return is made of    *)
(* its whole blocks, in order, each value of the bits the format assigns to   *)
(* its element (dequantize.rs:94-165).                                        *)
THEOREM FormatFollowed == DequantizeSpec => []FollowsFormat
<1>1. DequantizeInv => FollowsFormat
  <2> SUFFICES ASSUME DequantizeInv, call = "returned"
               PROVE  FollowsFormat
    BY DEF FollowsFormat
  <2>1. Len(out) = (length \div BlockBytesOf[kind]) * ElementsOf(kind)
    BY Sizes DEF DequantizeInv, Filled, Whole
  <2> QED
    BY <2>1, ValueOfFormat DEF FollowsFormat
<1> QED
  BY <1>1, DequantizeInvariance, PTL

-----------------------------------------------------------------------------
(* The bits of n bytes, each by itself.                                       *)
BitsOf(bytes) == {One(p, k) : p \in bytes, k \in 0 .. 7}

LEMMA BitsElement ==
    ASSUME NEW bytes
    PROVE  /\ \A p \in bytes, k \in 0 .. 7 : One(p, k) \in BitsOf(bytes)
           /\ \A bit \in BitsOf(bytes) : \E p \in bytes, k \in 0 .. 7 : bit = One(p, k)
  BY DEF BitsOf

LEMMA BitsExhaust ==
    ASSUME NEW bytes
    PROVE  Exhausts(BitsOf(bytes), bytes)
<1> DEFINE places == BitsOf(bytes)
<1>1. ASSUME NEW bit \in places
      PROVE  Cardinality(bit) = 1
  <2>1. PICK p \in bytes, k \in 0 .. 7 : bit = One(p, k)
    BY BitsElement
  <2> QED
    BY <2>1, FS_Singleton DEF One
<1>2. UNION places = bytes \X (0 .. 7)
  <2>1. ASSUME NEW x \in UNION places
        PROVE  x \in bytes \X (0 .. 7)
    <3>1. PICK bit \in places : x \in bit
      OBVIOUS
    <3>2. PICK p \in bytes, k \in 0 .. 7 : bit = One(p, k)
      BY BitsElement
    <3> QED
      BY <3>1, <3>2 DEF One
  <2>2. ASSUME NEW p \in bytes, NEW k \in 0 .. 7
        PROVE  <<p, k>> \in UNION places
    <3>1. One(p, k) \in places /\ <<p, k>> \in One(p, k)
      BY BitsElement DEF One
    <3> HIDE DEF places
    <3> QED
      BY <3>1
  <2>3. ASSUME NEW x \in bytes \X (0 .. 7)
        PROVE  x \in UNION places
    <3>1. PICK p \in bytes, k \in 0 .. 7 : x = <<p, k>>
      OBVIOUS
    <3> QED
      BY <2>2, <3>1
  <2> DEFINE all == bytes \X (0 .. 7)
             union == UNION places
  <2> HIDE DEF all, union
  <2>4. union = all
    BY <2>1, <2>3 DEF all, union
  <2> QED
    BY <2>4 DEF all, union
<1> QED
  BY <1>1, <1>2 DEF Exhausts

LEMMA IntervalSize ==
    ASSUME NEW lo \in Int, NEW hi \in Int, lo <= hi
    PROVE  IsFiniteSet(lo .. hi) /\ Cardinality(lo .. hi) = hi - lo + 1
<1>1. ~(lo > hi)
  OBVIOUS
<1> QED
  BY <1>1, FS_Interval

LEMMA BitsCounted ==
    ASSUME NEW lo \in Nat, NEW hi \in Nat, lo <= hi
    PROVE  Cardinality(BitsOf(lo .. hi)) = 8 * (hi - lo + 1)
<1> DEFINE P == (lo .. hi) \X (0 .. 7)
           f == [x \in P |-> One(x[1], x[2])]
<1>1. IsFiniteSet(P) /\ Cardinality(P) = 8 * (hi - lo + 1)
  <2>1. IsFiniteSet(lo .. hi) /\ Cardinality(lo .. hi) = hi - lo + 1
    BY IntervalSize
  <2>2. IsFiniteSet(0 .. 7) /\ Cardinality(0 .. 7) = 8
    <3> DEFINE a == 0
               z == 7
    <3>1. a \in Int /\ z \in Int /\ a <= z /\ z - a + 1 = 8
      OBVIOUS
    <3> HIDE DEF a, z
    <3>2. IsFiniteSet(a .. z) /\ Cardinality(a .. z) = 8
      BY <3>1, IntervalSize
    <3> QED
      BY <3>2 DEF a, z
  <2>3. IsFiniteSet(P) /\ Cardinality(P) = Cardinality(lo .. hi) * Cardinality(0 .. 7)
    BY <2>1, <2>2, FS_Product
  <2> QED
    BY <2>1, <2>2, <2>3
<1>2. f \in Bijection(P, BitsOf(lo .. hi))
  <2>1. f \in [P -> BitsOf(lo .. hi)]
    BY BitsElement
  <2>2. ASSUME NEW t \in BitsOf(lo .. hi)
        PROVE  \E x \in P : f[x] = t
    <3>1. PICK p \in lo .. hi, k \in 0 .. 7 : t = One(p, k)
      BY BitsElement
    <3>2. <<p, k>> \in P /\ f[<<p, k>>] = t
      BY <3>1
    <3> QED
      BY <3>2
  <2>3. ASSUME NEW x \in P, NEW y \in P, f[x] = f[y]
        PROVE  x = y
    BY <2>3 DEF One
  <2> QED
    BY <2>1, <2>2, <2>3 DEF Bijection, Injection, Surjection, IsInjective
<1> QED
  BY <1>1, <1>2, FS_Bijection DEF ExistsBijection

QuantBits(q, high, ks) == {QuantBit(q, high, e, k) : e \in 0 .. 255, k \in ks}

LEMMA QuantBitsElement ==
    ASSUME NEW q, NEW high, NEW ks, NEW x
    PROVE  x \in QuantBits(q, high, ks) <=> \E e \in 0 .. 255, k \in ks : x = QuantBit(q, high, e, k)
  BY DEF QuantBits

(* What the format gives the elements of a block of a K format is every bit   *)
(* of the quants and, if it has them, of the high bits.                       *)
LEMMA QuantBitsOnto ==
    ASSUME NEW high \in Nat, NEW width \in {4, 5}, NEW q, q = high + 32 * (width - 4),
           NEW ks, \A k : k \in ks <=> k \in 0 .. width - 1,
           NEW bytes, \A p : p \in bytes <=> p \in high .. q + 127
    PROVE  QuantBits(q, high, ks) = BitsOf(bytes)
<1> DEFINE Byte(e) == q + 32 * (e \div 64) + (e % 32)
           Spot(e, k) == k + 4 * ((e \div 32) % 2)
<1>1. ASSUME NEW e \in 0 .. 255, NEW k \in ks
      PROVE  /\ k = 4 => QuantBit(q, high, e, k) = One(high + (e % 32), e \div 32)
             /\ k # 4 => QuantBit(q, high, e, k) = One(Byte(e), Spot(e, k))
  BY DEF QuantBit, One
<1>2. ASSUME NEW e \in 0 .. 255, NEW k \in ks
      PROVE  QuantBit(q, high, e, k) \in BitsOf(bytes)
  <2>1. CASE k = 4
    <3> DEFINE p == high + (e % 32)
               b == e \div 32
    <3>1. p \in bytes /\ b \in 0 .. 7
      BY <2>1
    <3>2. QuantBit(q, high, e, k) = One(p, b)
      BY <1>1, <2>1
    <3> HIDE DEF p, b
    <3> QED
      BY <3>1, <3>2, BitsElement
  <2>2. CASE k # 4
    <3> DEFINE p == Byte(e)
               b == Spot(e, k)
    <3>1. p \in bytes
      <4>1. e \div 64 \in 0 .. 3 /\ e % 32 \in 0 .. 31
        OBVIOUS
      <4> QED
        BY <4>1
    <3>2. b \in 0 .. 7
      <4>1. k \in 0 .. 3 /\ (e \div 32) % 2 \in 0 .. 1
        BY <2>2
      <4> QED
        BY <4>1
    <3>3. QuantBit(q, high, e, k) = One(p, b)
      BY <1>1, <2>2
    <3> HIDE DEF p, b
    <3> QED
      BY <3>1, <3>2, <3>3, BitsElement
  <2> QED
    BY <2>1, <2>2
<1>3. ASSUME NEW p \in bytes, NEW b \in 0 .. 7
      PROVE  \E e \in 0 .. 255, k \in ks : QuantBit(q, high, e, k) = One(p, b)
  <2>1. CASE p < q
    <3> DEFINE e == 32 * b + (p - high)
               k == 4
    <3>0. p - high \in 0 .. 31 /\ 4 \in ks
      <4>1. p \in high .. q + 127
        OBVIOUS
      <4>2. width = 5
        BY <2>1, <4>1
      <4> QED
        BY <2>1, <4>1, <4>2
    <3>1. e \in 0 .. 255 /\ e \div 32 = b /\ high + (e % 32) = p /\ k \in ks
      <4> DEFINE r == p - high
      <4>1. r \in 0 .. 31 /\ p = high + r
        BY <3>0
      <4>2. 32 * b + r \in 0 .. 255 /\ (32 * b + r) \div 32 = b /\ (32 * b + r) % 32 = r
        <5> HIDE DEF r
        <5> QED
          BY <4>1
      <4> QED
        BY <3>0, <4>1, <4>2
    <3> HIDE DEF e, k
    <3>2. QuantBit(q, high, e, k) = One(p, b)
      BY <1>1, <3>1 DEF k
    <3> QED
      BY <3>1, <3>2
  <2>2. CASE p >= q
    <3> DEFINE r == p - q
               c == r \div 32
               e == 64 * c + 32 * (b \div 4) + (r % 32)
               k == b % 4
    <3>1. r \in 0 .. 127 /\ c \in 0 .. 3 /\ r = 32 * c + (r % 32) /\ r % 32 \in 0 .. 31
      BY <2>2
    <3>2. b \div 4 \in 0 .. 1 /\ b = 4 * (b \div 4) + k /\ k \in 0 .. 3 /\ k \in ks
      OBVIOUS
    <3>3. e \in 0 .. 255 /\ e \div 64 = c /\ e % 32 = r % 32 /\ (e \div 32) % 2 = b \div 4
      <4> HIDE DEF c, r
      <4> QED
        BY <3>1, <3>2
    <3>4. p = q + r /\ q \in Nat
      BY <2>2
    <3> HIDE DEF e, k, c, r
    <3>5. Byte(e) = p /\ Spot(e, k) = b
      BY <3>1, <3>2, <3>3, <3>4
    <3>6. k # 4
      BY <3>2
    <3> HIDE DEF Byte, Spot
    <3>7. QuantBit(q, high, e, k) = One(p, b)
      BY <1>1, <3>2, <3>3, <3>5, <3>6
    <3> QED
      BY <3>2, <3>3, <3>7
  <2> QED
    BY <2>1, <2>2
<1>4. ASSUME NEW x \in QuantBits(q, high, ks) PROVE x \in BitsOf(bytes)
  BY <1>2, QuantBitsElement
<1>5. ASSUME NEW x \in BitsOf(bytes) PROVE x \in QuantBits(q, high, ks)
  <2>1. PICK p \in bytes, b \in 0 .. 7 : x = One(p, b)
    BY BitsElement
  <2>2. PICK e \in 0 .. 255, k \in ks : QuantBit(q, high, e, k) = One(p, b)
    BY <1>3
  <2> QED
    BY <2>1, <2>2, QuantBitsElement, SMT
<1> QED
  BY <1>4, <1>5

(* What the format gives the eight scales and minima is every bit of the      *)
(* twelve bytes they are packed in.                                           *)
LEMMA FactorBitsOnto ==
    ASSUME NEW s \in Nat
    PROVE  {ScaleBit(s, j, k) : j \in 0 .. 7, k \in 0 .. 5}
              \cup {MinBit(s, j, k) : j \in 0 .. 7, k \in 0 .. 5} = BitsOf(s .. s + 11)
<1> DEFINE bytes == s .. s + 11
           factors == {ScaleBit(s, j, k) : j \in 0 .. 7, k \in 0 .. 5}
                         \cup {MinBit(s, j, k) : j \in 0 .. 7, k \in 0 .. 5}
<1>1. ASSUME NEW j \in 0 .. 7, NEW k \in 0 .. 5
      PROVE  ScaleBit(s, j, k) \in BitsOf(bytes) /\ MinBit(s, j, k) \in BitsOf(bytes)
  <2>1. CASE j < 4
    <3>1. /\ ScaleBit(s, j, k) = One(s + j, k) /\ MinBit(s, j, k) = One(s + j + 4, k)
          /\ s + j \in bytes /\ s + j + 4 \in bytes /\ k \in 0 .. 7
      BY <2>1 DEF ScaleBit, MinBit, One
    <3> HIDE DEF bytes
    <3> QED
      BY <3>1, BitsElement
  <2>2. CASE j >= 4 /\ k < 4
    <3>1. /\ ScaleBit(s, j, k) = One(s + j + 4, k) /\ MinBit(s, j, k) = One(s + j + 4, k + 4)
          /\ s + j + 4 \in bytes /\ k \in 0 .. 7 /\ k + 4 \in 0 .. 7
      BY <2>2 DEF ScaleBit, MinBit, One
    <3> HIDE DEF bytes
    <3> QED
      BY <3>1, BitsElement
  <2>3. CASE j >= 4 /\ k >= 4
    <3>1. /\ ScaleBit(s, j, k) = One(s + j - 4, k + 2) /\ MinBit(s, j, k) = One(s + j, k + 2)
          /\ s + j - 4 \in bytes /\ s + j \in bytes /\ k + 2 \in 0 .. 7
      BY <2>3 DEF ScaleBit, MinBit, One
    <3> HIDE DEF bytes
    <3> QED
      BY <3>1, BitsElement
  <2> QED
    BY <2>1, <2>2, <2>3
<1>2. ASSUME NEW p \in bytes, NEW x \in 0 .. 7
      PROVE  \E j \in 0 .. 7, k \in 0 .. 5 :
                ScaleBit(s, j, k) = One(p, x) \/ MinBit(s, j, k) = One(p, x)
  <2> DEFINE r == p - s
  <2>1. r \in 0 .. 11 /\ p = s + r
    OBVIOUS
  <2> HIDE DEF r
  <2>2. CASE r < 4 /\ x < 6
    <3>1. r \in 0 .. 7 /\ x \in 0 .. 5 /\ ScaleBit(s, r, x) = One(p, x)
      BY <2>1, <2>2 DEF ScaleBit, One
    <3> QED
      BY <3>1
  <2>3. CASE r < 4 /\ x >= 6
    <3>1. /\ r + 4 \in 0 .. 7 /\ x - 2 \in 0 .. 5 /\ s + (r + 4) - 4 = p /\ (x - 2) + 2 = x
          /\ ~(r + 4 < 4) /\ ~(x - 2 < 4)
      BY <2>1, <2>3
    <3>2. ScaleBit(s, r + 4, x - 2) = One(p, x)
      BY <3>1 DEF ScaleBit, One
    <3> QED
      BY <3>1, <3>2
  <2>4. CASE r \in 4 .. 7 /\ x < 6
    <3>1. r - 4 \in 0 .. 7 /\ x \in 0 .. 5 /\ s + (r - 4) + 4 = p /\ r - 4 < 4
      BY <2>1, <2>4
    <3>2. MinBit(s, r - 4, x) = One(p, x)
      BY <3>1 DEF MinBit, One
    <3> QED
      BY <3>1, <3>2
  <2>5. CASE r \in 4 .. 7 /\ x >= 6
    <3>1. r \in 0 .. 7 /\ x - 2 \in 0 .. 5 /\ (x - 2) + 2 = x /\ ~(r < 4) /\ ~(x - 2 < 4)
      BY <2>1, <2>5
    <3>2. MinBit(s, r, x - 2) = One(p, x)
      BY <2>1, <3>1 DEF MinBit, One
    <3> QED
      BY <3>1, <3>2
  <2>6. CASE r >= 8 /\ x < 4
    <3>1. r - 4 \in 0 .. 7 /\ x \in 0 .. 5 /\ s + (r - 4) + 4 = p /\ ~(r - 4 < 4)
      BY <2>1, <2>6
    <3>2. ScaleBit(s, r - 4, x) = One(p, x)
      BY <2>6, <3>1 DEF ScaleBit, One
    <3> QED
      BY <3>1, <3>2
  <2>7. CASE r >= 8 /\ x >= 4
    <3>1. /\ r - 4 \in 0 .. 7 /\ x - 4 \in 0 .. 5 /\ s + (r - 4) + 4 = p /\ (x - 4) + 4 = x
          /\ ~(r - 4 < 4) /\ x - 4 < 4
      BY <2>1, <2>7
    <3>2. MinBit(s, r - 4, x - 4) = One(p, x)
      BY <3>1 DEF MinBit, One
    <3> QED
      BY <3>1, <3>2
  <2> QED
    BY <2>1, <2>2, <2>3, <2>4, <2>5, <2>6, <2>7
<1>3. ASSUME NEW t \in factors PROVE t \in BitsOf(bytes)
  BY <1>1
<1>4. ASSUME NEW t \in BitsOf(bytes) PROVE t \in factors
  <2>1. PICK p \in bytes, x \in 0 .. 7 : t = One(p, x)
    BY BitsElement
  <2>2. PICK j \in 0 .. 7, k \in 0 .. 5 : ScaleBit(s, j, k) = One(p, x) \/ MinBit(s, j, k) = One(p, x)
    BY <1>2
  <2> QED
    BY <2>1, <2>2, SMT
<1> HIDE DEF factors
<1>5. factors = BitsOf(bytes)
  BY <1>3, <1>4
<1> QED
  BY <1>5 DEF factors

LEMMA BlockStart ==
    ASSUME DequantizeInv, NEW b \in Blocks
    PROVE  b \in Nat /\ b * BlockBytesOf[kind] \in Nat
<1>1. b \in Nat /\ BlockBytesOf[kind] \in {34, 144, 176}
  BY Sizes DEF DequantizeInv, Whole, Blocks
<1>2. b * 34 \in Nat /\ b * 144 \in Nat /\ b * 176 \in Nat
  BY <1>1
<1>3. CASE BlockBytesOf[kind] = 34  BY <1>1, <1>2, <1>3
<1>4. CASE BlockBytesOf[kind] = 144  BY <1>1, <1>2, <1>4
<1>5. CASE BlockBytesOf[kind] = 176  BY <1>1, <1>2, <1>5
<1> QED
  BY <1>1, <1>3, <1>4, <1>5

LEMMA Layouts ==
    ASSUME kind \in Kinds
    PROVE  \/ /\ kind = "Q8" /\ QuantWidth = 8 /\ HeaderBytes = 2
              /\ BlockBytesOf[kind] = 34 /\ ElementsOf(kind) = 32
           \/ /\ kind = "Q4K" /\ QuantWidth = 4 /\ HeaderBytes = 16
              /\ BlockBytesOf[kind] = 144 /\ ElementsOf(kind) = 256
           \/ /\ kind = "Q5K" /\ QuantWidth = 5 /\ HeaderBytes = 16
              /\ BlockBytesOf[kind] = 176 /\ ElementsOf(kind) = 256
  BY Sizes DEF QuantWidth, HeaderBytes

LEMMA QuantsElement ==
    ASSUME NEW b, NEW x
    PROVE  x \in QuantsOf(b) <=>
              \E e \in 0 .. ElementsOf(kind) - 1, k \in 0 .. QuantWidth - 1 : x = Value(b, e).quant[k]
  BY DEF QuantsOf

LEMMA FactorsElement ==
    ASSUME NEW b, NEW x
    PROVE  x \in FactorsOf(b) <=>
              \E j \in 0 .. 7, k \in 0 .. 5 :
                 x = Value(b, 32 * j).by.scale[k] \/ x = Value(b, 32 * j).by.min[k]
  BY DEF FactorsOf

LEMMA Q8Quants ==
    ASSUME DequantizeInv, call = "returned", kind = "Q8", NEW b \in Blocks,
           NEW start, start = b * BlockBytesOf[kind],
           NEW bytes, \A p : p \in bytes <=> p \in start + 2 .. start + 33
    PROVE  QuantsOf(b) = BitsOf(bytes)
<1>1. start \in Nat /\ ElementsOf(kind) - 1 = 31 /\ QuantWidth - 1 = 7
  BY BlockStart, Layouts DEF DequantizeInv
<1>2. ASSUME NEW e \in 0 .. 31, NEW k \in 0 .. 7
      PROVE  Value(b, e).quant[k] = One(start + 2 + e, k)
  <2>1. OfFormat(Value(b, e), b, e)
    BY <1>1, ValueOfFormat
  <2>2. Value(b, e).quant = RawByte(start + 2 + e)
    BY <2>1 DEF OfFormat
  <2> QED
    BY <2>2, RawBit
<1>3. ASSUME NEW x \in QuantsOf(b) PROVE x \in BitsOf(bytes)
  <2>1. PICK e \in 0 .. 31, k \in 0 .. 7 : x = Value(b, e).quant[k]
    BY <1>1, QuantsElement
  <2>2. start + 2 + e \in bytes
    BY <1>1
  <2>3. x = One(start + 2 + e, k)
    BY <1>2, <2>1
  <2> QED
    BY <2>2, <2>3, BitsElement
<1>4. ASSUME NEW x \in BitsOf(bytes) PROVE x \in QuantsOf(b)
  <2>1. PICK p \in bytes, k \in 0 .. 7 : x = One(p, k)
    BY BitsElement
  <2> DEFINE e == p - start - 2
  <2>2. e \in 0 .. 31 /\ start + 2 + e = p
    BY <1>1
  <2> HIDE DEF e
  <2>3. x = Value(b, e).quant[k]
    BY <1>2, <2>1, <2>2
  <2>4. \E e1 \in 0 .. ElementsOf(kind) - 1, k1 \in 0 .. QuantWidth - 1 : x = Value(b, e1).quant[k1]
    BY <1>1, <2>2, <2>3
  <2> QED
    BY <2>4, QuantsElement
<1> QED
  BY <1>3, <1>4

LEMMA KQuants ==
    ASSUME DequantizeInv, call = "returned", kind # "Q8", NEW b \in Blocks,
           NEW start, start = b * BlockBytesOf[kind],
           NEW bytes, \A p : p \in bytes <=> p \in start + 16 .. start + BlockBytesOf[kind] - 1
    PROVE  QuantsOf(b) = BitsOf(bytes)
<1> DEFINE high == start + 16
           q == start + BlockBytesOf[kind] - 128
           ks == 0 .. QuantWidth - 1
           formats == QuantBits(q, high, ks)
<1>1. start \in Nat /\ ElementsOf(kind) - 1 = 255
  BY BlockStart, Layouts DEF DequantizeInv
<1>2. \/ kind = "Q4K" /\ QuantWidth = 4 /\ BlockBytesOf[kind] = 144
      \/ kind = "Q5K" /\ QuantWidth = 5 /\ BlockBytesOf[kind] = 176
  BY Layouts DEF DequantizeInv
<1>3. /\ high \in Nat /\ QuantWidth \in {4, 5} /\ q \in Nat /\ q = high + 32 * (QuantWidth - 4)
      /\ start + BlockBytesOf[kind] - 1 = q + 127
  BY <1>1, <1>2
<1>4. ASSUME NEW e \in 0 .. 255, NEW k \in ks
      PROVE  Value(b, e).quant[k] = QuantBit(q, high, e, k)
  <2>1. OfFormat(Value(b, e), b, e)
    BY <1>1, ValueOfFormat
  <2>2. k \in 0 .. 7 /\ (k < 4 \/ (k = 4 /\ kind = "Q5K"))
    BY <1>2
  <2> QED
    BY <2>1, <2>2 DEF OfFormat
<1> HIDE DEF high, q
<1>5. QuantsOf(b) = formats
  <2>1. ASSUME NEW x \in QuantsOf(b) PROVE x \in formats
    <3>1. PICK e \in 0 .. ElementsOf(kind) - 1, k \in ks : x = Value(b, e).quant[k]
      BY QuantsElement
    <3>2. e \in 0 .. 255
      BY <1>1
    <3>3. x = QuantBit(q, high, e, k)
      BY <1>4, <3>1, <3>2
    <3> QED
      BY <3>2, <3>3, QuantBitsElement
  <2>2. ASSUME NEW x \in formats PROVE x \in QuantsOf(b)
    <3> HIDE DEF ks
    <3>1. PICK e \in 0 .. 255, k \in ks : x = QuantBit(q, high, e, k)
      BY QuantBitsElement
    <3>2. x = Value(b, e).quant[k]
      BY <1>4, <3>1
    <3>3. e \in 0 .. ElementsOf(kind) - 1
      BY <1>1
    <3> QED
      BY <3>2, <3>3, QuantsElement DEF ks
  <2> HIDE DEF formats
  <2> QED
    BY <2>1, <2>2
<1>6. formats = BitsOf(bytes)
  <2>1. \A k : k \in ks <=> k \in 0 .. QuantWidth - 1
    OBVIOUS
  <2>2. \A p : p \in bytes <=> p \in high .. q + 127
    BY <1>3 DEF high
  <2> HIDE DEF ks
  <2> QED
    BY <1>3, <2>1, <2>2, QuantBitsOnto
<1> QED
  BY <1>5, <1>6

LEMMA KFactors ==
    ASSUME DequantizeInv, call = "returned", kind # "Q8", NEW b \in Blocks,
           NEW s, s = b * BlockBytesOf[kind] + 4
    PROVE  FactorsOf(b) = BitsOf(s .. s + 11)
<1> DEFINE formats == {ScaleBit(s, j, k) : j \in 0 .. 7, k \in 0 .. 5}
                         \cup {MinBit(s, j, k) : j \in 0 .. 7, k \in 0 .. 5}
<1>1. s \in Nat /\ ElementsOf(kind) - 1 = 255
  BY BlockStart, Layouts DEF DequantizeInv
<1>2. ASSUME NEW j \in 0 .. 7, NEW k \in 0 .. 5
      PROVE  /\ Value(b, 32 * j).by.scale[k] = ScaleBit(s, j, k)
             /\ Value(b, 32 * j).by.min[k] = MinBit(s, j, k)
  <2> DEFINE e == 32 * j
  <2>1. e \in 0 .. 255 /\ e \div 32 = j
    OBVIOUS
  <2> HIDE DEF e
  <2>2. OfFormat(Value(b, e), b, e)
    BY <1>1, <2>1, ValueOfFormat
  <2>3. k \in 0 .. 7 /\ k < 6
    OBVIOUS
  <2>4. /\ Value(b, e).by.scale[k] = ScaleBit(s, j, k)
        /\ Value(b, e).by.min[k] = MinBit(s, j, k)
    BY <2>1, <2>2, <2>3 DEF OfFormat
  <2> QED
    BY <2>4 DEF e
<1>3. ASSUME NEW x \in FactorsOf(b) PROVE x \in formats
  <2>1. PICK j \in 0 .. 7, k \in 0 .. 5 :
           x = Value(b, 32 * j).by.scale[k] \/ x = Value(b, 32 * j).by.min[k]
    BY FactorsElement
  <2> QED
    BY <1>2, <2>1
<1>4. ASSUME NEW x \in formats PROVE x \in FactorsOf(b)
  <2>1. PICK j \in 0 .. 7, k \in 0 .. 5 : x = ScaleBit(s, j, k) \/ x = MinBit(s, j, k)
    OBVIOUS
  <2>2. x = Value(b, 32 * j).by.scale[k] \/ x = Value(b, 32 * j).by.min[k]
    BY <1>2, <2>1
  <2> QED
    BY <2>2, FactorsElement
<1>5. formats = BitsOf(s .. s + 11)
  BY <1>1, FactorBitsOnto
<1> HIDE DEF formats
<1> QED
  BY <1>3, <1>4, <1>5

(* n bits that are all bits of their bytes.                                   *)
LEMMA AllServed ==
    ASSUME NEW places, NEW lo \in Nat, NEW hi \in Nat, lo <= hi,
           NEW bytes, \A p : p \in bytes <=> p \in lo .. hi, places = BitsOf(bytes)
    PROVE  Cardinality(places) = 8 * (hi - lo + 1) /\ Exhausts(places, lo .. hi)
<1>1. bytes = lo .. hi
  OBVIOUS
<1> QED
  BY <1>1, BitsCounted, BitsExhaust

(* Whatever the buffer: no bit of the quants and of the packed factors of a   *)
(* block is lost, and none serves twice or is or-ed with another              *)
(* (dequantize.rs:43-60, 94-165): as many places as there are bits are        *)
(* filled, with one bit each, and every bit is in one.                        *)
THEOREM BitsServeOnce == DequantizeSpec => []EveryBitServesOnce
<1>1. DequantizeInv => EveryBitServesOnce
  <2> SUFFICES ASSUME DequantizeInv, call = "returned", NEW b \in Blocks
               PROVE  LET start == b * BlockBytesOf[kind]
                      IN  /\ Cardinality(QuantsOf(b)) = ElementsOf(kind) * QuantWidth
                          /\ Exhausts(QuantsOf(b), start + HeaderBytes .. start + BlockBytesOf[kind] - 1)
                          /\ kind # "Q8" => /\ Cardinality(FactorsOf(b)) = 8 * 2 * 6
                                            /\ Exhausts(FactorsOf(b), start + 4 .. start + 15)
    BY DEF EveryBitServesOnce
  <2> DEFINE start == b * BlockBytesOf[kind]
             lo == start + HeaderBytes
             hi == start + BlockBytesOf[kind] - 1
             bytes == lo .. hi
  <2>1. start \in Nat
    BY BlockStart
  <2>2. kind \in Kinds
    BY DEF DequantizeInv
  <2>3. QuantsOf(b) = BitsOf(bytes)
    <3>1. CASE kind = "Q8"
      <4>1. lo = start + 2 /\ hi = start + 33
        <5> HIDE DEF start
        <5> QED
          BY <2>1, <2>2, <3>1, Layouts
      <4>2. \A p : p \in bytes <=> p \in start + 2 .. start + 33
        BY <4>1
      <4>3. start = b * BlockBytesOf[kind]
        OBVIOUS
      <4> HIDE DEF bytes, start
      <4> QED
        BY <3>1, <4>2, <4>3, Q8Quants
    <3>2. CASE kind # "Q8"
      <4>1. lo = start + 16
        <5> HIDE DEF start
        <5> QED
          BY <2>1, <2>2, <3>2, Layouts
      <4>2. \A p : p \in bytes <=> p \in start + 16 .. start + BlockBytesOf[kind] - 1
        BY <4>1
      <4>3. start = b * BlockBytesOf[kind]
        OBVIOUS
      <4> HIDE DEF bytes, start
      <4> QED
        BY <3>2, <4>2, <4>3, KQuants
    <3> QED
      BY <3>1, <3>2
  <2>4. Cardinality(QuantsOf(b)) = ElementsOf(kind) * QuantWidth /\ Exhausts(QuantsOf(b), lo .. hi)
    <3>1. lo \in Nat /\ hi \in Nat /\ lo <= hi /\ 8 * (hi - lo + 1) = ElementsOf(kind) * QuantWidth
      <4> HIDE DEF start
      <4> QED
        BY <2>1, <2>2, Layouts
    <3>2. \A p : p \in bytes <=> p \in lo .. hi
      OBVIOUS
    <3> HIDE DEF lo, hi, bytes
    <3>3. Cardinality(QuantsOf(b)) = 8 * (hi - lo + 1) /\ Exhausts(QuantsOf(b), lo .. hi)
      BY <2>3, <3>1, <3>2, AllServed
    <3> QED
      BY <3>1, <3>3
  <2>5. ASSUME kind # "Q8"
        PROVE  /\ Cardinality(FactorsOf(b)) = 8 * 2 * 6
               /\ Exhausts(FactorsOf(b), start + 4 .. start + 15)
    <3> DEFINE s == start + 4
               last == s + 11
    <3>1. FactorsOf(b) = BitsOf(s .. last)
      <4>1. s = b * BlockBytesOf[kind] + 4
        OBVIOUS
      <4> HIDE DEF s
      <4> QED
        BY <2>5, <4>1, KFactors
    <3>2. /\ s \in Nat /\ last \in Nat /\ s <= last /\ 8 * (last - s + 1) = 8 * 2 * 6
          /\ last = start + 15
      <4> HIDE DEF start
      <4> QED
        BY <2>1
    <3> HIDE DEF s, last
    <3>3. Cardinality(FactorsOf(b)) = 8 * (last - s + 1) /\ Exhausts(FactorsOf(b), s .. last)
      BY <3>1, <3>2, AllServed
    <3>4. Cardinality(FactorsOf(b)) = 8 * 2 * 6 /\ Exhausts(FactorsOf(b), s .. start + 15)
      BY <3>2, <3>3
    <3> QED
      BY <3>4 DEF s
  <2> QED
    BY <2>4, <2>5
<1> QED
  BY <1>1, DequantizeInvariance, PTL
=============================================================================
