------------------------------ MODULE HalfFloat ------------------------------
(* f16_to_f32 (dequantize.rs): the scales of a block, from binary16 to        *)
(* binary32, the renormalization of a subnormal one shift at a time. A u32 is *)
(* its sign and the other 31 bits.                                            *)
EXTENDS Integers

VARIABLES
    half,       \* where the call stands
    bits,       \* its argument, a u16
    mantissa,   \* the local that is shifted
    shift,      \* how often it was
    single      \* the result: sign and magnitude_bits

MaxShift == 12     \* bound: no call of the code shifts more than ten times

halfVars == <<half, bits, mantissa, shift, single>>

U16 == 0 .. 65535

Sign == bits \div 2^15
Exponent == (bits \div 2^10) % 2^5
Mantissa == bits % 2^10

(* (exponent << 23) | (mantissa << 13), for a mantissa of ten bits.           *)
Float32(exponent, m) == [sign |-> Sign, magnitude |-> exponent * 2^23 + m * 2^13]

HalfInit ==
    /\ half = "start"
    /\ bits \in U16
    /\ mantissa = 0
    /\ shift = 0
    /\ single = [sign |-> 0, magnitude |-> 0]

HalfReturn(value) ==
    /\ half' = "done"
    /\ single' = value
    /\ UNCHANGED <<bits, mantissa, shift>>

Zero ==
    /\ half = "start"
    /\ Exponent = 0 /\ Mantissa = 0
    /\ HalfReturn(Float32(0, 0))

MutantSubnormal ==
    /\ half = "start"
    /\ Exponent = 0
    /\ half' = "shift"
    /\ mantissa' = Mantissa
    /\ UNCHANGED <<bits, shift, single>>

Subnormal ==
    /\ half = "start"
    /\ Exponent = 0 /\ Mantissa # 0
    /\ half' = "shift"
    /\ mantissa' = Mantissa
    /\ UNCHANGED <<bits, shift, single>>

LeadingBit == (mantissa \div 2^10) % 2 = 1

ShiftLeft ==
    /\ half = "shift"
    /\ ~LeadingBit
    /\ shift < MaxShift
    /\ mantissa' = 2 * mantissa     \* eleven bits at most: the u32 does not wrap
    /\ shift' = shift + 1
    /\ UNCHANGED <<half, bits, single>>

MutantRenormalized ==
    /\ half = "shift"
    /\ LeadingBit
    /\ HalfReturn(Float32(127 - 15 - shift, mantissa % 2^10))

Renormalized ==
    /\ half = "shift"
    /\ LeadingBit
    /\ HalfReturn(Float32(127 - 15 - shift + 1, mantissa % 2^10))

InfinityOrNaN ==
    /\ half = "start"
    /\ Exponent = 31
    /\ HalfReturn(Float32(255, Mantissa))

Normal ==
    /\ half = "start"
    /\ Exponent \in 1 .. 30
    /\ HalfReturn(Float32(Exponent - 15 + 127, Mantissa))

HalfNext ==
    Zero \/ Subnormal \/ ShiftLeft \/ Renormalized \/ InfinityOrNaN \/ Normal

(* The call is a loop on its caller's thread.                                 *)
HalfSpec == HalfInit /\ [][HalfNext]_halfVars /\ WF_halfVars(HalfNext)

-----------------------------------------------------------------------------
(* n * 2^f = m * 2^e, for e >= f.                                             *)
SameNumber(m, e, n, f) ==
    /\ e >= f
    /\ IF m = 0 THEN n = 0 ELSE n % 2^(e - f) = 0 /\ n \div 2^(e - f) = m

(* Every binary16 value, subnormals and signed zeros included, becomes the    *)
(* binary32 value that is the same number; infinities stay infinite and NaNs  *)
(* NaNs, with their sign and payload.                                         *)
HalfIsExact ==
    half = "done" =>
        LET e == single.magnitude \div 2^23
            m == single.magnitude % 2^23
        IN  /\ single.sign = Sign
            /\ IF Exponent = 31
               THEN e = 255 /\ SameNumber(Mantissa, 13, m, 0)
               ELSE /\ e # 255
                    /\ SameNumber(IF Exponent = 0 THEN Mantissa ELSE 2^10 + Mantissa,
                                  IF Exponent = 0 THEN -24 ELSE Exponent - 25,
                                  IF e = 0 THEN m ELSE 2^23 + m,
                                  IF e = 0 THEN -149 ELSE e - 150)

(* The renormalization loop ends: no mantissa is shifted for ever.            *)
HalfReturns == half = "start" ~> half = "done"
=============================================================================
