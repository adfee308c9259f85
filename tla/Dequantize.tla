------------------------------ MODULE Dequantize ------------------------------
(* dequantize_q8_0, dequantize_q4_k and dequantize_q5_k (dequantize.rs), a    *)
(* step per chunk of a block. A word is a function from its bits to the sets  *)
(* of bits of the raw buffer that were or-ed into them; bit k of byte p is    *)
(* <<p, k>>. What a block computes is left as the operands of its formulas:   *)
(* d * quant, and (d * scale) * quant - dmin * min.                           *)
EXTENDS Naturals, SequencesExt

CONSTANTS RawLengths    \* by kind, the lengths of the raw buffer

Q8_0_BLOCK_ELEMENTS == 32
QK_BLOCK_ELEMENTS == 256
K_SCALE_SIZE == 12
Kinds == {"Q8", "Q4K", "Q5K"}
BlockBytesOf == [Q8 |-> 34, Q4K |-> 144, Q5K |-> 176]
ElementsOf(k) == IF k = "Q8" THEN Q8_0_BLOCK_ELEMENTS ELSE QK_BLOCK_ELEMENTS

ASSUME RawLengthsAssumption == \A k \in Kinds : RawLengths[k] \subseteq Nat

VARIABLES
    call,           \* where the call stands
    kind, length,   \* which of the three functions, and raw.len()
    block,          \* the block it is at
    chunk_start, is, u1, u2,    \* the counters and masks of the loop over a block
    out             \* the values computed so far

dequantizeVars == <<call, kind, length, block, chunk_start, is, u1, u2, out>>

(* &, >>, << and | on bytes.                                                  *)
And(w, mask) == [k \in 0 .. 7 |-> IF (mask \div 2^k) % 2 = 1 THEN w[k] ELSE {}]
ShiftedRight(w, n) == [k \in 0 .. 7 |-> IF k + n < 8 THEN w[k + n] ELSE {}]
ShiftedLeft(w, n) == [k \in 0 .. 7 |-> IF k >= n THEN w[k - n] ELSE {}]
Or(v, w) == [k \in 0 .. 7 |-> v[k] \cup w[k]]
IfAnySixteen(w) == [k \in 0 .. 7 |-> IF k = 4 THEN UNION {w[x] : x \in 0 .. 7} ELSE {}]

RawByte(p) == [k \in 0 .. 7 |-> {<<p, k>>}]

(* Where the fields of the current block begin.                               *)
Base == block * BlockBytesOf[kind]
Scales == Base + 4
High == Scales + K_SCALE_SIZE
Quants == IF kind = "Q5K" THEN High + 32 ELSE High

MutantScaleMin(j) ==
    LET scales(x) == RawByte(Scales + x)
    IN  IF j < 4 THEN [scale |-> And(scales(j), 63), min |-> And(scales(j + 4), 63)]
        ELSE [scale |-> Or(And(scales(j + 4), 15), ShiftedLeft(ShiftedRight(scales(j - 4), 6), 4)),
              min   |-> Or(ShiftedRight(scales(j + 4), 4), ShiftedLeft(ShiftedRight(scales(j - 4), 6), 4))]

get_scale_min_k4(j) ==
    LET scales(x) == RawByte(Scales + x)
    IN  IF j < 4 THEN [scale |-> And(scales(j), 63), min |-> And(scales(j + 4), 63)]
        ELSE [scale |-> Or(And(scales(j + 4), 15), ShiftedLeft(ShiftedRight(scales(j - 4), 6), 4)),
              min   |-> Or(ShiftedRight(scales(j + 4), 4), ShiftedLeft(ShiftedRight(scales(j), 6), 4))]

DequantizeInit ==
    /\ call = "running"
    /\ kind \in Kinds
    /\ length \in RawLengths[kind]
    /\ block = 0 /\ chunk_start = 0 /\ is = 0 /\ u1 = 1 /\ u2 = 2
    /\ out = <<>>

(* as_chunks().0: a last block that is not whole is dropped.                  *)
InBlock == call = "running" /\ block < length \div BlockBytesOf[kind]

DequantizeQ8 ==
    /\ InBlock
    /\ kind = "Q8"
    /\ out' = out \o [i \in 1 .. Q8_0_BLOCK_ELEMENTS |->
                        [d |-> <<Base, Base + 1>>, quant |-> RawByte(Base + 1 + i)]]
    /\ block' = block + 1
    /\ UNCHANGED <<call, kind, length, chunk_start, is, u1, u2>>

ChunkByte(i) == RawByte(Quants + chunk_start \div 2 + i - 1)

(* One extend of a chunk: 32 values of one scale, from a nibble each and, in  *)
(* Q5_K, the bit of qh that the mask selects.                                 *)
Extended(j, nibbles, mask) ==
    [i \in 1 .. 32 |->
        [d |-> <<Base, Base + 1>>, dmin |-> <<Base + 2, Base + 3>>, by |-> get_scale_min_k4(j),
         quant |-> IF kind = "Q5K"
                   THEN Or(nibbles[i], IfAnySixteen(And(RawByte(High + i - 1), mask)))
                   ELSE nibbles[i]]]

InChunk == InBlock /\ kind # "Q8" /\ chunk_start < QK_BLOCK_ELEMENTS

MutantChunk ==
    /\ InChunk
    /\ out' = out \o Extended(is, [i \in 1 .. 32 |-> And(ChunkByte(i), 15)], u1)
                  \o Extended(is + 1, [i \in 1 .. 32 |-> ShiftedRight(ChunkByte(i), 4)], u2)
    /\ chunk_start' = chunk_start + 64
    /\ is' = is + 2
    /\ u1' = (u1 * 2) % 256
    /\ u2' = (u2 * 2) % 256
    /\ UNCHANGED <<call, kind, length, block>>

DequantizeChunk ==
    /\ InChunk
    /\ out' = out \o Extended(is, [i \in 1 .. 32 |-> And(ChunkByte(i), 15)], u1)
                  \o Extended(is + 1, [i \in 1 .. 32 |-> ShiftedRight(ChunkByte(i), 4)], u2)
    /\ chunk_start' = chunk_start + 64
    /\ is' = is + 2
    /\ u1' = (u1 * 4) % 256
    /\ u2' = (u2 * 4) % 256
    /\ UNCHANGED <<call, kind, length, block>>

NextBlock ==
    /\ InBlock
    /\ chunk_start = QK_BLOCK_ELEMENTS
    /\ block' = block + 1
    /\ chunk_start' = 0 /\ is' = 0 /\ u1' = 1 /\ u2' = 2
    /\ UNCHANGED <<call, kind, length, out>>

DequantizeReturn ==
    /\ call = "running"
    /\ ~InBlock
    /\ call' = "returned"
    /\ UNCHANGED <<kind, length, block, chunk_start, is, u1, u2, out>>

DequantizeNext == DequantizeQ8 \/ DequantizeChunk \/ NextBlock \/ DequantizeReturn

DequantizeSpec == DequantizeInit /\ [][DequantizeNext]_dequantizeVars

-----------------------------------------------------------------------------
Blocks == 0 .. length \div BlockBytesOf[kind] - 1
Value(b, e) == out[b * ElementsOf(kind) + e + 1]

(* The bits at these places of a block are each one bit of the raw buffer, no *)
(* two the same, and together all bits of the given bytes.                    *)
Exhausts(places, bytes) ==
    /\ \A bit \in places : Cardinality(bit) = 1
    /\ UNION places = bytes \X (0 .. 7)

HeaderBytes == IF kind = "Q8" THEN 2 ELSE 16
QuantWidth == CASE kind = "Q8" -> 8 [] kind = "Q4K" -> 4 [] kind = "Q5K" -> 5

QuantsOf(b) ==
    {Value(b, e).quant[k] : e \in 0 .. ElementsOf(kind) - 1, k \in 0 .. QuantWidth - 1}

FactorsOf(b) ==
    LET by(j) == Value(b, 32 * j).by
    IN  {by(j).scale[k] : j \in 0 .. 7, k \in 0 .. 5}
           \cup {by(j).min[k] : j \in 0 .. 7, k \in 0 .. 5}

(* Within a block every bit of the packed scales and minima serves exactly    *)
(* one bit of one of them, and every bit of the quants exactly one bit of one *)
(* element: none is lost, shared, or or-ed with another.                      *)
EveryBitServesOnce ==
    call = "returned" =>
        \A b \in Blocks :
            LET start == b * BlockBytesOf[kind]
            IN  /\ Cardinality(QuantsOf(b)) = ElementsOf(kind) * QuantWidth
                /\ Exhausts(QuantsOf(b), start + HeaderBytes .. start + BlockBytesOf[kind] - 1)
                /\ kind # "Q8" => /\ Cardinality(FactorsOf(b)) = 8 * 2 * 6
                                  /\ Exhausts(FactorsOf(b), start + 4 .. start + 15)

(* The format: where the file holds bit k of what the formula of element e of *)
(* block b takes. Scales and minima of the sub-blocks from the fifth on are   *)
(* split: four bits in the last four bytes, two on top of the first eight.    *)
ScaleBit(s, j, k) ==
    IF j < 4 THEN {<<s + j, k>>}
    ELSE IF k < 4 THEN {<<s + j + 4, k>>} ELSE {<<s + j - 4, k + 2>>}

MinBit(s, j, k) ==
    IF j < 4 THEN {<<s + j + 4, k>>}
    ELSE IF k < 4 THEN {<<s + j + 4, k + 4>>} ELSE {<<s + j, k + 2>>}

QuantBit(q, h, e, k) ==
    IF k = 4 THEN {<<h + (e % 32), e \div 32>>}
    ELSE {<<q + 32 * (e \div 64) + (e % 32), k + 4 * ((e \div 32) % 2)>>}

(* v is made of what the format gives element e of block b.                   *)
OfFormat(v, b, e) ==
    LET start == b * BlockBytesOf[kind]
        j == e \div 32
        q == start + BlockBytesOf[kind] - 128
    IN  /\ v.d = <<start, start + 1>>
        /\ kind = "Q8" => v.quant = RawByte(start + 2 + e)
        /\ kind # "Q8" =>
              /\ v.dmin = <<start + 2, start + 3>>
              /\ \A k \in 0 .. 7 :
                    /\ v.by.scale[k] = IF k < 6 THEN ScaleBit(start + 4, j, k) ELSE {}
                    /\ v.by.min[k] = IF k < 6 THEN MinBit(start + 4, j, k) ELSE {}
                    /\ v.quant[k] = IF k < 4 \/ (k = 4 /\ kind = "Q5K")
                                    THEN QuantBit(q, start + 16, e, k) ELSE {}

(* Whole blocks, and nothing else, are turned into their elements in order,   *)
(* each from its own block, sub-block and nibble, whatever the loop counters  *)
(* and shifting masks did on the way.                                         *)
FollowsFormat ==
    call = "returned" =>
        /\ Len(out) = (length \div BlockBytesOf[kind]) * ElementsOf(kind)
        /\ \A b \in Blocks, e \in 0 .. ElementsOf(kind) - 1 : OfFormat(Value(b, e), b, e)
=============================================================================
