----------------------------- MODULE RustValues -----------------------------
(* Option, checked arithmetic and maps, as the loader's modules use them.     *)
EXTENDS Integers

CONSTANTS
    Absent,     \* None
    MaxU32,     \* the largest u32 (scaled down)
    MaxU64      \* the largest u64 (scaled down)

ASSUME AbsentAssumption == Absent \notin Int
ASSUME WordAssumption == MaxU32 \in Nat /\ MaxU64 \in Nat /\ MaxU32 < MaxU64

(* unwrap_or *)
OrElse(value, default) == IF value = Absent THEN default ELSE value

(* checked_mul on u64; an overflow met earlier stays one (try_fold).          *)
CheckedMul(a, b) == IF a = Absent THEN Absent ELSE IF a * b > MaxU64 THEN Absent ELSE a * b

SaturatingMul(a, b) == IF a * b > MaxU64 THEN MaxU64 ELSE a * b

CheckedAdd(a, b) == IF a + b > MaxU64 THEN Absent ELSE a + b

(* BTreeMap::insert *)
Insert(map, key, value) ==
    [k \in DOMAIN map \cup {key} |-> IF k = key THEN value ELSE map[k]]
=============================================================================
