------------------------------ MODULE Transpose ------------------------------
(* The checks and the copy loop that turn a fetched payload into its          *)
(* transpose, one loop step at a time. weight_layout.rs and                   *)
(* derived_lm_head.rs hold the same code (the second names the sides          *)
(* vocab_size and hidden_size).                                               *)
EXTENDS RowMajor

CONSTANTS
    Sides,      \* the values a declared side of the matrix may take (zero too)
    Widths,     \* the element widths of the storage types
    MaxLength,  \* no Vec<u8> is longer than this
    MaxU64,     \* the largest u64
    Zeroed      \* what a byte of vec![0u8; n] holds before it is written

ASSUME SidesAssumption == Sides \subseteq Nat
ASSUME WidthsAssumption == Widths \subseteq Nat \ {0}
ASSUME LengthAssumption == MaxLength \in Nat /\ MaxU64 \in Nat /\ MaxLength < MaxU64
ASSUME ZeroedAssumption == Zeroed \notin Nat

VARIABLES
    phase,              \* where read_payload stands
    len,                \* bytes.len(): what the inner source returned
    rows, cols, width,  \* out_features, in_features, element_bytes
    row, col,           \* the two loop counters
    dest                \* transposed: each byte holds the index of its source byte

args == <<len, rows, cols, width>>
vars == <<phase, len, rows, cols, width, row, col, dest>>

SaturatingMul(a, b) == IF a * b > MaxU64 THEN MaxU64 ELSE a * b

(* The inner source has answered with any number of bytes, for a matrix of    *)
(* any declared sides.                                                        *)
Init ==
    /\ phase = "fetched"
    /\ len \in 0 .. MaxLength
    /\ rows \in Sides
    /\ cols \in Sides
    /\ width \in Widths
    /\ row = 0
    /\ col = 0
    /\ dest = [k \in {} |-> Zeroed]

ElementCountOverflows == rows * cols > MaxU64

LengthMatches == len = SaturatingMul(rows * cols, width)

Refuse ==
    /\ phase = "fetched"
    /\ ElementCountOverflows \/ ~LengthMatches
    /\ phase' = "refused"
    /\ UNCHANGED <<args, row, col, dest>>

MutantAllocate ==
    /\ phase = "fetched"
    /\ ~ElementCountOverflows /\ LengthMatches
    /\ phase' = "copying"
    /\ dest' = [k \in 0 .. rows * cols - 1 |-> Zeroed]
    /\ UNCHANGED <<args, row, col>>

Allocate ==
    /\ phase = "fetched"
    /\ ~ElementCountOverflows /\ LengthMatches
    /\ phase' = "copying"
    /\ dest' = [k \in 0 .. len - 1 |-> Zeroed]
    /\ UNCHANGED <<args, row, col>>

InRange(offset) == offset + width <= len

(* copy_from_slice of one element; a slice out of range panics.               *)
CopyElement ==
    /\ phase = "copying"
    /\ row < rows
    /\ col < cols
    /\ LET s == SourceOffset(row, col, rows, cols, width)
           d == DestOffset(row, col, rows, cols, width)
       IN  IF InRange(s) /\ InRange(d)
           THEN /\ dest' = [k \in DOMAIN dest |->
                              IF k \in d .. d + width - 1 THEN s + (k - d) ELSE dest[k]]
                /\ col' = col + 1
                /\ UNCHANGED phase
           ELSE /\ phase' = "panicked"
                /\ UNCHANGED <<col, dest>>
    /\ UNCHANGED <<args, row>>

MutantNextRowStuck ==
    /\ phase = "copying"
    /\ row < rows
    /\ col = cols
    /\ row' = row
    /\ col' = 0
    /\ UNCHANGED <<args, phase, dest>>

NextRow ==
    /\ phase = "copying"
    /\ row < rows
    /\ col = cols
    /\ row' = row + 1
    /\ col' = 0
    /\ UNCHANGED <<args, phase, dest>>

MutantReturnEarly ==
    /\ phase = "copying"
    /\ row >= rows - 1
    /\ phase' = "returned"
    /\ UNCHANGED <<args, row, col, dest>>

Return ==
    /\ phase = "copying"
    /\ row = rows
    /\ phase' = "returned"
    /\ UNCHANGED <<args, row, col, dest>>

Next == Refuse \/ Allocate \/ CopyElement \/ NextRow \/ Return

(* The loop runs on the caller's thread to its end.                           *)
Spec == Init /\ [][Next]_vars /\ WF_vars(Next)

-----------------------------------------------------------------------------
(* The counters and the buffer stay inside what the declared sides and the    *)
(* payload's length allow.                                                    *)
TypeOK ==
    /\ phase \in {"fetched", "refused", "copying", "returned", "panicked"}
    /\ len \in 0 .. MaxLength
    /\ rows \in Sides
    /\ cols \in Sides
    /\ width \in Widths
    /\ row \in 0 .. rows
    /\ col \in 0 .. cols
    /\ DOMAIN dest \in {{}, 0 .. len - 1}
    /\ \A k \in DOMAIN dest : dest[k] \in {Zeroed} \cup 0 .. len - 1

(* No slice of the copy loop is ever out of range, for any sides (non-square, *)
(* zero) that pass the length check: read_payload does not panic.             *)
NeverPanics == phase # "panicked"

(* Distinct elements are copied to disjoint places: a byte that was written   *)
(* is never written over.                                                     *)
WritesOnce ==
    [][\A k \in DOMAIN dest : dest[k] # Zeroed => dest'[k] = dest[k]]_vars

(* The checks, the elements and the ends of rows still ahead of the call.     *)
StepsLeft ==
    CASE phase = "fetched" -> rows * (cols + 1) + 2
      [] phase = "copying" -> (rows - row) * (cols + 1) - col + 1
      [] OTHER -> 0

(* The two nested loops cannot run on for ever, whatever the sides: every     *)
(* step of read_payload brings it closer to its end.                          *)
EndsInTime == [][StepsLeft' \in Nat /\ StepsLeft' < StepsLeft]_vars

(* The loop, however many steps it takes, is one transposition.               *)
Outcome == IF phase \in {"fetched", "copying"} THEN "pending" ELSE phase

Abstract == INSTANCE TensorTranspose
                WITH outcome <- Outcome,
                     answer <- IF phase = "returned" THEN dest ELSE [k \in {} |-> Zeroed]

ImplementsTranspose == Abstract!Spec

(* Every call comes back, with bytes or with a refusal.                       *)
Terminates == <>(phase \in {"refused", "returned"})

-----------------------------------------------------------------------------
(* The closed form the other modules use is what the loop computes.           *)
MatchesClosedForm ==
    phase = "returned" =>
        \A k \in 0 .. len - 1 : dest[k] = SourceOfByte(k, rows, cols, width)
=============================================================================
