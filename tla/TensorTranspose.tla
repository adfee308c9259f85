--------------------------- MODULE TensorTranspose ---------------------------
(* What weight_layout.rs promises of the bytes it hands over for a projection *)
(* (and derived_lm_head.rs for a tied head): in one step, either a refusal    *)
(* because the payload is not a rows x cols matrix, or a permutation of the   *)
(* payload in which element (i, j) of the stored matrix is element (j, i).    *)
EXTENDS Integers

CONSTANT Zeroed

VARIABLES len, rows, cols, width, outcome, answer

args == <<len, rows, cols, width>>

(* buf[k] is the index of the payload byte that the answer has at index k.    *)
IsTranspose(buf) ==
    /\ DOMAIN buf = 0 .. len - 1
    /\ \A i \in 0 .. rows - 1, j \in 0 .. cols - 1, b \in 0 .. width - 1 :
          buf[(j * rows + i) * width + b] = (i * cols + j) * width + b
    /\ \A k \in 0 .. len - 1 : buf[k] # Zeroed

Init == outcome = "pending"

Refuse ==
    /\ outcome = "pending"
    /\ len # rows * cols * width
    /\ outcome' = "refused"
    /\ UNCHANGED <<args, answer>>

Return ==
    /\ outcome = "pending"
    /\ len = rows * cols * width
    /\ outcome' = "returned"
    /\ IsTranspose(answer')
    /\ UNCHANGED args

Spec == Init /\ [][Refuse \/ Return]_<<args, outcome, answer>>
=============================================================================
