------------------------------ MODULE RowMajor ------------------------------
(* Row-major addressing of a matrix of fixed-width elements: the index        *)
(* arithmetic that weight_layout.rs and derived_lm_head.rs share.             *)
EXTENDS Integers

(* The first byte of element (i, j) of a matrix with n columns whose elements *)
(* are w bytes wide: (i * n + j) * w.                                         *)
Offset(i, j, n, w) == (i * n + j) * w

(* The element (row, col) of the stored rows x cols matrix is copied from     *)
(* SourceOffset to DestOffset; the destination has `rows` columns.            *)
SourceOffset(row, col, rows, cols, w) == Offset(row, col, cols, w)

MutantDestUnswapped(row, col, rows, cols, w) == Offset(row, col, cols, w)
MutantDestWrongStride(row, col, rows, cols, w) == Offset(col, row, cols, w)
MutantDestWithoutRow(row, col, rows, cols, w) == Offset(col, 0, rows, w)
DestOffset(row, col, rows, cols, w) == Offset(col, row, rows, w)

(* The same copy seen from the destination: which source byte ends up at      *)
(* destination byte k of the transposed rows x cols matrix.                   *)
SourceOfByte(k, rows, cols, w) ==
    LET e == k \div w
    IN  SourceOffset(e % rows, e \div rows, rows, cols, w) + (k % w)

(* A whole buffer (a function from 0 .. length - 1) after the copy loop.      *)
Transposed(buf, rows, cols, w) ==
    [k \in DOMAIN buf |-> buf[SourceOfByte(k, rows, cols, w)]]
=============================================================================
