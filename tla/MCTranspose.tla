----------------------------- MODULE MCTranspose -----------------------------
(* All matrices with sides 0 .. 4 and elements of 1 or 2 bytes, against every *)
(* payload length: square, non-square, empty and overflowing (4 x 4 > MaxU64).*)
EXTENDS Transpose

MCSides == 0 .. 4
MCWidths == {1, 2}
MCMaxLength == 14
MCMaxU64 == 15
MCZeroed == -1
=============================================================================
