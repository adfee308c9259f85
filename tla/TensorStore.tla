----------------------------- MODULE TensorStore -----------------------------
(* What a payload source promises its callers while the file underneath may   *)
(* be replaced: every call is answered with an error or with the requested    *)
(* tensor, element for element, out of the contents that were on the path     *)
(* while the call was pending: out of one of them (Atomic), or only out of    *)
(* them together. Elements are addressed by their GGUF coordinates (ne[]      *)
(* order); no byte is ever moved here.                                        *)
EXTENDS Integers, Sequences

CONSTANTS
    Readers,
    Nothing,                \* no content, no request, no answer
    Atomic,                 \* an answer is of one content, not of several
    IsElement(_, _, _, _)   \* cell, contents, stored tensor, <<element, byte>>

VARIABLES
    asked,      \* by reader: the stored tensors its request names, or Nothing
    window,     \* by reader: the contents on disk since it asked
    answer,     \* by reader: Nothing, "error", or the bytes
    current     \* the content on disk

vars == <<asked, window, answer, current>>

(* The buffer has the tensor's elements in the order of its declared shape:   *)
(* ne[] order for a projection (flipped), stored order for every other, which *)
(* is as long as the bytes its range holds.                                   *)
IsView(buf, contents, t) ==
    LET n == t.ne[1]
    IN  IF ~t.flipped
        THEN /\ DOMAIN buf = 0 .. t.length - 1
             /\ \A k \in DOMAIN buf :
                    IsElement(buf[k], contents, t, <<k \div t.width, k % t.width>>)
        ELSE /\ DOMAIN buf = 0 .. n * t.ne[2] * t.width - 1
             /\ \A i \in 0 .. n - 1, j \in 0 .. t.ne[2] - 1, b \in 0 .. t.width - 1 :
                    IsElement(buf[(i * t.ne[2] + j) * t.width + b], contents, t,
                              <<j * n + i, b>>)

Init ==
    /\ asked = [r \in Readers |-> Nothing]
    /\ window = [r \in Readers |-> {}]
    /\ answer = [r \in Readers |-> Nothing]

(* Whatever the request, it is known from here on what it names.              *)
Ask(r) ==
    /\ asked[r] = Nothing
    /\ asked'[r] # Nothing
    /\ asked' = [asked EXCEPT ![r] = asked'[r]]
    /\ window' = [window EXCEPT ![r] = {current}]
    /\ answer' = [answer EXCEPT ![r] = Nothing]
    /\ UNCHANGED current

Versions(r) ==
    LET contents == window[r] \ {Nothing}
    IN  IF Atomic THEN {{c} : c \in contents} ELSE {contents}

Answer(r) ==
    /\ asked[r] # Nothing
    /\ asked' = [asked EXCEPT ![r] = Nothing]
    /\ answer' = [answer EXCEPT ![r] = answer'[r]]
    /\ \/ answer'[r].error # Nothing
       \/ \E v \in Versions(r), t \in asked[r] : IsView(answer'[r].bytes, v, t)
    /\ UNCHANGED <<window, current>>

Change ==
    /\ window' = [r \in Readers |->
                    IF asked[r] = Nothing THEN window[r] ELSE window[r] \cup {current'}]
    /\ UNCHANGED <<asked, answer>>

Next == Change \/ \E r \in Readers : Ask(r) \/ Answer(r)

Spec == Init /\ [][Next]_vars
=============================================================================
