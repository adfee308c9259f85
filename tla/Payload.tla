------------------------------- MODULE Payload -------------------------------
(* weights.rs, weight_layout.rs and derived_lm_head.rs as functions: what is  *)
(* recorded about one tensor when the file is parsed, and what is done to the *)
(* bytes when they are read. A buffer is a function from 0 .. length - 1 to   *)
(* opaque bytes; the dequantized byte b of element e of a block is a term.    *)
EXTENDS Naming, RowMajor, RustValues, SequencesExt

CONSTANTS
    Width,          \* bytes of an element, by storage type
    BlockElements,  \* elements of a block, by quantized storage type
    BlockBytes      \* bytes of a block, by quantized storage type

ASSUME WidthAssumption == "F32" \in DOMAIN Width

Quantized == {"Q8", "Q4K", "Q5K"}

element_count(shape) == FoldLeft(CheckedMul, 1, shape)

(* GGUF's ne[] lists the fastest-varying dimension first; the inventory's     *)
(* shape is row-major.                                                        *)
MutantShape(t) == t.ne
Shape(t) == Reverse(t.ne)

DequantizedLength(t) == CheckedMul(element_count(Shape(t)), Width["F32"])

MissingRange(t) == t.offset = Absent \/ t.size = Absent

BadBlocks(t) ==
    /\ t.dtype \in Quantized
    /\ \/ element_count(Shape(t)) = Absent
       \/ element_count(Shape(t)) % BlockElements[t.dtype] # 0
       \/ DequantizedLength(t) = Absent

MutantIsAccepted(t) == ~BadBlocks(t) /\ IsRecognized(t.name)

(* Discovery takes a parsed tensor into the inventory, or refuses the file.   *)
IsAccepted(t) == ~MissingRange(t) /\ ~BadBlocks(t) /\ IsRecognized(t.name)

(* Why it refuses, in the order of the code.                                  *)
TensorError(t) ==
    IF MissingRange(t) \/ BadBlocks(t) THEN "MalformedMetadata" ELSE NameError(t.name)

DeclaredLength(t) == IF t.dtype \in Quantized THEN DequantizedLength(t) ELSE t.size

(* The inventory's entry for a parsed tensor: shape labels reversed, and a    *)
(* quantized tensor declared as the F32 tensor it will be read as.            *)
Entry(t) ==
    [name   |-> Canonical(t.name),
     shape  |-> Shape(t),
     dtype  |-> IF t.dtype \in Quantized THEN "F32" ELSE t.dtype,
     offset |-> t.offset,
     size   |-> DeclaredLength(t),
     digest |-> IF t.dtype \in Quantized THEN Absent ELSE t.digest]

MutantLocationStored(t) ==
    [offset |-> t.offset, length |-> t.size, declared |-> t.size,
     source |-> IF t.dtype \in Quantized THEN t.dtype ELSE "Plain"]

MutantLocationDeclared(t) ==
    [offset |-> t.offset, length |-> DeclaredLength(t), declared |-> DeclaredLength(t),
     source |-> IF t.dtype \in Quantized THEN t.dtype ELSE "Plain"]

Location(t) ==
    [offset   |-> t.offset,
     length   |-> t.size,
     declared |-> DeclaredLength(t),
     source   |-> IF t.dtype \in Quantized THEN t.dtype ELSE "Plain"]

-----------------------------------------------------------------------------
(* A 2-D projection is declared with its sides swapped and loses its digest.  *)
IsSwapped(t) == IsTransposedProjection(t.name) /\ Len(t.shape) = 2

SwapSides(t) ==
    IF IsSwapped(t) THEN [t EXCEPT !.shape = Reverse(@), !.digest = Absent] ELSE t

(* TransposingPayloadSource::new: the stored sides of every such tensor       *)
(* (a later entry of the same name replaces an earlier one).                  *)
StoredSides(tensors) ==
    LET named(n) == {i \in DOMAIN tensors : tensors[i].name = n /\ IsSwapped(tensors[i])}
        names == {tensors[i].name : i \in {j \in DOMAIN tensors : IsSwapped(tensors[j])}}
        last(n) == tensors[CHOOSE i \in named(n) : \A j \in named(n) : j <= i]
    IN  [n \in names |-> [rows  |-> last(n).shape[1],
                          cols  |-> last(n).shape[2],
                          width |-> Width[last(n).dtype]]]

(* tensors.iter().find(|t| t.name == name)                                    *)
FirstNamed(tensors, name) ==
    LET at == SelectInSeq(tensors, LAMBDA t : t.name = name)
    IN  IF at = 0 THEN Absent ELSE tensors[at]

SyntheticLmHead(embedding) ==
    [embedding EXCEPT !.name = LM_HEAD, !.shape = Reverse(@), !.digest = Absent]

(* The range a caller asks for, made from a manifest entry.                   *)
RangeOf(t) ==
    [identity |-> t.name, offset |-> t.offset, length |-> t.size, digest |-> t.digest]

(* DerivedLmHeadPayloadSource::new                                            *)
DerivedFrom(embedding) ==
    [range |-> RangeOf(embedding),
     rows  |-> embedding.shape[1],
     cols  |-> embedding.shape[2],
     width |-> Width[embedding.dtype]]

-----------------------------------------------------------------------------
(* The bytes of a content are distinct from each other's and from every other *)
(* content's, so a buffer shows where each of its bytes was read.             *)
Byte(content, position) == <<content.id, position>>

Length(buf) == Cardinality(DOMAIN buf)

(* Whole blocks only: a remainder is dropped.                                 *)
Dequantized(raw, kind) ==
    LET blocks == Length(raw) \div BlockBytes[kind]
        w == Width["F32"]
        term(k) ==
            LET e == k \div w
                first == (e \div BlockElements[kind]) * BlockBytes[kind]
            IN  <<kind, [b \in 0 .. BlockBytes[kind] - 1 |-> raw[first + b]],
                  e % BlockElements[kind], k % w>>
    IN  [k \in 0 .. blocks * BlockElements[kind] * w - 1 |-> term(k)]

(* What read_payload of GgufPayloadSource makes of the raw bytes.             *)
Convert(raw, source) == IF source = "Plain" THEN raw ELSE Dequantized(raw, source)

(* The check before a transposition; a count over MaxU64 is an error too.     *)
IsMatrix(buf, sides) ==
    /\ CheckedMul(sides.rows, sides.cols) # Absent
    /\ Length(buf) = SaturatingMul(sides.rows * sides.cols, sides.width)

TransposedBy(buf, sides) == Transposed(buf, sides.rows, sides.cols, sides.width)
=============================================================================
