----------------------------- MODULE SampleFiles -----------------------------
(* Small GGUF files for the model checker: contents as the external parser    *)
(* reports them. Sizes are scaled: an F32 element has 2 bytes, an F16 one 1,  *)
(* a Q8 block 2 elements in 3 bytes, a Q4K block 4 in 2, a Q5K block 4 in 3.  *)
EXTENDS Naturals, Sequences, TLC

CONSTANT None

SampleWidth == [F32 |-> 2, F16 |-> 1]
SampleBlockElements == [Q8 |-> 2, Q4K |-> 4, Q5K |-> 4]
SampleBlockBytes == [Q8 |-> 3, Q4K |-> 2, Q5K |-> 3]
SampleMaxU32 == 7
SampleMaxU64 == 63

U32(v) == [type |-> "UInt32", value |-> v]
U64(v) == [type |-> "UInt64", value |-> v]
Str(v) == [type |-> "String", value |-> v]

Meta ==
    [architecture |-> Str("qwen2"), embedding_length |-> U32(2),
     feed_forward_length |-> U32(3), block_count |-> U32(1), head_count |-> U64(1),
     eos_token_id |-> U64(9), chat_template |-> Str("template")]

LlamaMeta == [Meta EXCEPT !.architecture = Str("llama")]
ZeroMeta == [Meta EXCEPT !.block_count = U32(0)]

(* Every content's tensor data begins at byte 1.                              *)
DataStart == 1

Tensor(name, ne, dtype, offset, size, digest) ==
    [name |-> name, ne |-> ne, dtype |-> dtype, offset |-> offset, size |-> size,
     digest |-> digest]

File(id, meta, length, tensors) ==
    [id |-> id, parses |-> TRUE, meta |-> meta, data_start |-> DataStart,
     length |-> length, tensors |-> tensors]

(* The digest of the raw bytes of a range, which stands for those bytes.      *)
DigestOf(id, offset, size) == [k \in 0 .. size - 1 |-> <<id, DataStart + offset + k>>]

Embd == <<"token_embd", "weight">>
Output == <<"output", "weight">>
Weight(field) == <<"blk", "0", field, "weight">>
Bias(field) == <<"blk", "0", field, "bias">>

(* A tied model, with digests; ids let two files share the layout.            *)
TiedTensors(id) ==
    << Tensor(Embd, <<2, 3>>, "F32", 0, 12, DigestOf(id, 0, 12)),
       Tensor(Weight("attn_q"), <<2, 3>>, "F16", 12, 6, DigestOf(id, 12, 6)),
       Tensor(Bias("attn_q"), <<3>>, "F16", 18, 3, None) >>
Tied(id) == File(id, Meta, 22, TiedTensors(id))

(* A model with a head of its own, quantized, and a bias on k alone.          *)
Untied ==
    File("untied", Meta, 30,
        << Tensor(Bias("attn_k"), <<2>>, "F16", 0, 2, None),
           Tensor(Embd, <<4, 2>>, "Q4K", 2, 4, None),
           Tensor(Output, <<2, 3>>, "Q8", 6, 9, None),
           Tensor(Weight("ffn_up"), <<3, 1>>, "F32", 15, 6, None),
           Tensor(Weight("ffn_gate"), <<1, 3>>, "F32", 21, 6, None) >>)

FlatEmbedding ==
    File("flat", Meta, 8, << Tensor(Embd, <<3>>, "F32", 0, 6, None) >>)

(* The same name twice, stored apart; and twice with the same range.          *)
Duplicate ==
    File("duplicate", Meta, 20,
        << Tensor(Embd, <<2, 1>>, "F16", 0, 2, None),
           Tensor(Weight("attn_q"), <<2, 3>>, "F16", 2, 6, None),
           Tensor(Weight("attn_q"), <<1, 3>>, "F16", 8, 3, None),
           Tensor(Weight("attn_k"), <<2, 3>>, "F16", 11, 6, None),
           Tensor(Weight("attn_k"), <<3, 2>>, "F16", 11, 6, None) >>)

(* A range that does not hold the declared elements, one that starts past the *)
(* largest offset, and one that runs past the end of the file.                *)
Inconsistent ==
    File("inconsistent", Meta, 12,
        << Tensor(Embd, <<2, 3>>, "F16", 0, 5, None),
           Tensor(Weight("attn_v"), <<2, 1>>, "F16", 63, 2, None),
           Tensor(Weight("attn_output"), <<2, 2>>, "Q5K", 9, 3, None) >>)

OneTensor(id, tensor) == File(id, Meta, 10, << tensor >>)

Malformed ==
    [OneTensor("malformed", Tensor(Embd, <<2>>, "F16", 0, 2, None)) EXCEPT !.parses = FALSE]

Refused ==
    { File("empty", Meta, 10, <<>>),
      File("llama", LlamaMeta, 10, << Tensor(Embd, <<2, 3>>, "F16", 0, 6, None) >>),
      File("zero", ZeroMeta, 10, << Tensor(Embd, <<2, 3>>, "F16", 0, 6, None) >>),
      OneTensor("no embedding", Tensor(Weight("attn_norm"), <<2>>, "F16", 0, 2, None)),
      OneTensor("scalar embedding", Tensor(Embd, <<>>, "F16", 0, 1, None)),
      OneTensor("no rows", Tensor(Embd, <<2, 0>>, "F16", 0, 0, None)),
      OneTensor("no range", Tensor(Embd, <<2, 3>>, "F16", 0, None, None)),
      OneTensor("part of a block", Tensor(Embd, <<3>>, "Q8", 0, 3, None)),
      OneTensor("too many elements", Tensor(Embd, <<8, 8>>, "Q4K", 0, 9, None)),
      OneTensor("too many bytes", Tensor(Embd, <<8, 4>>, "Q4K", 0, 9, None)),
      OneTensor("unknown name", Tensor(<<"blk", "x", "attn_q", "weight">>, <<2>>, "F16", 0, 2, None)),
      OneTensor("unknown bias", Tensor(Bias("ffn_up"), <<2>>, "F16", 0, 2, None)),
      Malformed }

-----------------------------------------------------------------------------
(* Models of three rows, or the given number, that embed a vocabulary.        *)
Strings(texts) ==
    [type |-> "Array", value |-> [i \in DOMAIN texts |-> Str(texts[i])]]

Vocabulary(texts, eos, bos) ==
    [Meta EXCEPT !.eos_token_id = eos]
        @@ [model |-> Str("gpt2"), tokens |-> Strings(texts), merges |-> Strings(<<>>),
            bos_token_id |-> bos,
            token_type |-> [type |-> "Array", value |-> <<[type |-> "Int32", value |-> 3]>>]]

Embedding(id, rows, meta) ==
    File(id, meta, 8, << Tensor(Embd, <<2, rows>>, "F16", 0, 2 * rows, None) >>)

(* Fewer tokens than rows; one id for both ends; an end no token has, and a   *)
(* template that is no text; an end too wide; more tokens than rows; a        *)
(* vocabulary of another kind; and none at all.                               *)
WithVocabulary ==
    { Embedding("padded", 3, Vocabulary(<<"a", "b">>, U32(1), U64(0))),
      Embedding("same", 3, Vocabulary(<<"a", "b", "a">>, U32(2), U32(2))),
      Embedding("outside", 3, [Vocabulary(<<"a", "b">>, U32(5), U32(1))
                                EXCEPT !.chat_template = U32(1)]),
      Embedding("wide", 2, Vocabulary(<<"a", "b">>, U64(8), U64(0))),
      Embedding("many", 3, Vocabulary(<<"a", "b", "c", "d">>, U32(3), U32(0))),
      Embedding("llama", 3, [Vocabulary(<<"a">>, U32(0), U32(0)) EXCEPT !.model = Str("llama")]),
      Embedding("none", 3, Meta) }
=============================================================================
