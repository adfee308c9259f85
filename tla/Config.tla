------------------------------- MODULE Config -------------------------------
(* config.rs: the key-value metadata of a GGUF file, normalized into the      *)
(* architecture configuration of the manifest. Metadata is a function from    *)
(* the keys the file declares to typed values [type, value].                  *)
EXTENDS RustValues

(* A metadata value is read only through the types its reader accepts.        *)
ValueOf(meta, key, types) ==
    IF key \in DOMAIN meta /\ meta[key].type \in types THEN meta[key].value ELSE Absent

uint_value(meta, key) == ValueOf(meta, key, {"UInt32", "UInt64"})
float_value(meta, key) == ValueOf(meta, key, {"Float32", "Float64"})
string_value(meta, key) == ValueOf(meta, key, {"String"})

FitsU32(value) == value # Absent /\ value <= MaxU32

MutantTokenId(meta, key) ==
    LET id == uint_value(meta, key) IN IF id = Absent THEN Absent ELSE id % (MaxU32 + 1)

(* u32::try_from(value).ok(): a value that does not fit becomes None.         *)
TokenId(meta, key) ==
    LET id == uint_value(meta, key) IN IF FitsU32(id) THEN id ELSE Absent

HeadCount(meta) == uint_value(meta, "head_count")

KvHeadCount(meta) == OrElse(uint_value(meta, "head_count_kv"), HeadCount(meta))

(* A declared key_length is taken as it is; only a derived one must divide.   *)
HeadDim(meta) ==
    OrElse(uint_value(meta, "key_length"),
           uint_value(meta, "embedding_length") \div HeadCount(meta))

HeadDimDefined(meta) ==
    \/ uint_value(meta, "key_length") # Absent
    \/ uint_value(meta, "embedding_length") % HeadCount(meta) = 0

(* rope_theta is one of the classes of f64 the comparison with 0.0 separates: *)
(* "positive" (the default, 10000, is one), "nonpositive" and "nan": NaN       *)
(* passes the check, NaN <= 0.0 being false.                                  *)
RopeTheta(meta) == OrElse(float_value(meta, "freq_base"), "positive")

(* Every check normalize makes before it builds the configuration, in the     *)
(* order it makes them, up to the external validate().                        *)
RequiredKeysPresent(meta) ==
    /\ uint_value(meta, "embedding_length") # Absent
    /\ uint_value(meta, "feed_forward_length") # Absent
    /\ FitsU32(uint_value(meta, "block_count"))
    /\ FitsU32(HeadCount(meta))
    /\ FitsU32(KvHeadCount(meta))

NothingIsZero(meta, vocab_size) ==
    /\ uint_value(meta, "embedding_length") # 0
    /\ uint_value(meta, "feed_forward_length") # 0
    /\ vocab_size # 0
    /\ uint_value(meta, "block_count") # 0
    /\ HeadCount(meta) # 0
    /\ KvHeadCount(meta) # 0

IsQwen2(meta) == string_value(meta, "architecture") = "qwen2"

MutantAccepts(meta, vocab_size) ==
    /\ IsQwen2(meta)
    /\ RequiredKeysPresent(meta)
    /\ NothingIsZero(meta, vocab_size)
    /\ HeadDimDefined(meta)
    /\ HeadDim(meta) # 0
    /\ RopeTheta(meta) # "nonpositive"

Accepts(meta, vocab_size) ==
    /\ IsQwen2(meta)
    /\ RequiredKeysPresent(meta)
    /\ NothingIsZero(meta, vocab_size)
    /\ HeadCount(meta) % KvHeadCount(meta) = 0
    /\ HeadDimDefined(meta)
    /\ HeadDim(meta) # 0
    /\ RopeTheta(meta) # "nonpositive"

ConfigError(meta) ==
    IF string_value(meta, "architecture") \notin {Absent, "qwen2"}
    THEN "UnsupportedFormat" ELSE "MalformedMetadata"

(* The configuration of accepted metadata; tie_word_embeddings and            *)
(* attention_bias are for the caller to set.                                  *)
Normalized(meta, vocab_size) ==
    [hidden_size          |-> uint_value(meta, "embedding_length"),
     intermediate_size    |-> uint_value(meta, "feed_forward_length"),
     num_hidden_layers    |-> uint_value(meta, "block_count"),
     num_attention_heads  |-> HeadCount(meta),
     num_key_value_heads  |-> KvHeadCount(meta),
     head_dim             |-> HeadDim(meta),
     vocab_size           |-> vocab_size,
     rope_theta           |-> RopeTheta(meta),
     tie_word_embeddings  |-> FALSE,
     attention_bias       |-> FALSE,
     bos_token_id         |-> TokenId(meta, "bos_token_id"),
     eos_token_id         |-> TokenId(meta, "eos_token_id")]
=============================================================================
