----------------------------- MODULE MCNormalize -----------------------------
(* Every combination of present, absent, zero, small and too wide values of   *)
(* the keys normalize reads, in the types it accepts and in one it does not.  *)
EXTENDS Normalize

U32(v) == [type |-> "UInt32", value |-> v]
U64(v) == [type |-> "UInt64", value |-> v]
Str(v) == [type |-> "String", value |-> v]
F32(v) == [type |-> "Float32", value |-> v]

MCMaxU32 == 7
MCMaxU64 == 63
MCVocabSizes == {0, 3}

Present(values) == {k \in DOMAIN values : values[k] # Absent}

MCMetadata ==
    {[k \in Present(m) |-> m[k]] : m \in
        [architecture        : {Absent, Str("qwen2"), Str("llama")},
         embedding_length    : {Absent, U32(0), U32(3), U64(6)},
         feed_forward_length : {U32(0), U64(8)},
         block_count         : {U32(1), U64(8)},
         head_count          : {U32(0), U64(2), U32(3), U64(8)},
         head_count_kv       : {Absent, U32(0), U32(1), U32(2), U64(8)},
         key_length          : {Absent, U32(0), U32(5)},
         freq_base           : {Absent, F32("nonpositive"), F32("nan")},
         bos_token_id        : {Absent, U64(9), Str("9")},
         eos_token_id        : {U32(2), U64(7)}]}
=============================================================================
