------------------------------ MODULE Normalize ------------------------------
(* One call of config::normalize, on any metadata and vocabulary size, and    *)
(* what an accepted configuration may be relied on for.                       *)
EXTENDS Config

CONSTANTS Metadata, VocabSizes      \* bounds: the inputs of the call

(* Numbers are unsigned.                                                      *)
ASSUME MetadataAssumption ==
    \A m \in Metadata : \A key \in DOMAIN m :
        m[key].type \in {"UInt32", "UInt64"} => m[key].value \in Nat

VARIABLES meta, vocab_size, outcome

vars == <<meta, vocab_size, outcome>>

Init ==
    /\ meta \in Metadata
    /\ vocab_size \in VocabSizes
    /\ outcome = Absent

Refuse ==
    /\ outcome = Absent
    /\ ~Accepts(meta, vocab_size)
    /\ outcome' = [error |-> ConfigError(meta)]
    /\ UNCHANGED <<meta, vocab_size>>

(* The external validate() may refuse what the checks accepted.               *)
RefuseInvalid ==
    /\ outcome = Absent
    /\ Accepts(meta, vocab_size)
    /\ outcome' = [error |-> "MalformedMetadata"]
    /\ UNCHANGED <<meta, vocab_size>>

Accept ==
    /\ outcome = Absent
    /\ Accepts(meta, vocab_size)
    /\ outcome' = Normalized(meta, vocab_size)
    /\ UNCHANGED <<meta, vocab_size>>

Next == Refuse \/ RefuseInvalid \/ Accept

Spec == Init /\ [][Next]_vars

Accepted == outcome # Absent /\ "error" \notin DOMAIN outcome

-----------------------------------------------------------------------------
(* The head geometry of an accepted configuration is usable: its counts are   *)
(* the numbers of the file and fit a u32 without being cut, every group of    *)
(* query heads has its key/value head, and where head_dim is derived the      *)
(* heads partition the hidden vector exactly, without a remainder.            *)
HeadsPartition ==
    Accepted =>
        /\ \A count \in {<<"block_count", outcome.num_hidden_layers>>,
                         <<"head_count", outcome.num_attention_heads>>,
                         <<"head_count_kv", outcome.num_key_value_heads>>} :
              /\ count[2] \in 1 .. MaxU32
              /\ uint_value(meta, count[1]) # Absent => count[2] = meta[count[1]].value
        /\ \E group \in 1 .. outcome.num_attention_heads :
              outcome.num_attention_heads = group * outcome.num_key_value_heads
        /\ outcome.head_dim > 0
        /\ uint_value(meta, "key_length") = Absent =>
              outcome.head_dim * outcome.num_attention_heads = outcome.hidden_size

(* A token id of the configuration is the declared one or none: an id too     *)
(* wide for u32 is dropped, never cut down to another token's id.             *)
TokenIdsAreDeclared ==
    Accepted =>
        \A id \in {<<"bos_token_id", outcome.bos_token_id>>,
                   <<"eos_token_id", outcome.eos_token_id>>} :
            /\ id[2] # Absent => id[2] = meta[id[1]].value /\ id[2] \in 0 .. MaxU32
            /\ uint_value(meta, id[1]) \in 0 .. MaxU32 => id[2] # Absent
=============================================================================
