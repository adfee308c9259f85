------------------------------- MODULE Naming -------------------------------
(* naming.rs and weight_layout.rs: the translation of a GGUF tensor name into *)
(* the canonical name the Qwen Component asks for. A name is the sequence of  *)
(* its dot-separated components: blk.0.attn_q.weight is                       *)
(* <<"blk", "0", "attn_q", "weight">>.                                        *)
EXTENDS Naturals, Sequences

CONSTANT LayerIndices    \* the components that parse as a u64 ("0", "00", ...)

(* The per-layer fields, and what they are called canonically.                *)
MutantLayerField ==
    [attn_norm |-> <<"input_norm">>,          ffn_norm |-> <<"post_attn_norm">>,
     attn_q    |-> <<"self_attn", "q_proj">>, attn_k   |-> <<"self_attn", "k_proj">>,
     attn_v    |-> <<"self_attn", "v_proj">>, attn_output |-> <<"self_attn", "o_proj">>,
     ffn_gate  |-> <<"mlp", "gate_proj">>,    ffn_up   |-> <<"mlp", "gate_proj">>,
     ffn_down  |-> <<"mlp", "down_proj">>]

LayerField ==
    [attn_norm |-> <<"input_norm">>,          ffn_norm |-> <<"post_attn_norm">>,
     attn_q    |-> <<"self_attn", "q_proj">>, attn_k   |-> <<"self_attn", "k_proj">>,
     attn_v    |-> <<"self_attn", "v_proj">>, attn_output |-> <<"self_attn", "o_proj">>,
     ffn_gate  |-> <<"mlp", "gate_proj">>,    ffn_up   |-> <<"mlp", "up_proj">>,
     ffn_down  |-> <<"mlp", "down_proj">>]

BiasField ==
    [attn_q |-> <<"self_attn", "q_bias">>,
     attn_k |-> <<"self_attn", "k_bias">>,
     attn_v |-> <<"self_attn", "v_bias">>]

GlobalName ==
    [token_embd  |-> <<"token_embedding">>,
     output_norm |-> <<"final_norm">>,
     output      |-> <<"lm_head">>]

HasSuffix(raw, suffix) == Len(raw) > 1 /\ raw[Len(raw)] = suffix

(* blk.<index>.<field>.<suffix> with a field of the given table.              *)
IsLayerName(raw, suffix, table) ==
    /\ HasSuffix(raw, suffix)
    /\ Len(raw) = 4
    /\ raw[1] = "blk"
    /\ raw[2] \in LayerIndices
    /\ raw[3] \in DOMAIN table

IsGlobalName(raw) ==
    /\ HasSuffix(raw, "weight")
    /\ Len(raw) = 2
    /\ raw[1] \in DOMAIN GlobalName

IsRecognized(raw) ==
    \/ IsLayerName(raw, "bias", BiasField)
    \/ IsLayerName(raw, "weight", LayerField)
    \/ IsGlobalName(raw)

(* The canonical name of a recognized name.                                   *)
Canonical(raw) ==
    IF IsGlobalName(raw) THEN GlobalName[raw[1]]
    ELSE <<"layers", raw[2]>>
            \o (IF HasSuffix(raw, "bias") THEN BiasField ELSE LayerField)[raw[3]]

(* Which error an unrecognized name is refused with.                          *)
NameError(raw) ==
    IF HasSuffix(raw, "bias") THEN "UnsupportedFormat" ELSE "MalformedMetadata"

TOKEN_EMBEDDING == <<"token_embedding">>
LM_HEAD == <<"lm_head">>

(* A component that contains the substring "proj" (no index does).            *)
ProjectionFields ==
    {"q_proj", "k_proj", "v_proj", "o_proj", "gate_proj", "up_proj", "down_proj"}

IsTransposedProjection(name) ==
    name = LM_HEAD \/ name[Len(name)] \in ProjectionFields

EndsWithQBias(name) ==
    Len(name) > 1 /\ SubSeq(name, Len(name) - 1, Len(name)) = <<"self_attn", "q_bias">>
=============================================================================
