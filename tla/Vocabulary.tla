----------------------------- MODULE Vocabulary -----------------------------
(* GgufTokenizer::from_gguf_metadata (tokenizer.rs): which metadata gives a   *)
(* tokenizer, and which one. A text is opaque; an entry of `merges` is the    *)
(* sequence of its space-separated parts.                                     *)
EXTENDS Config, SequencesExt

CONTROL_TOKEN_TYPE == 3

AsU32(n) == n % (MaxU32 + 1)

(* Elements of another type are passed over, and later ones move up.          *)
string_array(meta, key) ==
    LET values == ValueOf(meta, key, {"Array"})
        strings == SelectSeq(values, LAMBDA v : v.type = "String")
    IN  IF values = Absent THEN Absent ELSE [i \in DOMAIN strings |-> strings[i].value]

Tokens(meta) == string_array(meta, "tokens")
Merges(meta) == string_array(meta, "merges")

(* What the parser reports: numbers are natural, and a file lists fewer than  *)
(* 2^32 tokens.                                                               *)
IsMetadata(meta) ==
    /\ \A key \in DOMAIN meta :
          meta[key].type \in {"UInt32", "UInt64"} => meta[key].value \in Nat
    /\ Tokens(meta) # Absent =>
          Tokens(meta) \in Seq(Range(Tokens(meta))) /\ Len(Tokens(meta)) <= MaxU32

vocabulary_size(meta) == AsU32(Len(Tokens(meta)))

MutantIsBuildable(meta, expected_vocab_size) ==
    /\ string_value(meta, "model") = "gpt2"
    /\ Tokens(meta) \notin {Absent, <<>>}
    /\ Merges(meta) # Absent
    /\ \A i \in DOMAIN Merges(meta) : Len(Merges(meta)[i]) >= 2

(* Every check of this code; building the BPE model and validate() are        *)
(* external and may refuse more.                                              *)
IsBuildable(meta, expected_vocab_size) ==
    /\ string_value(meta, "model") = "gpt2"
    /\ Tokens(meta) \notin {Absent, <<>>}
    /\ Merges(meta) # Absent
    /\ expected_vocab_size # Absent => vocabulary_size(meta) <= expected_vocab_size
    /\ \A i \in DOMAIN Merges(meta) : Len(Merges(meta)[i]) >= 2

TokenizerError(meta) ==
    IF string_value(meta, "model") \notin {Absent, "gpt2"}
    THEN "UnsupportedFormat" ELSE "MalformedMetadata"

(* A map collected from the array: a repeated text keeps its last id.         *)
Vocab(tokens) ==
    [text \in Range(tokens) |-> AsU32(SelectLastInSeq(tokens, LAMBDA t : t = text) - 1)]

MutantControlTexts(meta) ==
    LET kinds == OrElse(ValueOf(meta, "token_type", {"Array"}), <<>>)
        controls == {j \in DOMAIN kinds :
                        kinds[j] = [type |-> "Int32", value |-> CONTROL_TOKEN_TYPE]}
    IN  {Tokens(meta)[j + 1] : j \in {k \in controls : k + 1 \in DOMAIN Tokens(meta)}}

(* The texts add_special_tokens is given: those of CONTROL type, the array of *)
(* types being as long or as short as it likes.                               *)
ControlTexts(meta) ==
    LET kinds == OrElse(ValueOf(meta, "token_type", {"Array"}), <<>>)
        controls == {j \in DOMAIN kinds :
                        kinds[j] = [type |-> "Int32", value |-> CONTROL_TOKEN_TYPE]}
    IN  {Tokens(meta)[j] : j \in controls \cap DOMAIN Tokens(meta)}

(* An id is claimed even when no token has it, and never given up.            *)
push_special(claims, kind, meta, key) ==
    LET id == TokenId(meta, key)
        tokens == Tokens(meta)
    IN  IF id = Absent \/ id \in claims.ids THEN claims
        ELSE [ids |-> claims.ids \cup {id},
              tokens |-> IF id >= Len(tokens) THEN claims.tokens
                         ELSE Append(claims.tokens,
                                     [kind |-> kind, text |-> tokens[id + 1], id |-> id])]

NoClaims == [ids |-> {}, tokens |-> <<>>]

MutantSpecialTokens(meta) ==
    LET bos == push_special(NoClaims, "Bos", meta, "bos_token_id")
        eos == push_special(bos, "Eos", meta, "eos_token_id")
    IN  push_special(eos, "Pad", meta, "padding_token_id").tokens

SpecialTokens(meta) ==
    LET eos == push_special(NoClaims, "Eos", meta, "eos_token_id")
        bos == push_special(eos, "Bos", meta, "bos_token_id")
    IN  push_special(bos, "Pad", meta, "padding_token_id").tokens

max_id(meta) ==
    Max({0, vocabulary_size(meta) - 1} \cup {t.id : t \in Range(SpecialTokens(meta))})

GgufTokenizer(meta) ==
    [vocab           |-> Vocab(Tokens(meta)),
     control         |-> ControlTexts(meta),
     special_tokens  |-> SpecialTokens(meta),
     vocabulary_size |-> vocabulary_size(meta),
     max_id          |-> max_id(meta)]
=============================================================================
