------------------------------ MODULE Tokenizer ------------------------------
(* A GgufTokenizer (tokenizer.rs) from its construction to a prompt encoded   *)
(* and what is decoded afterwards. The BPE library is external: a prompt is   *)
(* the sequence of pieces it is split into, each a text of the vocabulary;    *)
(* the offset of a piece is its place in the prompt.                          *)
EXTENDS Vocabulary

CONSTANTS
    Metadata,       \* what the key-value section of a file may contain
    ExpectedSizes,  \* the expected_vocab_size a caller passes
    Limits,         \* the max_tokens of a call
    MaxPieces,      \* bound: pieces of a prompt
    MaxIds          \* bound: ids of a sequence that no encode returned

ASSUME MetadataAssumption == \A m \in Metadata : IsMetadata(m)

ASSUME CallsAssumption ==
    /\ ExpectedSizes \subseteq Nat \cup {Absent}
    /\ Limits \subseteq Nat
    /\ MaxPieces \in Nat

VARIABLES
    meta, expected_vocab_size,  \* arguments of from_gguf_metadata
    tokenizer,                  \* what it returned; Absent before
    call,                       \* the last call and how it ended
    prompt, output              \* of the last encode

vars == <<meta, expected_vocab_size, tokenizer, call, prompt, output>>

Policies == {"None", "Left", "ClientPolicy", "Right", "ModelDefault", "Middle"}

SeqsUpTo(S, n) == UNION {[1 .. k -> S] : k \in 0 .. n}

Init ==
    /\ meta \in Metadata
    /\ expected_vocab_size \in ExpectedSizes
    /\ tokenizer = Absent
    /\ call = [name |-> "from_gguf_metadata", result |-> Absent]
    /\ prompt = Absent
    /\ output = Absent

Building == call = [name |-> "from_gguf_metadata", result |-> Absent]

Refuse ==
    /\ Building
    /\ call' = [call EXCEPT !.result =
                    IF IsBuildable(meta, expected_vocab_size) THEN "MalformedMetadata"
                    ELSE TokenizerError(meta)]
    /\ UNCHANGED <<meta, expected_vocab_size, tokenizer, prompt, output>>

Build ==
    /\ Building
    /\ IsBuildable(meta, expected_vocab_size)
    /\ tokenizer' = GgufTokenizer(meta)
    /\ call' = [call EXCEPT !.result = "Ok"]
    /\ UNCHANGED <<meta, expected_vocab_size, prompt, output>>

-----------------------------------------------------------------------------
(* The library's answer, before anything is cut.                              *)
Ids(pieces) == [i \in DOMAIN pieces |-> tokenizer.vocab[pieces[i]]]
Offsets(pieces) == [i \in DOMAIN pieces |-> i]

MutantTruncated(s, count, limit, truncation) ==
    LET left == limit \div 2
        tail_start == count - left
    IN  CASE truncation \in {"Left", "ClientPolicy"} -> SubSeq(s, count - limit + 1, Len(s))
          [] truncation \in {"Right", "ModelDefault"} -> SubSeq(s, 1, limit)
          [] truncation = "Middle" -> SubSeq(s, 1, left) \o SubSeq(s, tail_start + 1, Len(s))

(* What a policy leaves of the ids, or of their offsets; count is the number  *)
(* of ids and larger than the limit.                                          *)
Truncated(s, count, limit, truncation) ==
    LET left == limit \div 2
        right == limit - left
        tail_start == count - right
    IN  CASE truncation \in {"Left", "ClientPolicy"} -> SubSeq(s, count - limit + 1, Len(s))
          [] truncation \in {"Right", "ModelDefault"} -> SubSeq(s, 1, limit)
          [] truncation = "Middle" -> SubSeq(s, 1, left) \o SubSeq(s, tail_start + 1, Len(s))

Encoded(pieces, limit, truncation) ==
    LET Cut(s) == IF limit # Absent /\ Len(pieces) > limit
                  THEN Truncated(s, Len(pieces), limit, truncation) ELSE s
    IN  [token_ids |-> Cut(Ids(pieces)), offsets |-> Cut(Offsets(pieces))]

TooLong(pieces, limit, truncation) ==
    limit # Absent /\ Len(pieces) > limit /\ truncation = "None"

(* encode borrows the tokenizer: all that changes is the caller's.            *)
Asks(pieces, limit, truncation) ==
    /\ prompt' = [pieces |-> pieces, limit |-> limit, truncation |-> truncation]
    /\ UNCHANGED <<meta, expected_vocab_size, tokenizer>>

PromptTooLong(pieces, limit, truncation) ==
    /\ Asks(pieces, limit, truncation)
    /\ TooLong(pieces, limit, truncation)
    /\ call' = [name |-> "encode", result |-> "PromptTooLong"]
    /\ UNCHANGED output

(* The library may fail, whatever the prompt; nothing is cut before it answers. *)
EncodeFails(pieces, limit, truncation) ==
    /\ Asks(pieces, limit, truncation)
    /\ call' = [name |-> "encode", result |-> "BatchInputInvalid"]
    /\ UNCHANGED output

(* A caller that declines the offsets gets the same ids without them.         *)
Encode(pieces, limit, truncation) ==
    /\ Asks(pieces, limit, truncation)
    /\ ~TooLong(pieces, limit, truncation)
    /\ call' = [name |-> "encode", result |-> "Ok"]
    /\ output' = Encoded(pieces, limit, truncation)

(* The library's decode: texts by id, ids without one passed over, and the    *)
(* added texts too if they are to be skipped.                                 *)
Among(s, S) == SelectSeq(s, LAMBDA x : x \in S)

TextOf(id) ==
    LET texts == {text \in DOMAIN tokenizer.vocab : tokenizer.vocab[text] = id}
    IN  IF texts = {} THEN Absent ELSE CHOOSE text \in texts : TRUE

Texts(ids, skip_special_tokens) ==
    Among([i \in DOMAIN ids |-> TextOf(ids[i])],
          DOMAIN tokenizer.vocab \ (IF skip_special_tokens THEN tokenizer.control ELSE {}))

(* A caller decodes what encode returned, or ids from elsewhere.              *)
DecodeInputs ==
    IF tokenizer = Absent \/ call.name = "decode" THEN {}
    ELSE IF output # Absent THEN {output.token_ids} ELSE SeqsUpTo(0 .. MaxU32, MaxIds)

InRange(ids) == \A i \in DOMAIN ids : ids[i] <= tokenizer.max_id

(* The ByteLevel decoder replaces bytes that are no text, and ids without a   *)
(* text are passed over: decoding ids in range does not fail, and the error   *)
(* the code provides for it (InvalidUtf8) is never the answer.                *)
Decode(ids, skip_special_tokens) ==
    /\ InRange(ids)
    /\ call' = [name |-> "decode", result |-> "Ok", skip_special_tokens |-> skip_special_tokens,
                texts |-> Texts(ids, skip_special_tokens)]
    /\ UNCHANGED <<meta, expected_vocab_size, tokenizer, prompt, output>>

InvalidTokenId(ids) ==
    /\ ~InRange(ids)
    /\ call' = [name |-> "decode", result |-> "InvalidTokenId"]
    /\ UNCHANGED <<meta, expected_vocab_size, tokenizer, prompt, output>>

Prompts ==
    IF tokenizer = Absent \/ call.name # "from_gguf_metadata" THEN {}
    ELSE SeqsUpTo(DOMAIN tokenizer.vocab, MaxPieces)

Next ==
    \/ Refuse
    \/ Build
    \/ \E pieces \in Prompts, limit \in Limits \cup {Absent}, truncation \in Policies :
          \/ EncodeFails(pieces, limit, truncation)
          \/ PromptTooLong(pieces, limit, truncation)
          \/ Encode(pieces, limit, truncation)
    \/ \E ids \in DecodeInputs, skip_special_tokens \in BOOLEAN :
          Decode(ids, skip_special_tokens) \/ InvalidTokenId(ids)

Spec == Init /\ [][Next]_vars

-----------------------------------------------------------------------------
(* A tokenizer that was checked against the embedding table never returns an  *)
(* id without a row in it, however its texts repeat and its specials lie.     *)
EncodedIdsAddressRows ==
    output # Absent =>
        \A i \in DOMAIN output.token_ids :
            expected_vocab_size # Absent => output.token_ids[i] < expected_vocab_size

(* Truncation keeps ids and offsets in step: each offset is the place of the  *)
(* piece its id stands for, in the prompt's order and with one gap at most,   *)
(* as many as the limit allows, and the policy's end of the prompt is kept.   *)
OffsetsBelongToIds ==
    output # Absent =>
        LET ids == output.token_ids
            offsets == output.offsets
            n == Len(prompt.pieces)
            policy == prompt.truncation
            IsGap(i) == offsets[i] # offsets[i - 1] + 1
        IN  /\ Len(ids) = IF prompt.limit = Absent THEN n
                          ELSE IF n <= prompt.limit THEN n ELSE prompt.limit
            /\ Len(offsets) = Len(ids)
            /\ \A i \in 1 .. Len(ids) : ids[i] = tokenizer.vocab[prompt.pieces[offsets[i]]]
            /\ \A i \in 2 .. Len(ids) : offsets[i - 1] < offsets[i]
            /\ \A i, j \in 2 .. Len(ids) : IsGap(i) /\ IsGap(j) => i = j
            /\ Len(ids) > 0 =>
                  /\ policy \in {"Right", "ModelDefault"} => offsets[1] = 1
                  /\ policy \in {"Left", "ClientPolicy", "Middle"} => offsets[Len(ids)] = n
                  /\ policy = "Middle" /\ Len(ids) > 1 => offsets[1] = 1

(* decode accepts whatever encode returned and gives back the pieces that     *)
(* were kept, those at whose index the file declares CONTROL only on request. *)
DecodeUndoesEncode ==
    call.name = "decode" /\ output # Absent =>
        LET tokens == Tokens(meta)
            types == OrElse(ValueOf(meta, "token_type", {"Array"}), <<>>)
            IsControl(text) ==
                \E i \in DOMAIN tokens \cap DOMAIN types :
                    tokens[i] = text /\ types[i] = [type |-> "Int32", value |-> 3]
            kept == [i \in DOMAIN output.offsets |-> prompt.pieces[output.offsets[i]]]
        IN  /\ call.result = "Ok"
            /\ call.texts = Among(kept, {text \in Range(tokens) :
                                            ~(call.skip_special_tokens /\ IsControl(text))})

(* No two special tokens share an id; every declared id that a token has is   *)
(* taken, and by eos if eos is one that declares it; and the text of a        *)
(* special token is encoded to its id, or to that of a later copy of it.      *)
SpecialsAreDeclared ==
    tokenizer # Absent =>
        LET specials == tokenizer.special_tokens
            ids == {s.id : s \in Range(specials)}
            Named(key) == {TokenId(meta, key)} \cap (0 .. tokenizer.vocabulary_size - 1)
        IN  /\ Cardinality(ids) = Len(specials)
            /\ ids = Named("eos_token_id") \cup Named("bos_token_id") \cup Named("padding_token_id")
            /\ {s.id : s \in {t \in Range(specials) : t.kind = "Eos"}} = Named("eos_token_id")
            /\ \A s \in Range(specials) : tokenizer.vocab[s.text] >= s.id
=============================================================================
