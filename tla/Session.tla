------------------------------- MODULE Session -------------------------------
(* What a user of the crate does with one bundle: ingest it, then get its     *)
(* chat template and its tokenizer (load_gguf_chat_template and               *)
(* load_gguf_tokenizer, lib.rs), each of which reads the path again.          *)
EXTENDS Ingest, Vocabulary

ASSUME MetadataAssumption == \A c \in Contents : c.parses => IsMetadata(c.meta)

(* No two contents share a digest.                                            *)
ASSUME DigestAssumption == \A c, d \in Contents : c.id = d.id => c = d

VARIABLES
    template,   \* what load_gguf_chat_template returned
    tokenizer   \* what load_gguf_tokenizer returned

sessionVars == <<diskVars, ingestVars, template, tokenizer>>

(* What a call that ended well returned, out of which content.                *)
Ok(value) == [result |-> "Ok", value |-> value, content |-> OnDisk.id]
Err(kind) == [result |-> kind]

SessionInit == Init /\ template = Absent /\ tokenizer = Absent

(* One fs::read and one parse of what it returned.                            *)
ReadError ==
    IF path = NoFile THEN "RequiredPartMissing"
    ELSE IF ~OnDisk.parses THEN "MalformedMetadata" ELSE Absent

LoadChatTemplate ==
    /\ stage = "done" /\ template = Absent
    /\ template' = IF ReadError # Absent THEN Err(ReadError)
                   ELSE Ok(string_value(OnDisk.meta, "chat_template"))
    /\ UNCHANGED <<diskVars, ingestVars, tokenizer>>

TokenizerOf(meta, expected_vocab_size) ==
    IF IsBuildable(meta, expected_vocab_size) THEN Ok(GgufTokenizer(meta))
    ELSE Err(TokenizerError(meta))

MutantLoadTokenizer ==
    /\ stage = "done" /\ tokenizer = Absent
    /\ tokenizer' = IF ReadError # Absent THEN Err(ReadError)
                    ELSE TokenizerOf(OnDisk.meta, Absent)
    /\ UNCHANGED <<diskVars, ingestVars, template>>

(* The caller passes the vocabulary of the configuration it was given.        *)
LoadTokenizer ==
    /\ stage = "done" /\ tokenizer = Absent
    /\ tokenizer' = IF ReadError # Absent THEN Err(ReadError)
                    ELSE TokenizerOf(OnDisk.meta, config.vocab_size)
    /\ UNCHANGED <<diskVars, ingestVars, template>>

(* The external builder, or validate(), refuses what this code accepts.       *)
RefuseTokenizer ==
    /\ stage = "done" /\ tokenizer = Absent
    /\ path # NoFile /\ OnDisk.parses
    /\ tokenizer' = Err("MalformedMetadata")
    /\ UNCHANGED <<diskVars, ingestVars, template>>

SessionNext ==
    \/ Next /\ UNCHANGED <<template, tokenizer>>
    \/ LoadChatTemplate \/ LoadTokenizer \/ RefuseTokenizer

SessionSpec == SessionInit /\ [][SessionNext]_sessionVars

-----------------------------------------------------------------------------
IsOk(answer) == answer # Absent /\ answer.result = "Ok"

(* Whatever file the tokenizer was built from, none of its ids is without a   *)
(* row in the embedding table the manifest describes.                         *)
TokenizerFitsEmbedding ==
    IsOk(tokenizer) =>
        LET rows == FirstNamed(tensors, TOKEN_EMBEDDING).shape[1]
            ids == Range(tokenizer.value.vocab) \cup {tokenizer.value.max_id}
                     \cup {s.id : s \in Range(tokenizer.value.special_tokens)}
        IN  \A id \in ids : id < rows

(* Out of one file, tokenizer and configuration name the same special tokens: *)
(* the end of a sequence always, its beginning unless it shares the id of the *)
(* end, and ids no token has in the configuration only.                       *)
SpecialsAgree ==
    IsOk(tokenizer) /\ tokenizer.content = parsed.id =>
        LET Id(kind) == {s.id : s \in {t \in Range(tokenizer.value.special_tokens) : t.kind = kind}}
            HasToken(id) == id # Absent /\ id < tokenizer.value.vocabulary_size
            eos == config.eos_token_id
            bos == config.bos_token_id
        IN  /\ Id("Eos") = IF HasToken(eos) THEN {eos} ELSE {}
            /\ Id("Bos") = IF HasToken(bos) /\ bos # eos THEN {bos} ELSE {}

(* A manifest refers to a template exactly if the file has one for the caller *)
(* to load, whatever was on the path when the digest was taken; and as long   *)
(* as nobody changed the path, both calls find the file ingest found.         *)
LoadsFollowManifest ==
    /\ IsOk(template) /\ template.content = parsed.id =>
          template.value = manifest.chat_template
    /\ changes = 0 =>
          /\ template # Absent => IsOk(template)
          /\ IsOk(template) => template.content = parsed.id
          /\ IsOk(tokenizer) => tokenizer.content = parsed.id
=============================================================================
