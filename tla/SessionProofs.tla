---------------------------- MODULE SessionProofs ----------------------------
(* Theorems about sessions: tokenizer and embedding table fit each other,     *)
(* whichever files the two were read from; out of one file, tokenizer,        *)
(* template, configuration and manifest agree.                                *)
EXTENDS Session, IngestProofs, VocabularyProofs

(* A tokenizer that was built has passed the checks, with the vocabulary of   *)
(* the configuration, on the metadata of some file.                           *)
TokenizerChecked ==
    IsOk(tokenizer) =>
        /\ stage = "done"
        /\ \E c \in Contents :
              /\ c.parses
              /\ IsBuildable(c.meta, config.vocab_size)
              /\ tokenizer.value = GgufTokenizer(c.meta)

SessionInv == ManifestInv /\ TokenizerChecked

(* The one call that may build a tokenizer.                                   *)
LEMMA LoadTokenizerChecked ==
    ASSUME SessionInv, LoadTokenizer
    PROVE  TokenizerChecked'
<1>1. /\ stage = "done" /\ stage' = stage /\ config' = config
      /\ tokenizer' = IF ReadError # Absent THEN Err(ReadError)
                      ELSE TokenizerOf(OnDisk.meta, config.vocab_size)
  BY DEF LoadTokenizer, ingestVars
<1>2. CASE ReadError # Absent
  <2>1. tokenizer'.result # "Ok"
    BY <1>1, <1>2 DEF ReadError, Err
  <2> QED
    BY <2>1 DEF TokenizerChecked, IsOk
<1>3. CASE ReadError = Absent /\ IsBuildable(OnDisk.meta, config.vocab_size)
  <2>1. tokenizer' = Ok(GgufTokenizer(OnDisk.meta))
    BY <1>1, <1>3 DEF TokenizerOf
  <2>2. tokenizer'.value = GgufTokenizer(OnDisk.meta)
    BY <2>1 DEF Ok
  <2>3. OnDisk \in Contents /\ OnDisk.parses
    <3>1. "RequiredPartMissing" # Absent /\ "MalformedMetadata" # Absent
      BY ErrorAssumption DEF ErrorKinds
    <3>2. path # NoFile /\ OnDisk.parses
      BY <1>3, <3>1 DEF ReadError
    <3>3. files \in Seq(Contents) /\ path \in 0 .. Len(files)
      BY DEF SessionInv, ManifestInv, Inv, TypeOK, DiskTypeOK
    <3> QED
      BY <3>2, <3>3 DEF OnDisk, NoFile
  <2> QED
    BY <1>1, <1>3, <2>2, <2>3 DEF TokenizerChecked
<1>4. CASE ReadError = Absent /\ ~IsBuildable(OnDisk.meta, config.vocab_size)
  <2>1. tokenizer' = Err(TokenizerError(OnDisk.meta))
    BY <1>1, <1>4 DEF TokenizerOf
  <2>2. tokenizer'.result # "Ok"
    BY <2>1 DEF Err, TokenizerError
  <2> QED
    BY <2>2 DEF TokenizerChecked, IsOk
<1> QED
  BY <1>2, <1>3, <1>4

LEMMA SessionStep == SessionInv /\ [SessionNext]_sessionVars => SessionInv'
<1> SUFFICES ASSUME SessionInv, [SessionNext]_sessionVars PROVE SessionInv'
  OBVIOUS
<1>1. [Next]_vars
  BY DEF SessionNext, sessionVars, vars, LoadChatTemplate, LoadTokenizer, RefuseTokenizer
<1>2. ManifestInv'
  BY <1>1, ManifestNext DEF SessionInv
<1>3. CASE UNCHANGED tokenizer
  <2>1. stage = "done" => stage' = "done" /\ config' = config
    BY <1>1, DoneIsFinal
  <2>2. IsOk(tokenizer)' <=> IsOk(tokenizer)
    BY <1>3 DEF IsOk
  <2> QED
    BY <1>2, <1>3, <2>1, <2>2 DEF SessionInv, TokenizerChecked
<1>4. CASE LoadTokenizer
  BY <1>2, <1>4, LoadTokenizerChecked DEF SessionInv
<1>5. CASE RefuseTokenizer
  <2>1. tokenizer'.result # "Ok"
    BY <1>5 DEF RefuseTokenizer, Err
  <2> QED
    BY <1>2, <2>1 DEF SessionInv, TokenizerChecked, IsOk
<1> QED
  BY <1>3, <1>4, <1>5 DEF SessionNext, sessionVars, LoadChatTemplate

LEMMA SessionInvariant == SessionSpec => []SessionInv
<1>1. SessionInit => SessionInv
  BY ManifestInit DEF SessionInit, SessionInv, TokenizerChecked, IsOk
<1> QED
  BY <1>1, SessionStep, PTL DEF SessionSpec

(* However the file is replaced between ingest and load_gguf_tokenizer, every *)
(* id of the tokenizer has a row in the embedding table of the manifest.      *)
THEOREM TokenizerFits == SessionSpec => []TokenizerFitsEmbedding
<1>1. SessionInv => TokenizerFitsEmbedding
  <2> SUFFICES ASSUME SessionInv, IsOk(tokenizer)
               PROVE  TokenizerFitsEmbedding
    BY DEF TokenizerFitsEmbedding
  <2> DEFINE rows == FirstNamed(tensors, TOKEN_EMBEDDING).shape[1]
             t == tokenizer.value
  <2>1. stage = "done" /\ ManifestInv
    BY DEF SessionInv, TokenizerChecked
  <2>2. PICK c \in Contents : /\ c.parses
                              /\ IsBuildable(c.meta, config.vocab_size)
                              /\ t = GgufTokenizer(c.meta)
    BY DEF SessionInv, TokenizerChecked
  <2>3. rows = config.vocab_size /\ rows \in Nat
    <3> DEFINE ne == Tensor(EmbeddingAt).ne
    <3>1. /\ FirstNamed(tensors, TOKEN_EMBEDDING) = Embedding
          /\ ne \in Seq(Nat) /\ Embedding.shape = Reverse(ne)
      BY <2>1, Finished
    <3>2. ne # <<>> /\ config.vocab_size = Last(ne)
      BY <2>1 DEF ManifestInv, ConfigFollowsFile
    <3> HIDE DEF ne
    <3>3. Reverse(ne) \in Seq(Nat) /\ Reverse(ne) # <<>> /\ Head(Reverse(ne)) = Last(ne)
      BY <3>1, <3>2, ReverseType, ReverseEnds
    <3>4. Reverse(ne)[1] = Head(Reverse(ne)) /\ Reverse(ne)[1] \in Nat
      BY <3>3
    <3> QED
      BY <3>1, <3>2, <3>3, <3>4
  <2> HIDE DEF rows, t
  <2>4. /\ \A text \in DOMAIN t.vocab : t.vocab[text] < rows
        /\ \A s \in Range(t.special_tokens) : s.id < rows
        /\ t.max_id < rows
    BY <2>2, <2>3, IdsFit, MetadataAssumption
  <2> QED
    BY <2>4 DEF TokenizerFitsEmbedding, Range, rows, t
<1> QED
  BY <1>1, SessionInvariant, PTL

-----------------------------------------------------------------------------
(* What was made of the parsed file, and that it is still the one on the path *)
(* as long as nobody changed the path.                                        *)
FromParsed ==
    stage \notin {"read", "failed"} =>
        /\ parsed \in Contents /\ parsed.parses
        /\ changes = 0 => path # NoFile /\ OnDisk = parsed
        /\ stage # "discover" =>
              /\ config.eos_token_id = TokenId(parsed.meta, "eos_token_id")
              /\ config.bos_token_id = TokenId(parsed.meta, "bos_token_id")
        /\ stage = "done" =>
              manifest.chat_template = string_value(parsed.meta, "chat_template")

TemplateOf(c) == string_value(c.meta, "chat_template")

(* What the two calls returned, each out of a content of its own.             *)
AnswersFromContent ==
    /\ template # Absent \/ tokenizer # Absent => stage = "done"
    /\ IsOk(template) =>
          \E c \in Contents : c.parses /\ template.value = TemplateOf(c) /\ template.content = c.id
    /\ IsOk(tokenizer) =>
          \E c \in Contents : /\ c.parses
                              /\ IsBuildable(c.meta, config.vocab_size)
                              /\ tokenizer.value = GgufTokenizer(c.meta)
                              /\ tokenizer.content = c.id
    /\ changes = 0 =>
          /\ template # Absent => IsOk(template) /\ template.content = parsed.id
          /\ IsOk(tokenizer) => tokenizer.content = parsed.id

FileInv == Inv /\ FromParsed /\ AnswersFromContent

LEMMA FromParsedStep ==
    ASSUME FileInv, [Next]_vars, Inv'
    PROVE  FromParsed'
<1>1. changes \in Nat /\ files \in Seq(Contents) /\ path \in 0 .. Len(files)
  BY DiskAssumption DEF FileInv, Inv, TypeOK, DiskTypeOK
<1>2. CASE ChangeDisk /\ UNCHANGED ingestVars
  <2>1. changes' # 0
    BY <1>1, <1>2 DEF ChangeDisk
  <2> QED
    BY <1>2, <2>1 DEF FileInv, FromParsed, ingestVars
<1>3. CASE IngestStep /\ UNCHANGED diskVars
  <2>1. /\ path' = path /\ files' = files /\ changes' = changes /\ OnDisk' = OnDisk
    BY <1>3 DEF diskVars, OnDisk
  <2>2. CASE ParseFile
    <3>1. OnDisk \in Contents
      BY <1>1, <2>2 DEF ParseFile, OnDisk, NoFile
    <3> QED
      BY <2>1, <2>2, <3>1 DEF ParseFile, FromParsed
  <2>3. CASE stage' = "failed"
    BY <2>3 DEF FromParsed
  <2>4. CASE DiscoverTensor
    BY <2>1, <2>4 DEF FileInv, FromParsed, DiscoverTensor, Discovering
  <2>5. CASE Configure
    <3>1. /\ config'.eos_token_id = TokenId(parsed.meta, "eos_token_id")
          /\ config'.bos_token_id = TokenId(parsed.meta, "bos_token_id")
      BY <2>5 DEF Configure, Normalized
    <3> QED
      BY <2>1, <2>5, <3>1 DEF FileInv, FromParsed, Configure, Discovered
  <2>6. CASE WrapAndSwap
    BY <2>1, <2>6 DEF FileInv, FromParsed, WrapAndSwap
  <2>7. CASE DeriveLmHead
    BY <2>1, <2>7 DEF FileInv, FromParsed, DeriveLmHead
  <2>8. CASE BuildManifest
    <3>1. manifest'.chat_template = string_value(parsed.meta, "chat_template")
      BY <2>8 DEF BuildManifest
    <3> QED
      BY <2>1, <2>8, <3>1 DEF FileInv, FromParsed, BuildManifest
  <2> QED
    BY <1>3, <2>2, <2>3, <2>4, <2>5, <2>6, <2>7, <2>8
    DEF IngestStep, FileMissing, FileMalformed, RefuseTensor, NoVocabulary, RefuseConfig,
        DigestUnreadable, RefuseName, Fail
<1>4. CASE UNCHANGED vars
  BY <1>4 DEF FileInv, FromParsed, vars, diskVars, ingestVars, OnDisk
<1> QED
  BY <1>2, <1>3, <1>4 DEF Next

(* Once there is a manifest, a change of the path touches nothing but the     *)
(* path, and is counted.                                                      *)
LEMMA AnswersKept ==
    ASSUME FileInv, [Next]_vars, UNCHANGED <<template, tokenizer>>
    PROVE  AnswersFromContent'
<1>1. CASE template = Absent /\ tokenizer = Absent
  BY <1>1 DEF AnswersFromContent, IsOk
<1>2. CASE stage = "done"
  <2>1. stage' = "done" /\ config' = config
    BY <1>2, DoneIsFinal
  <2>2. parsed' = parsed /\ (changes' = 0 => changes = 0)
    BY <1>2, NoStepWhenDone, DiskAssumption
    DEF Next, vars, ingestVars, diskVars, ChangeDisk, FileInv, Inv, TypeOK, DiskTypeOK
  <2> QED
    BY <2>1, <2>2 DEF FileInv, AnswersFromContent, IsOk, TemplateOf
<1> QED
  BY <1>1, <1>2 DEF FileInv, AnswersFromContent

(* A file that can be read and parsed is one of the contents.                 *)
LEMMA ReadContent ==
    ASSUME Inv, ReadError = Absent
    PROVE  OnDisk \in Contents /\ OnDisk.parses
<1>1. "RequiredPartMissing" # Absent /\ "MalformedMetadata" # Absent
  BY ErrorAssumption DEF ErrorKinds
<1>2. path # NoFile /\ OnDisk.parses
  BY <1>1 DEF ReadError
<1>3. files \in Seq(Contents) /\ path \in 0 .. Len(files)
  BY DEF Inv, TypeOK, DiskTypeOK
<1> QED
  BY <1>2, <1>3 DEF OnDisk, NoFile

LEMMA TemplateLoaded ==
    ASSUME FileInv, LoadChatTemplate
    PROVE  AnswersFromContent'
<1>1. /\ stage = "done" /\ stage' = stage /\ config' = config /\ parsed' = parsed
      /\ changes' = changes /\ tokenizer' = tokenizer
      /\ template' = IF ReadError # Absent THEN Err(ReadError) ELSE Ok(TemplateOf(OnDisk))
  BY DEF LoadChatTemplate, ingestVars, diskVars, TemplateOf
<1>2. CASE ReadError # Absent
  <2>1. template'.result # "Ok"
    BY <1>1, <1>2 DEF ReadError, Err
  <2>2. changes # 0
    BY <1>1, <1>2 DEF FileInv, FromParsed, ReadError
  <2> QED
    BY <1>1, <2>1, <2>2 DEF FileInv, AnswersFromContent, IsOk
<1>3. CASE ReadError = Absent
  <2>1. template'.value = TemplateOf(OnDisk) /\ template'.content = OnDisk.id
    BY <1>1, <1>3 DEF Ok
  <2>2. template'.result = "Ok"
    BY <1>1, <1>3 DEF Ok
  <2>3. OnDisk \in Contents /\ OnDisk.parses
    BY <1>3, ReadContent DEF FileInv
  <2>4. changes = 0 => OnDisk.id = parsed.id
    BY <1>1 DEF FileInv, FromParsed
  <2> QED
    BY <1>1, <2>1, <2>2, <2>3, <2>4 DEF FileInv, AnswersFromContent, IsOk, TemplateOf
<1> QED
  BY <1>2, <1>3

LEMMA TokenizerLoaded ==
    ASSUME FileInv, LoadTokenizer \/ RefuseTokenizer
    PROVE  AnswersFromContent'
<1>1. /\ stage = "done" /\ stage' = stage /\ config' = config /\ parsed' = parsed
      /\ changes' = changes /\ template' = template
  BY DEF LoadTokenizer, RefuseTokenizer, ingestVars, diskVars
<1>2. CASE tokenizer'.result # "Ok"
  BY <1>1, <1>2 DEF FileInv, AnswersFromContent, IsOk
<1>3. CASE tokenizer'.result = "Ok"
  <2>1. /\ ReadError = Absent /\ IsBuildable(OnDisk.meta, config.vocab_size)
        /\ tokenizer' = Ok(GgufTokenizer(OnDisk.meta))
    BY <1>3 DEF LoadTokenizer, RefuseTokenizer, TokenizerOf, Err, ReadError, TokenizerError
  <2>2. tokenizer'.value = GgufTokenizer(OnDisk.meta) /\ tokenizer'.content = OnDisk.id
    BY <2>1 DEF Ok
  <2>3. OnDisk \in Contents /\ OnDisk.parses
    BY <2>1, ReadContent DEF FileInv
  <2>4. changes = 0 => OnDisk.id = parsed.id
    BY <1>1 DEF FileInv, FromParsed
  <2> QED
    BY <1>1, <2>1, <2>2, <2>3, <2>4 DEF FileInv, AnswersFromContent, IsOk
<1> QED
  BY <1>2, <1>3

LEMMA FileInvariant == SessionSpec => []FileInv
<1>1. SessionInit => FileInv
  BY InitInv DEF SessionInit, FileInv, FromParsed, AnswersFromContent, IsOk, Init, IngestInit
<1>2. FileInv /\ [SessionNext]_sessionVars => FileInv'
  <2> SUFFICES ASSUME FileInv, [SessionNext]_sessionVars PROVE FileInv'
    OBVIOUS
  <2>1. [Next]_vars
    BY DEF SessionNext, sessionVars, vars, LoadChatTemplate, LoadTokenizer, RefuseTokenizer
  <2>2. Inv'
    BY <2>1, NextInv DEF FileInv
  <2>3. FromParsed'
    BY <2>1, <2>2, FromParsedStep
  <2>4. AnswersFromContent'
    BY <2>1, AnswersKept, TemplateLoaded, TokenizerLoaded DEF SessionNext, sessionVars
  <2> QED
    BY <2>2, <2>3, <2>4 DEF FileInv
<1> QED
  BY <1>1, <1>2, PTL DEF SessionSpec

(* Loading from the file that was ingested, whatever was on the path between: *)
(* the manifest's template is the one the caller gets, and on an untouched    *)
(* path both calls find that file.                                            *)
THEOREM LoadsOfParsedFile == SessionSpec => []LoadsFollowManifest
<1>1. FileInv => LoadsFollowManifest
  <2> SUFFICES ASSUME FileInv PROVE LoadsFollowManifest
    OBVIOUS
  <2>1. ASSUME IsOk(template), template.content = parsed.id
        PROVE  template.value = manifest.chat_template
    <3>1. PICK c \in Contents : template.value = TemplateOf(c) /\ template.content = c.id
      BY <2>1 DEF FileInv, AnswersFromContent
    <3>2. stage = "done"
      BY <2>1 DEF FileInv, AnswersFromContent, IsOk
    <3>3. c = parsed
      BY <2>1, <3>1, <3>2, DigestAssumption DEF FileInv, FromParsed
    <3> QED
      BY <3>1, <3>2, <3>3 DEF FileInv, FromParsed, TemplateOf
  <2>2. changes = 0 => /\ template # Absent => IsOk(template) /\ template.content = parsed.id
                       /\ IsOk(tokenizer) => tokenizer.content = parsed.id
    BY DEF FileInv, AnswersFromContent
  <2>3. IsOk(template) => template # Absent
    BY DEF IsOk
  <2> QED
    BY <2>1, <2>2, <2>3 DEF LoadsFollowManifest
<1> QED
  BY <1>1, FileInvariant, PTL

(* A tokenizer built from the ingested file and the configuration ingest      *)
(* returned name the same special tokens.                                     *)
THEOREM SpecialsOfParsedFile == SessionSpec => []SpecialsAgree
<1>1. FileInv => SpecialsAgree
  <2> SUFFICES ASSUME FileInv, IsOk(tokenizer), tokenizer.content = parsed.id
               PROVE  SpecialsAgree
    BY DEF SpecialsAgree
  <2> DEFINE meta == parsed.meta
             t == tokenizer.value
             Ids(kind) == {s.id : s \in {r \in Range(t.special_tokens) : r.kind = kind}}
             eos == TokenId(meta, "eos_token_id")
             bos == TokenId(meta, "bos_token_id")
  <2>1. stage = "done" /\ parsed \in Contents /\ parsed.parses
    BY DEF FileInv, AnswersFromContent, FromParsed, IsOk
  <2>2. IsBuildable(meta, config.vocab_size) /\ t = GgufTokenizer(meta)
    <3>1. PICK c \in Contents : /\ IsBuildable(c.meta, config.vocab_size)
                               /\ t = GgufTokenizer(c.meta)
                               /\ tokenizer.content = c.id
      BY DEF FileInv, AnswersFromContent
    <3>2. c = parsed
      BY <2>1, <3>1, DigestAssumption
    <3> QED
      BY <3>1, <3>2
  <2>3. IsMetadata(meta) /\ Tokens(meta) # Absent
    BY <2>1, <2>2, MetadataAssumption DEF IsBuildable
  <2>4. t.vocabulary_size = Len(Tokens(meta)) /\ t.special_tokens = SpecialTokens(meta)
    <3>1. Len(Tokens(meta)) \in Nat /\ Len(Tokens(meta)) <= MaxU32
      BY <2>3 DEF IsMetadata
    <3>2. vocabulary_size(meta) = Len(Tokens(meta))
      BY <3>1, SmallCast DEF vocabulary_size
    <3> QED
      BY <2>2, <3>2 DEF GgufTokenizer
  <2>5. config.eos_token_id = eos /\ config.bos_token_id = bos
    BY <2>1 DEF FileInv, FromParsed
  <2>6. /\ Ids("Eos") = IF NamesToken(meta, "eos_token_id") THEN {eos} ELSE {}
        /\ Ids("Bos") = IF NamesToken(meta, "bos_token_id") /\ bos # eos THEN {bos} ELSE {}
    BY <2>3, <2>4, SpecialsDeclared
  <2> QED
    BY <2>4, <2>5, <2>6 DEF SpecialsAgree, NamesToken
<1> QED
  BY <1>1, FileInvariant, PTL
=============================================================================
