------------------------------- MODULE Ingest -------------------------------
(* GgufIngestor::ingest (lib.rs) with everything it calls, one action per     *)
(* stage. It reads model.gguf twice, for the inventory and for the digest,    *)
(* and other programs may change the path in between.                         *)
EXTENDS Disk, Payload, Config

(* What the external parser reports of a tensor: a name, its dimensions, a    *)
(* storage type, and a byte range if the file declares one.                   *)
IsParsedTensor(t) ==
    /\ t.name \in Seq(STRING)
    /\ t.ne \in Seq(Nat)
    /\ t.dtype \in DOMAIN Width \cup Quantized
    /\ t.offset \in Nat \cup {Absent}
    /\ t.size \in Nat \cup {Absent}

ASSUME ContentsAssumption ==
    /\ Absent \notin Contents
    /\ \A c \in Contents :
          /\ c.tensors \in Seq(Range(c.tensors))
          /\ \A t \in Range(c.tensors) : IsParsedTensor(t)

(* None is not the wrapper of a derived head.                                 *)
ASSUME WrapperAssumption ==
    \A c \in Contents : \A t \in Range(c.tensors) :
        IsAccepted(t) /\ Len(t.ne) = 2 => DerivedFrom(Entry(t)) # Absent

(* The kinds of ProductionIngestionError ingest returns.                      *)
ErrorKinds == {"RequiredPartMissing", "MalformedMetadata", "UnsupportedFormat", "Resolve"}

ASSUME ErrorAssumption == Absent \notin ErrorKinds

VARIABLES
    stage,      \* the next thing ingest does, or how it ended
    error,      \* the kind of ProductionIngestionError it ended with
    parsed,     \* the artifact parsed from the first read
    tensors,    \* the inventory, then the manifest's tensors
    locations,  \* GgufPayloadSource.locations
    config,     \* architecture_config
    sides,      \* TransposingPayloadSource.original_shapes
    derived,    \* the DerivedLmHeadPayloadSource wrapper, if there is one
    manifest    \* the manifest's parts and identity

ingestVars ==
    <<stage, error, parsed, tensors, locations, config, sides, derived, manifest>>

EmptyFunction == [x \in {} |-> Absent]

IngestInit ==
    /\ stage = "read"
    /\ error = Absent
    /\ parsed = Absent
    /\ tensors = <<>>
    /\ locations = EmptyFunction
    /\ config = Absent
    /\ sides = EmptyFunction
    /\ derived = Absent
    /\ manifest = Absent

Fail(kind) ==
    /\ stage' = "failed"
    /\ error' = kind
    /\ UNCHANGED <<parsed, tensors, locations, config, sides, derived, manifest>>

-----------------------------------------------------------------------------
(* discover_and_parse_weights: resolve, fs::read and parse, then the loop     *)
(* over the artifact's tensors.                                               *)
FileMissing ==
    /\ stage = "read"
    /\ path = NoFile
    /\ Fail("RequiredPartMissing")

FileMalformed ==
    /\ stage = "read"
    /\ path # NoFile
    /\ ~OnDisk.parses
    /\ Fail("MalformedMetadata")

ParseFile ==
    /\ stage = "read"
    /\ path # NoFile
    /\ OnDisk.parses
    /\ parsed' = OnDisk
    /\ stage' = "discover"
    /\ UNCHANGED <<error, tensors, locations, config, sides, derived, manifest>>

Discovering == stage = "discover" /\ Len(tensors) < Len(parsed.tensors)

NextTensor == parsed.tensors[Len(tensors) + 1]

RefuseTensor ==
    /\ Discovering
    /\ ~IsAccepted(NextTensor)
    /\ Fail(TensorError(NextTensor))

(* A later tensor of the same canonical name takes over the location.         *)
DiscoverTensor ==
    /\ Discovering
    /\ IsAccepted(NextTensor)
    /\ tensors' = Append(tensors, Entry(NextTensor))
    /\ locations' = Insert(locations, Canonical(NextTensor.name), Location(NextTensor))
    /\ UNCHANGED <<stage, error, parsed, config, sides, derived, manifest>>

-----------------------------------------------------------------------------
Discovered == stage = "discover" /\ Len(tensors) = Len(parsed.tensors)

HasNamed(name) == \E i \in DOMAIN tensors : tensors[i].name = name

(* shape.first() of the first token_embedding; Absent when there is none.     *)
MutantVocabSize ==
    LET e == FirstNamed(tensors, TOKEN_EMBEDDING)
    IN  IF e = Absent THEN Absent ELSE IF e.shape = <<>> THEN Absent ELSE Last(e.shape)

VocabSize ==
    LET e == FirstNamed(tensors, TOKEN_EMBEDDING)
    IN  IF e = Absent THEN Absent ELSE IF e.shape = <<>> THEN Absent ELSE Head(e.shape)

MutantNoVocabulary ==
    /\ Discovered
    /\ tensors = <<>>
    /\ Fail("MalformedMetadata")

(* No tensor at all, no token_embedding, or one without a dimension.          *)
NoVocabulary ==
    /\ Discovered
    /\ VocabSize = Absent
    /\ Fail("MalformedMetadata")

RefuseConfig ==
    /\ Discovered
    /\ VocabSize # Absent
    /\ \/ ~Accepts(parsed.meta, VocabSize) /\ Fail(ConfigError(parsed.meta))
       \/ Accepts(parsed.meta, VocabSize) /\ Fail("MalformedMetadata")  \* validate()

MutantConfigure ==
    /\ Discovered
    /\ VocabSize # Absent
    /\ Accepts(parsed.meta, VocabSize)
    /\ config' = [Normalized(parsed.meta, VocabSize) EXCEPT
                    !.attention_bias = \E i \in DOMAIN tensors : EndsWithQBias(tensors[i].name)]
    /\ stage' = "wrap"
    /\ UNCHANGED <<error, parsed, tensors, locations, sides, derived, manifest>>

(* config::normalize, patched with what the inventory shows.                  *)
Configure ==
    /\ Discovered
    /\ VocabSize # Absent
    /\ Accepts(parsed.meta, VocabSize)
    /\ config' = [Normalized(parsed.meta, VocabSize) EXCEPT
                    !.attention_bias = \E i \in DOMAIN tensors : EndsWithQBias(tensors[i].name),
                    !.tie_word_embeddings = ~HasNamed(LM_HEAD)]
    /\ stage' = "wrap"
    /\ UNCHANGED <<error, parsed, tensors, locations, sides, derived, manifest>>

SwappedTensors == [i \in DOMAIN tensors |-> SwapSides(tensors[i])]

MutantWrapAfterSwap ==
    /\ stage = "wrap"
    /\ sides' = StoredSides(SwappedTensors)
    /\ tensors' = SwappedTensors
    /\ stage' = "derive"
    /\ UNCHANGED <<error, parsed, locations, config, derived, manifest>>

(* The wrapper records the stored sides before the declared ones are swapped. *)
WrapAndSwap ==
    /\ stage = "wrap"
    /\ sides' = StoredSides(tensors)
    /\ tensors' = SwappedTensors
    /\ stage' = "derive"
    /\ UNCHANGED <<error, parsed, locations, config, derived, manifest>>

MayDerive ==
    /\ config.tie_word_embeddings
    /\ ~HasNamed(LM_HEAD)
    /\ FirstNamed(tensors, TOKEN_EMBEDDING) # Absent
    /\ Len(FirstNamed(tensors, TOKEN_EMBEDDING).shape) = 2

(* append_synthetic_lm_head_if_tied, and the wrapper that answers for it. The *)
(* embedding it derives from has a range and two sides, so the wrapper is     *)
(* always built: the error of lib.rs:218-222 is never the answer.             *)
DeriveLmHead ==
    /\ stage = "derive"
    /\ IF MayDerive
       THEN LET embedding == FirstNamed(tensors, TOKEN_EMBEDDING)
            IN  /\ tensors' = Append(tensors, SyntheticLmHead(embedding))
                /\ derived' = DerivedFrom(embedding)
       ELSE UNCHANGED <<tensors, derived>>
    /\ stage' = "digest"
    /\ UNCHANGED <<error, parsed, locations, config, sides, manifest>>

-----------------------------------------------------------------------------
(* The second read of the file: resolve's error is passed on as it is, that   *)
(* of fs::read becomes RequiredPartMissing.                                   *)
DigestUnreadable ==
    /\ stage = "digest"
    /\ path = NoFile
    /\ Fail("Resolve") \/ Fail("RequiredPartMissing")

(* One line per tensor; sorted and joined, so only how often counts.          *)
LayoutLines ==
    LET line(t) == <<t.name, t.shape, t.offset, t.size>>
        lines == {line(tensors[i]) : i \in DOMAIN tensors}
    IN  [l \in lines |-> Cardinality({i \in DOMAIN tensors : line(tensors[i]) = l})]

MutantBuildManifest ==
    /\ stage = "digest"
    /\ path # NoFile
    /\ manifest' = [id |-> OnDisk.id, gguf_metadata |-> OnDisk.id, weights |-> LayoutLines,
                    storage_dtype |-> tensors[1].dtype,
                    chat_template |-> string_value(OnDisk.meta, "chat_template")]
    /\ stage' = "done"
    /\ UNCHANGED <<error, parsed, tensors, locations, config, sides, derived>>

(* A content stands for its own digest.                                       *)
BuildManifest ==
    /\ stage = "digest"
    /\ path # NoFile
    /\ manifest' = [id |-> OnDisk.id, gguf_metadata |-> OnDisk.id, weights |-> LayoutLines,
                    storage_dtype |-> tensors[1].dtype,
                    chat_template |-> string_value(parsed.meta, "chat_template")]
    /\ stage' = "done"
    /\ UNCHANGED <<error, parsed, tensors, locations, config, sides, derived>>

(* ModelName::new refuses the sanitized name.                                 *)
RefuseName ==
    /\ stage = "digest"
    /\ path # NoFile
    /\ Fail("MalformedMetadata")

IngestStep ==
    \/ FileMissing \/ FileMalformed \/ ParseFile
    \/ RefuseTensor \/ DiscoverTensor
    \/ NoVocabulary \/ RefuseConfig \/ Configure
    \/ WrapAndSwap \/ DeriveLmHead
    \/ DigestUnreadable \/ BuildManifest \/ RefuseName

Init == DiskInit /\ IngestInit

Next ==
    \/ IngestStep /\ UNCHANGED diskVars
    \/ ChangeDisk /\ UNCHANGED ingestVars

vars == <<diskVars, ingestVars>>

(* ingest runs to its end on its caller's thread; other programs owe nothing. *)
Spec == Init /\ [][Next]_vars /\ WF_vars(IngestStep /\ UNCHANGED diskVars)

-----------------------------------------------------------------------------
(* What an entry of the inventory and a location are made of.                *)
IsEntry(t) ==
    /\ DOMAIN t = {"name", "shape", "dtype", "offset", "size", "digest"}
    /\ t.shape \in Seq(Nat)
    /\ t.dtype \in DOMAIN Width
    /\ t.offset \in Nat
    /\ t.size # Absent

IsLocation(l) ==
    /\ l.offset \in Nat
    /\ l.length \in Nat
    /\ l.declared # Absent
    /\ l.source \in {"Plain"} \cup Quantized

Stages == {"read", "discover", "wrap", "derive", "digest", "done", "failed"}

(* Nothing without a byte range is ever published or can be read, an error is *)
(* reported exactly when ingest failed, and a manifest only at the end.       *)
TypeOK ==
    /\ DiskTypeOK
    /\ stage \in Stages
    /\ error \in IF stage = "failed" THEN ErrorKinds ELSE {Absent}
    /\ parsed \in IF stage = "read" THEN {Absent}
                  ELSE IF stage = "failed" THEN Contents \cup {Absent} ELSE Contents
    /\ \A i \in DOMAIN tensors : IsEntry(tensors[i])
    /\ \A n \in DOMAIN locations : IsLocation(locations[n])
    /\ manifest # Absent => stage = "done"

(* How many of the entries come from the file; a derived head is the one more.*)
FromFile == DOMAIN parsed.tensors

(* Two entries share a canonical name only if the file names them alike: the  *)
(* translation never merges two tensors into one location.                    *)
NamesUnambiguous ==
    parsed # Absent =>
        \A i, j \in 1 .. Len(tensors) :
            /\ {i, j} \subseteq FromFile
            /\ tensors[i].name = tensors[j].name
            => parsed.tensors[i].name = parsed.tensors[j].name

DistinctNames ==
    \A i, j \in FromFile : parsed.tensors[i].name = parsed.tensors[j].name => i = j

Addressable(range) ==
    /\ range.identity \in DOMAIN locations
    /\ locations[range.identity].offset = range.offset
    /\ locations[range.identity].declared = range.length

(* Every range a caller can make from the manifest, and the one the derived   *)
(* head reads instead of its own, is one the payload source will accept.      *)
EntriesAddressable ==
    stage = "done" /\ DistinctNames =>
        /\ \A i \in FromFile : Addressable(RangeOf(tensors[i]))
        /\ derived # Absent => Addressable(derived.range)

(* The manifest declares a projection by its ne[] order, [in, out], and every *)
(* other tensor row-major, however often labels were reversed on the way.     *)
DeclaredOrientation ==
    stage = "done" =>
        \A i \in FromFile :
            tensors[i].shape =
                IF IsTransposedProjection(tensors[i].name) /\ Len(tensors[i].shape) = 2
                THEN parsed.tensors[i].ne ELSE Reverse(parsed.tensors[i].ne)

(* The bytes a read hands over have the sides and the width the manifest      *)
(* declares: the wrappers transpose from the sides before the swap.           *)
SidesMatchManifest ==
    stage = "done" /\ DistinctNames =>
        /\ DOMAIN sides = {tensors[i].name : i \in {j \in FromFile : IsSwapped(tensors[j])}}
        /\ \A i \in FromFile : tensors[i].name \in DOMAIN sides =>
              LET s == sides[tensors[i].name]
              IN  tensors[i].shape = <<s.cols, s.rows>> /\ s.width = Width[tensors[i].dtype]
        /\ derived # Absent => Last(tensors).shape = <<derived.cols, derived.rows>>

(* The vocabulary the configuration declares is the number of rows of the     *)
(* embedding table, and of columns of a head derived from it.                 *)
VocabularyAgrees ==
    stage = "done" =>
        LET embedding == SelectInSeq(parsed.tensors,
                            LAMBDA t : t.name = <<"token_embd", "weight">>)
        IN  /\ config.vocab_size = Last(parsed.tensors[embedding].ne)
            /\ derived # Absent => Last(Last(tensors).shape) = config.vocab_size

(* A model with a 2-D embedding always gets a head: its own or a derived one, *)
(* and the configuration says which.                                          *)
HeadIsPublished ==
    stage = "done" /\ Len(FirstNamed(tensors, TOKEN_EMBEDDING).shape) = 2 =>
        /\ HasNamed(LM_HEAD)
        /\ config.tie_word_embeddings <=> (derived # Absent)
        /\ config.tie_word_embeddings <=>
              \A i \in FromFile : parsed.tensors[i].name # <<"output", "weight">>

(* ingest comes back, with a manifest or with an error.                       *)
IngestEnds == <>(stage \in {"done", "failed"})

-----------------------------------------------------------------------------
(* What comments of the source say and the code does not do.                  *)

(* lib.rs: the manifest is anchored to this exact file's real bytes.          *)
DigestAnchorsParsedFile == stage = "done" => manifest.gguf_metadata = parsed.id

(* config.rs: attention_bias is whether attn_{q,k,v}.bias tensors are present.*)
AttentionBiasIsPresence ==
    stage = "done" =>
        (config.attention_bias <=>
            \E i \in FromFile : HasSuffix(parsed.tensors[i].name, "bias"))

(* derived_lm_head.rs: a tied model without a stored head gets a synthetic one.*)
TiedHeadIsAppended ==
    stage = "done" /\ config.tie_word_embeddings => HasNamed(LM_HEAD)
=============================================================================
