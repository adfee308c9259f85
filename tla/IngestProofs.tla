---------------------------- MODULE IngestProofs ----------------------------
(* Theorems about Ingest, for any contents, widths, block sizes and layer     *)
(* indices: names are translated injectively, and entry i of the inventory    *)
(* is, at every stage, a fixed function of tensor i of the parsed file.       *)
EXTENDS Ingest, SequenceTheorems, WellFoundedInduction, TLAPS

(* Sequences with one, two and four elements, as the provers take them.       *)
LEMMA ShortSeq ==
    ASSUME NEW S, NEW x \in S, NEW y \in S
    PROVE  /\ <<x>> \in Seq(S) /\ Len(<<x>>) = 1
           /\ <<x, y>> \in Seq(S) /\ Len(<<x, y>>) = 2
  OBVIOUS

(* A sequence of four is its four elements.                                   *)
LEMMA FourComponents ==
    ASSUME NEW S, NEW raw \in Seq(S), Len(raw) = 4
    PROVE  raw = <<raw[1], raw[2], raw[3], raw[4]>> /\ raw[2] \in S
  OBVIOUS

(* Two concatenations that agree have the same second element.                *)
LEMMA SecondOfConcat ==
    ASSUME NEW S, NEW l \in S, NEW x \in S, NEW y \in S,
           NEW f \in Seq(S), NEW g \in Seq(S), <<l, x>> \o f = <<l, y>> \o g
    PROVE  x = y
<1>1. <<l, x>> \in Seq(S) /\ <<l, y>> \in Seq(S) /\ Len(<<l, x>>) = 2 /\ Len(<<l, y>>) = 2
  BY ShortSeq
<1>2. (<<l, x>> \o f)[2] = x
  BY <1>1, ConcatProperties
<1>3. (<<l, y>> \o g)[2] = y
  BY <1>1, ConcatProperties
<1> QED
  BY <1>2, <1>3

(* The words of which the canonical names of layer fields are made.           *)
Words ==
    {"layers", "input_norm", "post_attn_norm", "self_attn", "mlp",
     "q_proj", "k_proj", "v_proj", "o_proj", "gate_proj", "up_proj", "down_proj",
     "q_bias", "k_bias", "v_bias"}

(* The part of a canonical name that a field is translated to.                *)
Field(raw) == (IF HasSuffix(raw, "bias") THEN BiasField ELSE LayerField)[raw[3]]

RecognizedInLayer(raw) ==
    IsLayerName(raw, "bias", BiasField) \/ IsLayerName(raw, "weight", LayerField)

(* What each field of a layer is called.                                      *)
LEMMA WeightFields ==
    /\ DOMAIN LayerField = {"attn_norm", "ffn_norm", "attn_q", "attn_k", "attn_v",
                            "attn_output", "ffn_gate", "ffn_up", "ffn_down"}
    /\ LayerField["attn_norm"] = <<"input_norm">>
    /\ LayerField["ffn_norm"] = <<"post_attn_norm">>
    /\ LayerField["attn_q"] = <<"self_attn", "q_proj">>
    /\ LayerField["attn_k"] = <<"self_attn", "k_proj">>
    /\ LayerField["attn_v"] = <<"self_attn", "v_proj">>
    /\ LayerField["attn_output"] = <<"self_attn", "o_proj">>
    /\ LayerField["ffn_gate"] = <<"mlp", "gate_proj">>
    /\ LayerField["ffn_up"] = <<"mlp", "up_proj">>
    /\ LayerField["ffn_down"] = <<"mlp", "down_proj">>
  BY DEF LayerField

(* What each bias of a layer is called.                                       *)
LEMMA BiasFields ==
    /\ DOMAIN BiasField = {"attn_q", "attn_k", "attn_v"}
    /\ BiasField["attn_q"] = <<"self_attn", "q_bias">>
    /\ BiasField["attn_k"] = <<"self_attn", "k_bias">>
    /\ BiasField["attn_v"] = <<"self_attn", "v_bias">>
  BY DEF BiasField

(* Which table a field is looked up in.                                       *)
LEMMA FieldTable ==
    ASSUME NEW raw, RecognizedInLayer(raw)
    PROVE  /\ raw[4] = "bias" => raw[3] \in DOMAIN BiasField /\ Field(raw) = BiasField[raw[3]]
           /\ raw[4] # "bias" =>
                 /\ raw[4] = "weight"
                 /\ raw[3] \in DOMAIN LayerField
                 /\ Field(raw) = LayerField[raw[3]]
  BY DEF RecognizedInLayer, IsLayerName, HasSuffix, Field

(* A field is one word or two.                                                *)
LEMMA FieldWords ==
    ASSUME NEW raw, RecognizedInLayer(raw), NEW T, Words \subseteq T
    PROVE  Field(raw) \in Seq(T) /\ Len(Field(raw)) \in 1 .. 2
<1>1. CASE raw[4] = "bias"
  <2>1. \A x \in DOMAIN BiasField : \E f, g \in T : BiasField[x] = <<f, g>>
    BY BiasFields DEF Words
  <2>2. PICK f, g \in T : Field(raw) = <<f, g>>
    BY <1>1, <2>1, FieldTable
  <2> QED
    BY <2>2, ShortSeq
<1>2. CASE raw[4] # "bias"
  <2>1. \A x \in DOMAIN LayerField :
            \E f, g \in T : LayerField[x] = <<f>> \/ LayerField[x] = <<f, g>>
    BY WeightFields DEF Words
  <2>2. PICK f, g \in T : Field(raw) = <<f>> \/ Field(raw) = <<f, g>>
    BY <1>2, <2>1, FieldTable
  <2> QED
    BY <2>2, ShortSeq
<1> QED
  BY <1>1, <1>2

(* The translation of a field tells the field and the suffix.                 *)
LEMMA FieldInjective ==
    ASSUME NEW a, NEW b, RecognizedInLayer(a), RecognizedInLayer(b), Field(a) = Field(b)
    PROVE  a[3] = b[3] /\ a[4] = b[4]
<1>1. CASE a[4] = "bias" /\ b[4] = "bias"
  BY <1>1, FieldTable, BiasFields
<1>2. CASE a[4] # "bias" /\ b[4] # "bias"
  <2>1. a[3] = b[3]
    BY <1>2, FieldTable, WeightFields
  <2> QED
    BY <1>2, <2>1, FieldTable
<1>3. ASSUME NEW x, NEW y, RecognizedInLayer(x), RecognizedInLayer(y), x[4] = "bias", y[4] # "bias"
      PROVE  Field(x) # Field(y)
  <2>1. \A f \in DOMAIN BiasField :
            Len(BiasField[f]) = 2 /\ BiasField[f][2] \in {"q_bias", "k_bias", "v_bias"}
    BY BiasFields
  <2>2. \A f \in DOMAIN LayerField :
            Len(LayerField[f]) = 1 \/ LayerField[f][2] \notin {"q_bias", "k_bias", "v_bias"}
    BY WeightFields
  <2>3. x[3] \in DOMAIN BiasField /\ Field(x) = BiasField[x[3]]
    BY <1>3, FieldTable
  <2>4. y[3] \in DOMAIN LayerField /\ Field(y) = LayerField[y[3]]
    BY <1>3, FieldTable
  <2> QED
    BY <2>1, <2>2, <2>3, <2>4
<1> QED
  BY <1>1, <1>2, <1>3

(* A name of a layer, taken apart and translated.                             *)
LEMMA LayerCanonical ==
    ASSUME NEW S, NEW raw \in Seq(S), RecognizedInLayer(raw)
    PROVE  /\ Canonical(raw) = <<"layers", raw[2]>> \o Field(raw)
           /\ raw = <<"blk", raw[2], raw[3], raw[4]>>
           /\ raw[2] \in S
<1>1. Len(raw) = 4 /\ raw[1] = "blk"
  BY DEF RecognizedInLayer, IsLayerName
<1>2. ~IsGlobalName(raw)
  BY <1>1 DEF IsGlobalName
<1>3. Canonical(raw) = <<"layers", raw[2]>> \o Field(raw)
  BY <1>2 DEF Canonical, Field
<1>4. raw = <<raw[1], raw[2], raw[3], raw[4]>> /\ raw[2] \in S
  BY <1>1, FourComponents
<1> QED
  BY <1>1, <1>3, <1>4

(* The three names outside the layers.                                        *)
LEMMA GlobalCanonical ==
    ASSUME NEW S, NEW raw \in Seq(S), IsGlobalName(raw)
    PROVE  /\ raw = <<raw[1], "weight">>
           /\ raw[1] \in {"token_embd", "output_norm", "output"}
           /\ Canonical(raw) = GlobalName[raw[1]]
           /\ Len(Canonical(raw)) = 1
  BY DEF IsGlobalName, HasSuffix, Canonical, GlobalName

(* No two names a file may contain are translated to one.                     *)
THEOREM CanonicalInjective ==
    ASSUME NEW S, NEW a \in Seq(S), NEW b \in Seq(S),
           IsRecognized(a), IsRecognized(b), Canonical(a) = Canonical(b)
    PROVE  a = b
<1> DEFINE T == Words \cup S
<1>1. Words \subseteq T /\ S \subseteq T /\ "layers" \in T
  BY DEF Words
<1> HIDE DEF T
<1>2. CASE RecognizedInLayer(a) /\ RecognizedInLayer(b)
  <2>1. <<"layers", a[2]>> \o Field(a) = <<"layers", b[2]>> \o Field(b)
    BY <1>2, LayerCanonical
  <2>2. a[2] \in T /\ b[2] \in T
    BY <1>1, <1>2, LayerCanonical
  <2>3. Field(a) \in Seq(T) /\ Field(b) \in Seq(T)
    BY <1>1, <1>2, FieldWords
  <2>4. a[2] = b[2]
    BY <1>1, <2>1, <2>2, <2>3, SecondOfConcat
  <2>5. <<"layers", a[2]>> \in Seq(T)
    BY <1>1, <2>2, ShortSeq
  <2>6. Field(a) = Field(b)
    <3>1. \A s, t, v \in Seq(T) : s \o t = s \o v => t = v
      BY ConcatSimplifications
    <3> QED
      BY <2>1, <2>3, <2>4, <2>5, <3>1
  <2>7. a[3] = b[3] /\ a[4] = b[4]
    BY <1>2, <2>6, FieldInjective
  <2>8. a = <<"blk", a[2], a[3], a[4]>> /\ b = <<"blk", b[2], b[3], b[4]>>
    BY <1>2, LayerCanonical
  <2> QED
    BY <2>4, <2>7, <2>8
<1>3. CASE IsGlobalName(a) /\ IsGlobalName(b)
  BY <1>3, GlobalCanonical DEF GlobalName
<1>4. ASSUME NEW x \in Seq(S), NEW y \in Seq(S), RecognizedInLayer(x), IsGlobalName(y)
      PROVE  Canonical(x) # Canonical(y)
  <2>1. x[2] \in T /\ Canonical(x) = <<"layers", x[2]>> \o Field(x)
    BY <1>1, <1>4, LayerCanonical
  <2>2. Field(x) \in Seq(T) /\ Len(Field(x)) \in 1 .. 2
    BY <1>1, <1>4, FieldWords
  <2>3. <<"layers", x[2]>> \in Seq(T) /\ Len(<<"layers", x[2]>>) = 2
    BY <1>1, <2>1, ShortSeq
  <2>4. Len(<<"layers", x[2]>> \o Field(x)) # 1
    BY <2>2, <2>3, ConcatProperties
  <2>5. Len(Canonical(y)) = 1
    BY <1>4, GlobalCanonical
  <2> QED
    BY <2>1, <2>4, <2>5
<1> QED
  BY <1>2, <1>3, <1>4 DEF IsRecognized, RecognizedInLayer

-----------------------------------------------------------------------------
(* A set of natural numbers that is not empty has a least element.            *)
LEMMA LeastElement ==
    ASSUME NEW S, S \subseteq Nat, S # {}
    PROVE  \E x \in S : \A y \in S : x <= y
<1>1. \E x \in S : \A y \in S : ~(<<y, x>> \in OpToRel(<, Nat))
  BY NatLessThanWellFounded, WFMin
<1>2. PICK x \in S : \A y \in S : ~(<<y, x>> \in OpToRel(<, Nat))
  BY <1>1
<1>3. \A y \in S : <<y, x>> \in Nat \X Nat
  BY <1>2
<1>4. \A y \in S : ~(y < x)
  BY <1>2, <1>3 DEF OpToRel
<1> QED
  BY <1>4

(* find() returns an element of the inventory.                                *)
LEMMA FirstNamedFound ==
    ASSUME NEW s, NEW n, FirstNamed(s, n) # Absent, Len(s) \in Nat
    PROVE  \E i \in 1 .. Len(s) : FirstNamed(s, n) = s[i]
<1> DEFINE I == {i \in 1 .. Len(s) : s[i].name = n}
<1>1. FirstNamed(s, n) = IF I = {} THEN Absent ELSE s[Min(I)]
  BY DEF FirstNamed, SelectInSeq
<1>2. I # {}
  BY <1>1
<1>3. I \subseteq Nat
  OBVIOUS
<1>4. \E x \in I : \A y \in I : x <= y
  BY <1>2, <1>3, LeastElement
<1>5. Min(I) \in I
  BY <1>4 DEF Min
<1> QED
  BY <1>1, <1>2, <1>5

(* Appending to the inventory keeps the entries that are there.               *)
LEMMA AppendKeeps ==
    ASSUME NEW s, s \in Seq(Range(s)), NEW e
    PROVE  /\ Append(s, e) \in Seq(Range(Append(s, e)))
           /\ Len(Append(s, e)) = Len(s) + 1
           /\ \A i \in 1 .. Len(s) : Append(s, e)[i] = s[i]
           /\ Append(s, e)[Len(s) + 1] = e
<1> DEFINE S == Range(s) \cup {e}
           t == Append(s, e)
<1>1. s \in Seq(S)
  BY DEF Range
<1>2. /\ t \in Seq(S)
      /\ Len(t) = Len(s) + 1
      /\ \A i \in 1 .. Len(s) : t[i] = s[i]
      /\ t[Len(s) + 1] = e
  BY <1>1, AppendProperties
<1>3. t \in Seq(Range(t))
  BY <1>2 DEF Range
<1> QED
  BY <1>2, <1>3

(* Reversing a shape keeps its length and its type.                           *)
LEMMA ReverseType ==
    ASSUME NEW S, NEW s \in Seq(S)
    PROVE  Reverse(s) \in Seq(S) /\ Len(Reverse(s)) = Len(s)
  BY DEF Reverse

(* Reversing it twice restores it.                                            *)
LEMMA ReverseTwice ==
    ASSUME NEW S, NEW s \in Seq(S)
    PROVE  Reverse(Reverse(s)) = s
<1>1. Reverse(s) \in Seq(S) /\ Len(Reverse(s)) = Len(s)
  BY ReverseType
<1>2. \A i \in 1 .. Len(s) : Reverse(Reverse(s))[i] = s[i]
  BY <1>1 DEF Reverse
<1>3. Reverse(Reverse(s)) \in Seq(S) /\ Len(Reverse(Reverse(s))) = Len(s)
  BY <1>1, ReverseType
<1> DEFINE t == Reverse(Reverse(s))
<1>4. t \in Seq(S) /\ Len(t) = Len(s) /\ \A i \in 1 .. Len(s) : t[i] = s[i]
  BY <1>2, <1>3
<1> HIDE DEF t
<1>5. t = s
  BY <1>4, SeqEqual
<1> QED
  BY <1>5 DEF t

-----------------------------------------------------------------------------
(* What ingest has made of a tensor of the parsed file.                       *)
Tensor(i) == parsed.tensors[i]

Declared(i) == SwapSides(Entry(Tensor(i)))

(* The inductive invariant. The inventory is built in the order of the file,  *)
(* one entry per accepted tensor; every entry is swapped at once; at most one *)
(* entry is added at the end.                                                 *)
InventoryFollowsFile ==
    /\ tensors \in Seq(Range(tensors))
    /\ \A i \in 1 .. Len(tensors) : i \in FromFile => IsAccepted(Tensor(i))
    /\ stage \in {"discover", "wrap"} =>
          /\ Len(tensors) <= Len(parsed.tensors)
          /\ \A i \in 1 .. Len(tensors) : tensors[i] = Entry(Tensor(i))
    /\ stage = "wrap" => Len(tensors) = Len(parsed.tensors)
    /\ stage \in {"derive", "digest", "done"} =>
          /\ Len(tensors) >= Len(parsed.tensors)
          /\ \A i \in FromFile : tensors[i] = Declared(i)
    /\ \A i \in 1 .. Len(tensors) :
          i \in FromFile => tensors[i].name = Canonical(Tensor(i).name)

Inv ==
    /\ TypeOK
    /\ parsed = Absent => tensors = <<>>
    /\ parsed # Absent => InventoryFollowsFile

(* What the parser reports, instantiated at the parsed file.                  *)
LEMMA ParsedFile ==
    ASSUME TypeOK, parsed # Absent
    PROVE  /\ parsed \in Contents
           /\ parsed.tensors \in Seq(Range(parsed.tensors))
           /\ Len(parsed.tensors) \in Nat
           /\ FromFile = 1 .. Len(parsed.tensors)
           /\ \A i \in FromFile : IsParsedTensor(Tensor(i))
<1>1. parsed \in Contents
  BY DEF TypeOK
<1>2. parsed.tensors \in Seq(Range(parsed.tensors)) /\ \A t \in Range(parsed.tensors) : IsParsedTensor(t)
  BY <1>1, ContentsAssumption
<1>3. Len(parsed.tensors) \in Nat /\ FromFile = 1 .. Len(parsed.tensors)
  BY <1>2 DEF FromFile
<1>4. \A i \in FromFile : Tensor(i) \in Range(parsed.tensors)
  BY DEF FromFile, Tensor, Range
<1> QED
  BY <1>1, <1>2, <1>3, <1>4

(* The entry and the location made of an accepted tensor are well-formed.     *)
LEMMA EntryIsEntry ==
    ASSUME NEW t, IsParsedTensor(t), IsAccepted(t)
    PROVE  /\ IsEntry(Entry(t))
           /\ IsLocation(Location(t))
           /\ Entry(t).name = Canonical(t.name)
           /\ Entry(t).shape = Reverse(t.ne)
<1>1. t.offset \in Nat /\ t.size \in Nat /\ t.dtype \in DOMAIN Width \cup Quantized
  BY DEF IsParsedTensor, IsAccepted, MissingRange
<1>2. DeclaredLength(t) # Absent
  BY <1>1, AbsentAssumption DEF DeclaredLength, IsAccepted, BadBlocks
<1>3. Shape(t) \in Seq(Nat)
  BY ReverseType DEF Shape, IsParsedTensor
<1>4. IsEntry(Entry(t))
  BY <1>1, <1>2, <1>3, WidthAssumption DEF IsEntry, Entry
<1>5. IsLocation(Location(t))
  BY <1>1, <1>2 DEF IsLocation, Location
<1> QED
  BY <1>4, <1>5 DEF Entry, Shape

(* Swapping the sides of an entry, or deriving a head from it, gives one.     *)
LEMMA SwapIsEntry ==
    ASSUME NEW t, IsEntry(t)
    PROVE  /\ IsEntry([t EXCEPT !.shape = Reverse(@), !.digest = Absent])
           /\ IsEntry(SwapSides(t))
           /\ IsEntry(SyntheticLmHead(t))
<1>1. Reverse(t.shape) \in Seq(Nat)
  BY ReverseType DEF IsEntry
<1>2. IsEntry([t EXCEPT !.shape = Reverse(@), !.digest = Absent])
  BY <1>1 DEF IsEntry
<1>3. IsEntry(SyntheticLmHead(t))
  BY <1>1 DEF IsEntry, SyntheticLmHead
<1> QED
  BY <1>2, <1>3 DEF SwapSides

-----------------------------------------------------------------------------
(* Before ingest starts nothing is parsed and nothing is in the inventory.    *)
LEMMA InitInv == Init => Inv
<1> SUFFICES ASSUME Init PROVE Inv
  OBVIOUS
<1>1. parsed = Absent /\ tensors = <<>> /\ stage = "read" /\ error = Absent /\ manifest = Absent
  BY DEF Init, IngestInit
<1>2. DOMAIN tensors = {} /\ DOMAIN locations = {}
  BY <1>1 DEF Init, IngestInit, EmptyFunction
<1>3. DiskTypeOK
  <2>1. changes \in 0 .. MaxChanges
    BY DiskAssumption DEF Init, DiskInit
  <2>2. CASE \E c \in Contents : path = 1 /\ files = <<c>>
    <3>1. PICK c \in Contents : path = 1 /\ files = <<c>>
      BY <2>2
    <3>2. <<c>> \in Seq(Contents) /\ Len(<<c>>) = 1
      BY ShortSeq
    <3> QED
      BY <2>1, <3>1, <3>2 DEF DiskTypeOK
  <2>3. CASE path = NoFile /\ files = <<>>
    <3>1. <<>> \in Seq(Contents) /\ Len(<<>>) = 0
      BY EmptySeq
    <3> QED
      BY <2>1, <2>3, <3>1 DEF DiskTypeOK, NoFile
  <2> QED
    BY <2>2, <2>3 DEF Init, DiskInit
<1> QED
  BY <1>1, <1>2, <1>3 DEF Inv, TypeOK, Stages

(* What other programs do leaves the path and its files well-formed.          *)
LEMMA ChangeDiskType ==
    ASSUME DiskTypeOK, ChangeDisk
    PROVE  DiskTypeOK'
<1>1. /\ files \in Seq(Contents) /\ Len(files) \in Nat
      /\ path \in 0 .. Len(files) /\ changes \in 0 .. MaxChanges
  BY DEF DiskTypeOK
<1>2. changes' \in 0 .. MaxChanges
  BY <1>1, DiskAssumption DEF ChangeDisk
<1>3. ASSUME NEW c \in Contents, RenameOver(c)
      PROVE  files' \in Seq(Contents) /\ path' \in 0 .. Len(files')
  BY <1>1, <1>3, AppendProperties DEF RenameOver
<1>4. ASSUME NEW c \in Contents, OverwriteInPlace(c)
      PROVE  files' \in Seq(Contents) /\ path' \in 0 .. Len(files')
  <2>1. files' = [files EXCEPT ![path] = c] /\ path' = path
    BY <1>4 DEF OverwriteInPlace
  <2>2. files \in [1 .. Len(files) -> Contents]
    BY <1>1
  <2>3. files' \in [1 .. Len(files) -> Contents]
    BY <2>1, <2>2
  <2>4. files' \in Seq(Contents) /\ Len(files') = Len(files)
    BY <1>1, <2>3, IsASeq
  <2> QED
    BY <1>1, <2>1, <2>4
<1>5. ASSUME Unlink
      PROVE  files' \in Seq(Contents) /\ path' \in 0 .. Len(files')
  BY <1>1, <1>5 DEF Unlink, NoFile
<1> QED
  BY <1>2, <1>3, <1>4, <1>5 DEF ChangeDisk, DiskTypeOK

(* A failing step reports one of the error kinds and changes nothing else.    *)
LEMMA FailInv ==
    ASSUME Inv, NEW kind \in ErrorKinds, Fail(kind), UNCHANGED diskVars, stage # "done"
    PROVE  Inv'
<1>1. /\ stage' = "failed" /\ error' = kind /\ parsed' = parsed /\ tensors' = tensors
      /\ locations' = locations /\ manifest' = manifest
      /\ path' = path /\ files' = files /\ changes' = changes
  BY DEF Fail, diskVars
<1>2. TypeOK'
  BY <1>1 DEF Inv, TypeOK, Stages, DiskTypeOK, IsEntry, IsLocation
<1>3. parsed # Absent => InventoryFollowsFile'
  BY <1>1 DEF Inv, InventoryFollowsFile, FromFile, Tensor
<1> QED
  BY <1>1, <1>2, <1>3 DEF Inv

(* Every error of ingest is one of those kinds.                               *)
LEMMA FailureInv ==
    ASSUME Inv, UNCHANGED diskVars,
           \/ FileMissing \/ FileMalformed \/ RefuseTensor \/ NoVocabulary
           \/ RefuseConfig \/ DigestUnreadable \/ RefuseName
    PROVE  Inv'
<1>1. /\ TensorError(NextTensor) \in ErrorKinds /\ ConfigError(parsed.meta) \in ErrorKinds
      /\ {"RequiredPartMissing", "MalformedMetadata", "Resolve"} \subseteq ErrorKinds
  BY DEF ErrorKinds, TensorError, NameError, ConfigError
<1>2. \E kind \in ErrorKinds : Fail(kind)
  BY <1>1 DEF FileMissing, FileMalformed, RefuseTensor, NoVocabulary, RefuseConfig,
              DigestUnreadable, RefuseName
<1>3. stage # "done"
  BY DEF FileMissing, FileMalformed, RefuseTensor, Discovering, NoVocabulary, RefuseConfig,
         Discovered, DigestUnreadable, RefuseName
<1> QED
  BY <1>2, <1>3, FailInv

(* The bytes of one read are parsed.                                          *)
LEMMA ParseFileInv ==
    ASSUME Inv, ParseFile, UNCHANGED diskVars
    PROVE  Inv'
<1>1. /\ stage = "read" /\ stage' = "discover" /\ error' = error /\ parsed' = OnDisk
      /\ tensors' = tensors /\ locations' = locations /\ manifest' = manifest
      /\ path' = path /\ files' = files /\ changes' = changes /\ path # NoFile
  BY DEF ParseFile, diskVars
<1>2. parsed = Absent /\ tensors = <<>> /\ error = Absent
  BY <1>1 DEF Inv, TypeOK
<1>3. OnDisk \in Contents
  BY <1>1 DEF Inv, TypeOK, DiskTypeOK, OnDisk, NoFile
<1>4. TypeOK'
  BY <1>1, <1>2, <1>3 DEF Inv, TypeOK, Stages, DiskTypeOK, IsEntry, IsLocation
<1>5. tensors' \in Seq(Range(tensors')) /\ Len(tensors') = 0
  BY <1>1, <1>2, EmptySeq
<1>6. Len(parsed'.tensors) \in Nat /\ parsed' # Absent
  BY <1>1, <1>3, ContentsAssumption
<1>7. InventoryFollowsFile'
  BY <1>1, <1>5, <1>6 DEF InventoryFollowsFile
<1> QED
  BY <1>4, <1>6, <1>7 DEF Inv

(* One more tensor is taken into the inventory.                               *)
LEMMA DiscoverTensorInv ==
    ASSUME Inv, DiscoverTensor, UNCHANGED diskVars
    PROVE  Inv'
<1> DEFINE n == Len(tensors)
           t == NextTensor
<1>1. /\ stage = "discover" /\ stage' = stage /\ error' = error /\ parsed' = parsed
      /\ manifest' = manifest
      /\ path' = path /\ files' = files /\ changes' = changes
      /\ n < Len(parsed.tensors) /\ IsAccepted(t)
      /\ tensors' = Append(tensors, Entry(t))
      /\ locations' = Insert(locations, Canonical(t.name), Location(t))
  BY DEF DiscoverTensor, Discovering, diskVars
<1>2. parsed # Absent /\ InventoryFollowsFile
  BY <1>1, ContentsAssumption DEF Inv, TypeOK
<1>3. n \in Nat /\ DOMAIN tensors = 1 .. n
  BY <1>2 DEF InventoryFollowsFile
<1>4. Len(parsed.tensors) \in Nat /\ FromFile = 1 .. Len(parsed.tensors) /\ n + 1 \in FromFile
      /\ t = Tensor(n + 1) /\ IsParsedTensor(t)
  <2>1. Len(parsed.tensors) \in Nat /\ FromFile = 1 .. Len(parsed.tensors)
        /\ \A i \in FromFile : IsParsedTensor(Tensor(i))
    BY <1>2, ParsedFile DEF Inv
  <2>2. n + 1 \in FromFile /\ t = Tensor(n + 1)
    BY <1>1, <1>3, <2>1 DEF NextTensor, Tensor
  <2> QED
    BY <2>1, <2>2
<1>5. IsEntry(Entry(t)) /\ IsLocation(Location(t)) /\ Entry(t).name = Canonical(t.name)
  BY <1>1, <1>4, EntryIsEntry
<1>6. /\ tensors' \in Seq(Range(tensors')) /\ Len(tensors') = n + 1
      /\ \A i \in 1 .. n : tensors'[i] = tensors[i]
      /\ tensors'[n + 1] = Entry(t)
      /\ DOMAIN tensors' = 1 .. n + 1
  <2>1. tensors \in Seq(Range(tensors))
    BY <1>2 DEF InventoryFollowsFile
  <2>2. /\ tensors' \in Seq(Range(tensors')) /\ Len(tensors') = n + 1
        /\ \A i \in 1 .. n : tensors'[i] = tensors[i]
        /\ tensors'[n + 1] = Entry(t)
    BY <1>1, <2>1, AppendKeeps
  <2> QED
    BY <2>2, <1>3
<1> HIDE DEF t, n
<1>7. \A i \in 1 .. n + 1 : IsEntry(tensors'[i])
  BY <1>3, <1>5, <1>6 DEF Inv, TypeOK
<1>8. \A x \in DOMAIN locations' : IsLocation(locations'[x])
  BY <1>1, <1>5 DEF Inv, TypeOK, Insert
<1>9. TypeOK'
  BY <1>1, <1>6, <1>7, <1>8 DEF Inv, TypeOK, Stages, DiskTypeOK, IsEntry, IsLocation
<1>10. \A i \in 1 .. n + 1 :
          IsAccepted(Tensor(i)) /\ tensors'[i] = Entry(Tensor(i))
             /\ tensors'[i].name = Canonical(Tensor(i).name)
  BY <1>1, <1>2, <1>3, <1>4, <1>5, <1>6 DEF InventoryFollowsFile, n
<1>11. InventoryFollowsFile'
  BY <1>1, <1>3, <1>4, <1>6, <1>10 DEF InventoryFollowsFile, Tensor, FromFile
<1> QED
  BY <1>1, <1>2, <1>9, <1>11 DEF Inv

(* Configuring touches neither the inventory nor the locations.               *)
LEMMA ConfigureInv ==
    ASSUME Inv, Configure, UNCHANGED diskVars
    PROVE  Inv'
<1>1. /\ stage = "discover" /\ stage' = "wrap" /\ error' = error /\ parsed' = parsed
      /\ tensors' = tensors /\ locations' = locations /\ manifest' = manifest
      /\ path' = path /\ files' = files /\ changes' = changes
      /\ Len(tensors) = Len(parsed.tensors)
  BY DEF Configure, Discovered, diskVars
<1>2. parsed # Absent /\ InventoryFollowsFile
  BY <1>1, ContentsAssumption DEF Inv, TypeOK
<1>3. TypeOK'
  BY <1>1 DEF Inv, TypeOK, Stages, DiskTypeOK, IsEntry, IsLocation
<1>4. InventoryFollowsFile'
  BY <1>1, <1>2 DEF InventoryFollowsFile, FromFile, Tensor
<1> QED
  BY <1>1, <1>2, <1>3, <1>4 DEF Inv

(* Every projection's declared sides are swapped, nothing else.               *)
LEMMA WrapAndSwapInv ==
    ASSUME Inv, WrapAndSwap, UNCHANGED diskVars
    PROVE  Inv'
<1>1. /\ stage = "wrap" /\ stage' = "derive" /\ error' = error /\ parsed' = parsed
      /\ tensors' = SwappedTensors /\ locations' = locations /\ manifest' = manifest
      /\ path' = path /\ files' = files /\ changes' = changes
  BY DEF WrapAndSwap, diskVars
<1>2. /\ parsed # Absent /\ InventoryFollowsFile
      /\ \A i \in DOMAIN tensors : IsEntry(tensors[i])
  BY <1>1, ContentsAssumption DEF Inv, TypeOK
<1>3. /\ FromFile = 1 .. Len(parsed.tensors) /\ Len(tensors) = Len(parsed.tensors)
      /\ Len(tensors) \in Nat /\ DOMAIN tensors = 1 .. Len(tensors)
  BY <1>1, <1>2, ParsedFile DEF Inv, InventoryFollowsFile
<1>4. /\ DOMAIN tensors' = 1 .. Len(tensors)
      /\ \A i \in 1 .. Len(tensors) : tensors'[i] = SwapSides(tensors[i])
  BY <1>1, <1>3 DEF SwappedTensors
<1>5. tensors' \in Seq(Range(tensors')) /\ Len(tensors') = Len(tensors)
  <2>1. tensors' \in [1 .. Len(tensors) -> Range(tensors')]
    BY <1>1, <1>4 DEF Range, SwappedTensors
  <2> QED
    BY <1>3, <2>1, IsASeq
<1>6. \A i \in 1 .. Len(tensors) : IsEntry(tensors'[i])
  BY <1>2, <1>3, <1>4, SwapIsEntry
<1>7. TypeOK'
  BY <1>1, <1>4, <1>6 DEF Inv, TypeOK, Stages, DiskTypeOK, IsEntry, IsLocation
<1>8. \A i \in 1 .. Len(tensors) :
          /\ IsAccepted(Tensor(i)) /\ tensors[i] = Entry(Tensor(i))
          /\ tensors'[i] = Declared(i)
          /\ tensors'[i].name = Canonical(Tensor(i).name)
  <2> SUFFICES ASSUME NEW i \in 1 .. Len(tensors)
               PROVE  /\ IsAccepted(Tensor(i)) /\ tensors[i] = Entry(Tensor(i))
                      /\ tensors'[i] = Declared(i)
                      /\ tensors'[i].name = Canonical(Tensor(i).name)
    OBVIOUS
  <2>1. IsAccepted(Tensor(i)) /\ tensors[i] = Entry(Tensor(i))
    BY <1>1, <1>2, <1>3 DEF InventoryFollowsFile
  <2>2. tensors'[i] = Declared(i)
    BY <1>4, <2>1 DEF Declared
  <2>3. SwapSides(tensors[i]).name = tensors[i].name
    BY <1>2, <1>3 DEF SwapSides, IsEntry
  <2>4. tensors[i].name = Canonical(Tensor(i).name)
    BY <2>1 DEF Entry
  <2> QED
    BY <2>1, <2>2, <2>3, <2>4, <1>4
<1>9. InventoryFollowsFile'
  BY <1>1, <1>3, <1>5, <1>8 DEF InventoryFollowsFile, FromFile, Tensor, Declared
<1> QED
  BY <1>1, <1>2, <1>7, <1>9 DEF Inv

(* A head is appended, or the inventory stays as it is.                       *)
LEMMA DeriveLmHeadInv ==
    ASSUME Inv, DeriveLmHead, UNCHANGED diskVars
    PROVE  Inv'
<1> DEFINE e == FirstNamed(tensors, TOKEN_EMBEDDING)
           n == Len(tensors)
<1>1. /\ stage = "derive" /\ stage' = "digest" /\ error' = error /\ parsed' = parsed
      /\ locations' = locations /\ manifest' = manifest
      /\ path' = path /\ files' = files /\ changes' = changes
      /\ tensors' = IF MayDerive THEN Append(tensors, SyntheticLmHead(e)) ELSE tensors
  BY DEF DeriveLmHead, diskVars
<1>2. /\ parsed # Absent /\ InventoryFollowsFile
      /\ \A i \in DOMAIN tensors : IsEntry(tensors[i])
  BY <1>1, ContentsAssumption DEF Inv, TypeOK
<1>3. /\ FromFile = 1 .. Len(parsed.tensors) /\ Len(parsed.tensors) \in Nat
      /\ n \in Nat /\ DOMAIN tensors = 1 .. n /\ n >= Len(parsed.tensors)
      /\ tensors \in Seq(Range(tensors))
  BY <1>1, <1>2, ParsedFile DEF Inv, InventoryFollowsFile
<1>4. CASE ~MayDerive
  <2>1. tensors' = tensors
    BY <1>1, <1>4
  <2>2. TypeOK'
    BY <1>1, <2>1 DEF Inv, TypeOK, Stages, DiskTypeOK, IsEntry, IsLocation
  <2>3. InventoryFollowsFile'
    BY <1>1, <1>2, <2>1 DEF InventoryFollowsFile, FromFile, Tensor, Declared
  <2> QED
    BY <1>1, <1>2, <2>2, <2>3 DEF Inv
<1>5. CASE MayDerive
  <2>1. e # Absent
    BY <1>5 DEF MayDerive
  <2>2. IsEntry(e)
    BY <1>2, <1>3, <2>1, FirstNamedFound
  <2>3. IsEntry(SyntheticLmHead(e))
    BY <2>2, SwapIsEntry
  <2>4. /\ tensors' \in Seq(Range(tensors')) /\ Len(tensors') = n + 1
        /\ \A i \in 1 .. n : tensors'[i] = tensors[i]
        /\ tensors'[n + 1] = SyntheticLmHead(e)
    BY <1>1, <1>3, <1>5, AppendKeeps
  <2>5. DOMAIN tensors' = 1 .. n + 1
    BY <2>4
  <2> HIDE DEF e, n
  <2>6. \A i \in 1 .. n + 1 : IsEntry(tensors'[i])
    BY <1>2, <1>3, <2>3, <2>4
  <2>7. TypeOK'
    BY <1>1, <2>5, <2>6 DEF Inv, TypeOK, Stages, DiskTypeOK, IsEntry, IsLocation
  <2>8. ASSUME NEW i \in FromFile
        PROVE  /\ i \in 1 .. n /\ IsAccepted(Tensor(i)) /\ tensors'[i] = Declared(i)
               /\ tensors'[i].name = Canonical(Tensor(i).name)
    <3>1. i \in 1 .. n
      BY <1>3
    <3>2. tensors'[i] = tensors[i]
      BY <2>4, <3>1
    <3>3. /\ IsAccepted(Tensor(i)) /\ tensors[i] = Declared(i)
          /\ tensors[i].name = Canonical(Tensor(i).name)
      BY <1>1, <1>2, <3>1 DEF InventoryFollowsFile, n
    <3> QED
      BY <3>1, <3>2, <3>3
  <2>9. /\ FromFile' = FromFile
        /\ \A i \in FromFile : Tensor(i)' = Tensor(i) /\ Declared(i)' = Declared(i)
    BY <1>1 DEF FromFile, Tensor, Declared
  <2>10. Len(tensors') >= Len(parsed'.tensors)
    BY <1>1, <1>3, <2>4
  <2>11. InventoryFollowsFile'
    BY <1>1, <2>4, <2>8, <2>9, <2>10 DEF InventoryFollowsFile
  <2> QED
    BY <1>1, <1>2, <2>7, <2>11 DEF Inv
<1> QED
  BY <1>4, <1>5

(* The manifest is built from the inventory as it is.                         *)
LEMMA BuildManifestInv ==
    ASSUME Inv, BuildManifest, UNCHANGED diskVars
    PROVE  Inv'
<1>1. /\ stage = "digest" /\ stage' = "done" /\ error' = error /\ parsed' = parsed
      /\ tensors' = tensors /\ locations' = locations
      /\ path' = path /\ files' = files /\ changes' = changes
  BY DEF BuildManifest, diskVars
<1>2. parsed # Absent /\ InventoryFollowsFile
  BY <1>1, ContentsAssumption DEF Inv, TypeOK
<1>3. TypeOK'
  BY <1>1 DEF Inv, TypeOK, Stages, DiskTypeOK, IsEntry, IsLocation
<1>4. InventoryFollowsFile'
  BY <1>1, <1>2 DEF InventoryFollowsFile, FromFile, Tensor, Declared
<1> QED
  BY <1>1, <1>2, <1>3, <1>4 DEF Inv

(* Other programs change the path, not what ingest has read.                  *)
LEMMA ChangeDiskInv ==
    ASSUME Inv, ChangeDisk, UNCHANGED ingestVars
    PROVE  Inv'
<1>1. /\ stage' = stage /\ error' = error /\ parsed' = parsed /\ tensors' = tensors
      /\ locations' = locations /\ manifest' = manifest
  BY DEF ingestVars
<1>2. DiskTypeOK'
  BY ChangeDiskType DEF Inv, TypeOK
<1>3. TypeOK'
  BY <1>1, <1>2 DEF Inv, TypeOK, IsEntry, IsLocation
<1>4. parsed # Absent => InventoryFollowsFile'
  BY <1>1 DEF Inv, InventoryFollowsFile, FromFile, Tensor, Declared
<1> QED
  BY <1>1, <1>3, <1>4 DEF Inv

(* The inductive invariant is preserved by every step.                        *)
LEMMA NextInv == Inv /\ [Next]_vars => Inv'
<1> SUFFICES ASSUME Inv, [Next]_vars PROVE Inv'
  OBVIOUS
<1>1. CASE IngestStep /\ UNCHANGED diskVars
  <2>1. CASE \/ FileMissing \/ FileMalformed \/ RefuseTensor \/ NoVocabulary
             \/ RefuseConfig \/ DigestUnreadable \/ RefuseName
    BY <1>1, <2>1, FailureInv
  <2>2. CASE ParseFile
    BY <1>1, <2>2, ParseFileInv
  <2>3. CASE DiscoverTensor
    BY <1>1, <2>3, DiscoverTensorInv
  <2>4. CASE Configure
    BY <1>1, <2>4, ConfigureInv
  <2>5. CASE WrapAndSwap
    BY <1>1, <2>5, WrapAndSwapInv
  <2>6. CASE DeriveLmHead
    BY <1>1, <2>6, DeriveLmHeadInv
  <2>7. CASE BuildManifest
    BY <1>1, <2>7, BuildManifestInv
  <2> QED
    BY <1>1, <2>1, <2>2, <2>3, <2>4, <2>5, <2>6, <2>7 DEF IngestStep
<1>2. CASE ChangeDisk /\ UNCHANGED ingestVars
  BY <1>2, ChangeDiskInv
<1>3. CASE UNCHANGED vars
  <2>1. /\ stage' = stage /\ error' = error /\ parsed' = parsed /\ tensors' = tensors
        /\ locations' = locations /\ manifest' = manifest
        /\ path' = path /\ files' = files /\ changes' = changes
    BY <1>3 DEF vars, ingestVars, diskVars
  <2>2. TypeOK'
    BY <2>1 DEF Inv, TypeOK, DiskTypeOK, IsEntry, IsLocation
  <2>3. parsed # Absent => InventoryFollowsFile'
    BY <2>1 DEF Inv, InventoryFollowsFile, FromFile, Tensor, Declared
  <2> QED
    BY <2>1, <2>2, <2>3 DEF Inv
<1> QED
  BY <1>1, <1>2, <1>3 DEF Next

(* Every state ingest reaches satisfies the inductive invariant.              *)
LEMMA Invariant == Spec => []Inv
<1> QED
  BY InitInv, NextInv, PTL DEF Spec

-----------------------------------------------------------------------------
(* Whatever model.gguf holds, and however it changes meanwhile, every entry   *)
(* and location ingest records has a byte range, and it ends with a manifest  *)
(* or with one of its errors, never both.                                     *)
THEOREM TypeCorrect == Spec => []TypeOK
<1>1. Inv => TypeOK
  BY DEF Inv
<1> QED
  BY <1>1, Invariant, PTL

(* Whether its label was reversed once or twice, an entry is declared so.      *)
LEMMA EntryOrientation == Inv => DeclaredOrientation
<1> SUFFICES ASSUME Inv, stage = "done", NEW i \in FromFile
             PROVE  tensors[i].shape =
                      IF IsTransposedProjection(tensors[i].name) /\ Len(tensors[i].shape) = 2
                      THEN Tensor(i).ne ELSE Reverse(Tensor(i).ne)
  BY DEF DeclaredOrientation, Tensor
<1>1. parsed # Absent /\ InventoryFollowsFile
  BY ContentsAssumption DEF Inv, TypeOK
<1>2. /\ IsParsedTensor(Tensor(i)) /\ i \in 1 .. Len(tensors)
  BY <1>1, ParsedFile DEF Inv, InventoryFollowsFile
<1>3. IsAccepted(Tensor(i)) /\ tensors[i] = Declared(i)
  BY <1>1, <1>2 DEF InventoryFollowsFile
<1> DEFINE e == Entry(Tensor(i))
           ne == Tensor(i).ne
<1>4. IsEntry(e) /\ e.shape = Reverse(ne) /\ ne \in Seq(Nat)
  BY <1>2, <1>3, EntryIsEntry DEF IsParsedTensor
<1>5. Reverse(Reverse(ne)) = ne
  BY <1>4, ReverseTwice
<1>6. Len(Reverse(Reverse(ne))) = Len(Reverse(ne))
  BY <1>4, ReverseType
<1>7. tensors[i] = SwapSides(e)
  BY <1>3 DEF Declared
<1> HIDE DEF e, ne
<1>8. CASE IsSwapped(e)
  <2>1. tensors[i].name = e.name /\ tensors[i].shape = Reverse(e.shape)
    BY <1>4, <1>7, <1>8 DEF SwapSides, IsEntry
  <2>2. IsTransposedProjection(e.name) /\ Len(e.shape) = 2
    BY <1>8 DEF IsSwapped
  <2>3. tensors[i].shape = ne /\ Len(tensors[i].shape) = 2
    BY <1>4, <1>5, <1>6, <2>1, <2>2
  <2> QED
    BY <2>1, <2>2, <2>3 DEF ne
<1>9. CASE ~IsSwapped(e)
  <2>1. tensors[i] = e
    BY <1>7, <1>9 DEF SwapSides
  <2>2. ~(IsTransposedProjection(e.name) /\ Len(e.shape) = 2)
    BY <1>9 DEF IsSwapped
  <2> QED
    BY <1>4, <2>1, <2>2 DEF ne
<1> QED
  BY <1>8, <1>9

(* The manifest declares a 2-D projection by its ne[] order and every other   *)
(* tensor row-major, whatever tensors the file has.                           *)
THEOREM OrientationDeclared == Spec => []DeclaredOrientation
  BY EntryOrientation, Invariant, PTL

(* No two tensors that the file names differently are given one canonical     *)
(* name, so none is read at the other's location.                             *)
THEOREM NamesStayApart == Spec => []NamesUnambiguous
<1>1. Inv => NamesUnambiguous
  <2> SUFFICES ASSUME Inv, parsed # Absent,
                      NEW i \in 1 .. Len(tensors), NEW j \in 1 .. Len(tensors),
                      i \in FromFile, j \in FromFile, tensors[i].name = tensors[j].name
               PROVE  Tensor(i).name = Tensor(j).name
    BY DEF NamesUnambiguous, Tensor
  <2>1. InventoryFollowsFile
    BY DEF Inv
  <2>2. /\ IsAccepted(Tensor(i)) /\ tensors[i].name = Canonical(Tensor(i).name)
        /\ IsAccepted(Tensor(j)) /\ tensors[j].name = Canonical(Tensor(j).name)
    BY <2>1 DEF InventoryFollowsFile
  <2>3. IsParsedTensor(Tensor(i)) /\ IsParsedTensor(Tensor(j))
    BY ParsedFile DEF Inv
  <2>4. /\ Tensor(i).name \in Seq(STRING) /\ Tensor(j).name \in Seq(STRING)
        /\ IsRecognized(Tensor(i).name) /\ IsRecognized(Tensor(j).name)
        /\ Canonical(Tensor(i).name) = Canonical(Tensor(j).name)
    BY <2>2, <2>3 DEF IsAccepted, IsParsedTensor
  <2> QED
    BY <2>4, CanonicalInjective
<1> QED
  BY <1>1, Invariant, PTL

-----------------------------------------------------------------------------
(* The finished manifest and what will read it: the configuration, the        *)
(* locations and the wrappers are, like the inventory, fixed functions of the  *)
(* parsed file.                                                               *)
TokenEmbd == <<"token_embd", "weight">>
Output == <<"output", "weight">>

(* Two names of the file have these canonical names, and no others.           *)
LEMMA GlobalNames ==
    ASSUME NEW name \in Seq(STRING), IsRecognized(name)
    PROVE  /\ Canonical(name) = TOKEN_EMBEDDING <=> name = TokenEmbd
           /\ Canonical(name) = LM_HEAD <=> name = Output
<1> DEFINE S == STRING \cup {"token_embd", "output", "weight"}
<1>1. "token_embd" \in S /\ "output" \in S /\ "weight" \in S /\ name \in Seq(S)
  OBVIOUS
<1>2. /\ TokenEmbd[1] = "token_embd" /\ TokenEmbd[2] = "weight"
      /\ Output[1] = "output" /\ Output[2] = "weight"
  BY DEF TokenEmbd, Output
<1> HIDE DEF S
<1>3. \A x, y \in S : <<x, y>> \in Seq(S) /\ Len(<<x, y>>) = 2
  BY ShortSeq
<1>4. /\ TokenEmbd \in Seq(S) /\ Len(TokenEmbd) = 2
      /\ Output \in Seq(S) /\ Len(Output) = 2
  BY <1>1, <1>3 DEF TokenEmbd, Output
<1>5. IsGlobalName(TokenEmbd) /\ IsGlobalName(Output)
  BY <1>2, <1>4 DEF IsGlobalName, HasSuffix, GlobalName
<1>6. Canonical(TokenEmbd) = TOKEN_EMBEDDING /\ Canonical(Output) = LM_HEAD
  BY <1>2, <1>5 DEF Canonical, GlobalName, TOKEN_EMBEDDING, LM_HEAD
<1>7. IsRecognized(TokenEmbd) /\ IsRecognized(Output)
  BY <1>5 DEF IsRecognized
<1> QED
  BY <1>1, <1>4, <1>6, <1>7, CanonicalInjective

(* find() returns the first element of that name.                             *)
LEMMA FirstNamedIs ==
    ASSUME NEW s, Len(s) \in Nat, NEW n, NEW i \in 1 .. Len(s), s[i].name = n,
           \A j \in 1 .. Len(s) : s[j].name = n => i <= j
    PROVE  FirstNamed(s, n) = s[i]
<1> DEFINE I == {k \in 1 .. Len(s) : s[k].name = n}
<1>1. i \in I /\ \A j \in I : i <= j
  OBVIOUS
<1>2. I \subseteq Nat
  OBVIOUS
<1>3. FirstNamed(s, n) = IF Min(I) = 0 THEN Absent ELSE s[Min(I)]
  BY <1>1 DEF FirstNamed, SelectInSeq
<1> HIDE DEF I
<1>4. Min(I) \in I /\ \A j \in I : Min(I) <= j
  BY <1>1 DEF Min
<1>5. Min(I) \in Nat /\ i \in Nat /\ Min(I) <= i /\ i <= Min(I)
  BY <1>1, <1>2, <1>4
<1>6. Min(I) = i
  BY <1>5
<1> QED
  BY <1>3, <1>5, <1>6

-----------------------------------------------------------------------------
(* Where the embedding table is in the file.                                  *)
FirstEmbedding(s) == SelectInSeq(s, LAMBDA t : t.name = TokenEmbd)

EmbeddingAt == FirstEmbedding(parsed.tensors)

IsEmbeddingAt(i) ==
    /\ i \in FromFile
    /\ Tensor(i).name = TokenEmbd
    /\ \A j \in FromFile : Tensor(j).name = TokenEmbd => i <= j

Embedding == Entry(Tensor(EmbeddingAt))

(* The tie is decided by the names of the file, the vocabulary by the         *)
(* slowest-varying dimension of its embedding table.                          *)
ConfigFollowsFile ==
    stage \in {"wrap", "derive", "digest", "done"} =>
        /\ IsEmbeddingAt(EmbeddingAt)
        /\ Embedding # Absent
        /\ Tensor(EmbeddingAt).ne # <<>>
        /\ config.vocab_size = Last(Tensor(EmbeddingAt).ne)
        /\ config.tie_word_embeddings <=> \A i \in FromFile : Tensor(i).name # Output

(* The last tensor of a name is the one at whose location it is read.         *)
LocationsFollowFile ==
    parsed # Absent =>
        \A i \in FromFile :
            /\ i <= Len(tensors)
            /\ \A j \in FromFile :
                  /\ j <= Len(tensors)
                  /\ Canonical(Tensor(j).name) = Canonical(Tensor(i).name)
                  => j <= i
            => /\ Canonical(Tensor(i).name) \in DOMAIN locations
               /\ locations[Canonical(Tensor(i).name)] = Location(Tensor(i))

(* The wrapper keeps the sides of the entries as they were stored.            *)
SidesFollowFile ==
    stage \in {"derive", "digest", "done"} =>
        sides = StoredSides([i \in FromFile |-> Entry(Tensor(i))])

(* A head is derived exactly for a tied model with a 2-D embedding table, and *)
(* is then the one entry that is not of the file.                             *)
DerivesHead == config.tie_word_embeddings /\ Len(Embedding.shape) = 2

HeadFollowsFile ==
    /\ stage \in {"read", "discover", "wrap", "derive"} => derived = Absent
    /\ stage = "derive" => Len(tensors) = Len(parsed.tensors)
    /\ stage \in {"digest", "done"} =>
          IF DerivesHead
          THEN /\ Len(tensors) = Len(parsed.tensors) + 1
               /\ tensors[Len(tensors)] = SyntheticLmHead(Embedding)
               /\ derived = DerivedFrom(Embedding)
          ELSE /\ Len(tensors) = Len(parsed.tensors)
               /\ derived = Absent

ManifestInv ==
    /\ Inv
    /\ ConfigFollowsFile
    /\ LocationsFollowFile
    /\ SidesFollowFile
    /\ HeadFollowsFile

(* The first of a reversed shape is its last, and the other way round.         *)
LEMMA ReverseEnds ==
    ASSUME NEW s \in Seq(Nat)
    PROVE  /\ Reverse(s) = <<>> <=> s = <<>>
           /\ s # <<>> => Head(Reverse(s)) = Last(s)
<1>1. Reverse(s) \in Seq(Nat) /\ Len(Reverse(s)) = Len(s)
  BY ReverseType
<1>2. Reverse(s) = <<>> <=> s = <<>>
  BY <1>1, EmptySeq
<1>3. ASSUME s # <<>> PROVE Head(Reverse(s)) = Last(s)
  <2>1. Len(s) \in Nat /\ Len(s) > 0
    BY <1>3, EmptySeq
  <2>2. Head(Reverse(s)) = Reverse(s)[1]
    BY <1>1, <1>2, <1>3
  <2>3. Reverse(s)[1] = s[Len(s) - 1 + 1]
    BY <2>1 DEF Reverse
  <2> QED
    BY <2>1, <2>2, <2>3 DEF Last
<1> QED
  BY <1>2, <1>3

(* A file with an embedding table has a first one.                            *)
LEMMA EmbeddingFound ==
    ASSUME TypeOK, parsed # Absent, NEW k \in FromFile, Tensor(k).name = TokenEmbd
    PROVE  IsEmbeddingAt(EmbeddingAt)
<1> DEFINE I == {i \in 1 .. Len(parsed.tensors) : parsed.tensors[i].name = TokenEmbd}
<1>1. FromFile = 1 .. Len(parsed.tensors) /\ Len(parsed.tensors) \in Nat
  BY ParsedFile
<1>2. k \in I /\ I \subseteq Nat
  BY <1>1 DEF Tensor
<1>3. EmbeddingAt = Min(I)
  BY <1>2 DEF EmbeddingAt, FirstEmbedding, SelectInSeq
<1>4. Min(I) \in I /\ \A j \in I : Min(I) <= j
  <2> HIDE DEF I
  <2>1. \E x \in I : \A y \in I : x <= y
    BY <1>2, LeastElement
  <2> QED
    BY <2>1 DEF Min
<1> QED
  BY <1>1, <1>3, <1>4 DEF IsEmbeddingAt, Tensor

(* The names in the inventory tell which tensors of the file they are of.     *)
LEMMA EntryNames ==
    ASSUME Inv, parsed # Absent, NEW i \in FromFile, i \in 1 .. Len(tensors)
    PROVE  /\ IsParsedTensor(Tensor(i)) /\ IsAccepted(Tensor(i))
           /\ tensors[i].name = Canonical(Tensor(i).name)
           /\ tensors[i].name = TOKEN_EMBEDDING <=> Tensor(i).name = TokenEmbd
           /\ tensors[i].name = LM_HEAD <=> Tensor(i).name = Output
<1>1. InventoryFollowsFile /\ IsParsedTensor(Tensor(i))
  BY ParsedFile DEF Inv
<1>2. IsAccepted(Tensor(i)) /\ tensors[i].name = Canonical(Tensor(i).name)
  BY <1>1 DEF InventoryFollowsFile
<1>3. Tensor(i).name \in Seq(STRING) /\ IsRecognized(Tensor(i).name)
  BY <1>1, <1>2 DEF IsParsedTensor, IsAccepted
<1> QED
  BY <1>1, <1>2, <1>3, GlobalNames

(* find() on the inventory returns the entry of that table.                   *)
LEMMA FirstEntry ==
    ASSUME Inv, parsed # Absent, IsEmbeddingAt(EmbeddingAt), EmbeddingAt <= Len(tensors)
    PROVE  FirstNamed(tensors, TOKEN_EMBEDDING) = tensors[EmbeddingAt]
<1> DEFINE e == EmbeddingAt
<1>1. /\ FromFile = 1 .. Len(parsed.tensors) /\ Len(parsed.tensors) \in Nat
      /\ Len(tensors) \in Nat
  BY ParsedFile DEF Inv, InventoryFollowsFile
<1>2. e \in FromFile /\ e \in 1 .. Len(tensors)
  BY <1>1 DEF IsEmbeddingAt
<1>3. tensors[e].name = TOKEN_EMBEDDING
  BY <1>2, EntryNames DEF IsEmbeddingAt
<1>4. ASSUME NEW j \in 1 .. Len(tensors), tensors[j].name = TOKEN_EMBEDDING
      PROVE  e <= j
  <2>1. CASE j \in FromFile
    BY <1>4, <2>1, EntryNames DEF IsEmbeddingAt
  <2>2. CASE j \notin FromFile
    BY <1>1, <1>2, <2>2
  <2> QED
    BY <2>1, <2>2
<1> HIDE DEF e
<1>5. FirstNamed(tensors, TOKEN_EMBEDDING) = tensors[e]
  BY <1>1, <1>2, <1>3, <1>4, FirstNamedIs
<1> QED
  BY <1>5 DEF e

(* The embedding is no projection: its entry is never swapped.                *)
LEMMA EmbeddingEntry ==
    ASSUME Inv, stage \in {"discover", "wrap", "derive", "digest", "done"},
           IsEmbeddingAt(EmbeddingAt), EmbeddingAt <= Len(tensors)
    PROVE  /\ FirstNamed(tensors, TOKEN_EMBEDDING) = Embedding
           /\ tensors[EmbeddingAt] = Embedding
           /\ IsEntry(Embedding)
           /\ Embedding.name = TOKEN_EMBEDDING
           /\ Tensor(EmbeddingAt).ne \in Seq(Nat)
           /\ Embedding.shape = Reverse(Tensor(EmbeddingAt).ne)
<1> DEFINE e == EmbeddingAt
<1>1. parsed # Absent
  BY ContentsAssumption DEF Inv, TypeOK
<1>2. e \in FromFile /\ e \in 1 .. Len(tensors)
  BY <1>1, ParsedFile DEF Inv, InventoryFollowsFile, IsEmbeddingAt
<1>3. /\ IsParsedTensor(Tensor(e)) /\ IsAccepted(Tensor(e))
      /\ Canonical(Tensor(e).name) = TOKEN_EMBEDDING
  BY <1>1, <1>2, EntryNames DEF IsEmbeddingAt
<1>4. /\ IsEntry(Embedding) /\ Embedding.name = TOKEN_EMBEDDING
      /\ Embedding.shape = Reverse(Tensor(e).ne)
  BY <1>3, EntryIsEntry DEF Embedding
<1>5. ~IsSwapped(Embedding)
  <2>1. TOKEN_EMBEDDING # LM_HEAD /\ Len(TOKEN_EMBEDDING) = 1
        /\ TOKEN_EMBEDDING[1] \notin ProjectionFields
    BY DEF TOKEN_EMBEDDING, LM_HEAD, ProjectionFields
  <2> QED
    BY <1>4, <2>1 DEF IsSwapped, IsTransposedProjection
<1>6. Declared(e) = Embedding
  BY <1>5 DEF Declared, SwapSides, Embedding
<1>7. tensors[e] = Embedding
  BY <1>1, <1>2, <1>6 DEF Inv, InventoryFollowsFile, Embedding
<1>8. FirstNamed(tensors, TOKEN_EMBEDDING) = tensors[e]
  BY <1>1, FirstEntry
<1> QED
  BY <1>3, <1>4, <1>7, <1>8 DEF IsParsedTensor

LEMMA ManifestInit == Init => ManifestInv
<1> SUFFICES ASSUME Init PROVE ManifestInv
  OBVIOUS
<1>1. Inv
  BY InitInv
<1> QED
  BY <1>1 DEF ManifestInv, Init, IngestInit, ConfigFollowsFile, LocationsFollowFile,
              SidesFollowFile, HeadFollowsFile

(* Steps that change nothing but how far ingest is.                           *)
LEMMA FrameManifest ==
    ASSUME ManifestInv, Inv',
           UNCHANGED <<parsed, tensors, locations, config, sides, derived>>,
           stage' \in {stage, "failed"} \/ (stage = "digest" /\ stage' = "done")
    PROVE  ManifestInv'
<1>1. /\ parsed' = parsed /\ tensors' = tensors /\ locations' = locations
      /\ config' = config /\ sides' = sides /\ derived' = derived
  OBVIOUS
<1>2. /\ FromFile' = FromFile /\ EmbeddingAt' = EmbeddingAt
      /\ \A i : Tensor(i)' = Tensor(i)
  BY <1>1 DEF FromFile, EmbeddingAt, Tensor
<1>3. ConfigFollowsFile'
  BY <1>1 DEF ManifestInv, ConfigFollowsFile, IsEmbeddingAt, Embedding, FromFile, EmbeddingAt, Tensor
<1>4. LocationsFollowFile'
  BY <1>1 DEF ManifestInv, LocationsFollowFile, FromFile, Tensor
<1>5. SidesFollowFile'
  BY <1>1 DEF ManifestInv, SidesFollowFile, FromFile, Tensor
<1>6. HeadFollowsFile'
  BY <1>1 DEF ManifestInv, HeadFollowsFile, DerivesHead, Embedding, EmbeddingAt, Tensor
<1> QED
  BY <1>3, <1>4, <1>5, <1>6 DEF ManifestInv

(* A discovered tensor takes over the location of its name.                   *)
LEMMA DiscoverManifest ==
    ASSUME ManifestInv, DiscoverTensor, Inv'
    PROVE  ManifestInv'
<1> DEFINE n == Len(tensors)
           t == Tensor(n + 1)
<1>1. /\ stage = "discover" /\ stage' = stage /\ parsed' = parsed /\ derived' = derived
      /\ n < Len(parsed.tensors)
      /\ tensors' = Append(tensors, Entry(t))
      /\ locations' = Insert(locations, Canonical(t.name), Location(t))
  BY DEF DiscoverTensor, Discovering, NextTensor, Tensor
<1>2. /\ parsed # Absent
      /\ FromFile = 1 .. Len(parsed.tensors) /\ Len(parsed.tensors) \in Nat
      /\ tensors \in Seq(Range(tensors)) /\ n \in Nat
  BY <1>1, ParsedFile, ContentsAssumption DEF ManifestInv, Inv, TypeOK, InventoryFollowsFile
<1>3. Len(tensors') = n + 1
  BY <1>1, <1>2, AppendKeeps
<1>4. LocationsFollowFile'
  <2> SUFFICES ASSUME NEW i \in FromFile, i <= n + 1,
                      \A j \in FromFile :
                         /\ j <= n + 1
                         /\ Canonical(Tensor(j).name) = Canonical(Tensor(i).name)
                         => j <= i
               PROVE  /\ Canonical(Tensor(i).name) \in DOMAIN locations'
                      /\ locations'[Canonical(Tensor(i).name)] = Location(Tensor(i))
    BY <1>1, <1>3 DEF LocationsFollowFile, FromFile, Tensor
  <2>1. n + 1 \in FromFile
    BY <1>1, <1>2
  <2>2. CASE i = n + 1
    BY <1>1, <2>2 DEF Insert
  <2>3. CASE i # n + 1
    <3>1. i <= n /\ Canonical(t.name) # Canonical(Tensor(i).name)
      BY <1>2, <2>1, <2>3
    <3>2. /\ Canonical(Tensor(i).name) \in DOMAIN locations
          /\ locations[Canonical(Tensor(i).name)] = Location(Tensor(i))
      BY <1>2, <3>1 DEF ManifestInv, LocationsFollowFile
    <3> QED
      BY <1>1, <3>1, <3>2 DEF Insert
  <2> QED
    BY <2>2, <2>3
<1>5. ConfigFollowsFile' /\ SidesFollowFile' /\ HeadFollowsFile'
  BY <1>1 DEF ManifestInv, ConfigFollowsFile, SidesFollowFile, HeadFollowsFile
<1> QED
  BY <1>4, <1>5 DEF ManifestInv

(* The configuration takes vocabulary and tie from the finished inventory.    *)
LEMMA ConfigureManifest ==
    ASSUME ManifestInv, Configure, Inv'
    PROVE  ManifestInv'
<1> DEFINE e == EmbeddingAt
<1>1. /\ stage = "discover" /\ stage' = "wrap" /\ parsed' = parsed /\ tensors' = tensors
      /\ locations' = locations /\ derived' = derived /\ sides' = sides
      /\ Len(tensors) = Len(parsed.tensors) /\ VocabSize # Absent
      /\ config'.vocab_size = VocabSize
      /\ config'.tie_word_embeddings = ~HasNamed(LM_HEAD)
  BY DEF Configure, Discovered, Normalized
<1>2. /\ Inv /\ TypeOK /\ parsed # Absent
      /\ FromFile = 1 .. Len(parsed.tensors) /\ Len(parsed.tensors) \in Nat
      /\ DOMAIN tensors = FromFile /\ Len(tensors) \in Nat
  BY <1>1, ParsedFile, ContentsAssumption DEF ManifestInv, Inv, TypeOK, InventoryFollowsFile
<1>3. FirstNamed(tensors, TOKEN_EMBEDDING) # Absent
  BY <1>1 DEF VocabSize
<1>4. PICK k \in FromFile : Tensor(k).name = TokenEmbd
  <2> DEFINE I == {i \in 1 .. Len(tensors) : tensors[i].name = TOKEN_EMBEDDING}
  <2>1. I # {}
    BY <1>3 DEF FirstNamed, SelectInSeq
  <2>2. PICK k \in 1 .. Len(tensors) : tensors[k].name = TOKEN_EMBEDDING
    BY <2>1
  <2> QED
    BY <1>1, <1>2, <2>2, EntryNames
<1>5. IsEmbeddingAt(e) /\ e <= Len(tensors)
  <2>1. IsEmbeddingAt(e)
    BY <1>2, <1>4, EmbeddingFound
  <2> QED
    BY <1>1, <1>2, <2>1 DEF IsEmbeddingAt
<1>6. /\ FirstNamed(tensors, TOKEN_EMBEDDING) = Embedding
      /\ Tensor(e).ne \in Seq(Nat) /\ Embedding.shape = Reverse(Tensor(e).ne)
  BY <1>1, <1>2, <1>5, EmbeddingEntry
<1>7. Embedding.shape # <<>> /\ VocabSize = Head(Embedding.shape)
  BY <1>1, <1>6, Zenon DEF VocabSize
<1>8. Tensor(e).ne # <<>> /\ VocabSize = Last(Tensor(e).ne)
  BY <1>6, <1>7, ReverseEnds
<1>9. HasNamed(LM_HEAD) <=> \E i \in FromFile : Tensor(i).name = Output
  BY <1>1, <1>2, EntryNames DEF HasNamed
<1>10. ConfigFollowsFile'
  <2>1. /\ FromFile' = FromFile /\ EmbeddingAt' = e
        /\ \A i : Tensor(i)' = Tensor(i)
    BY <1>1 DEF FromFile, EmbeddingAt, Tensor
  <2>2. IsEmbeddingAt(EmbeddingAt)'
    BY <1>1, <1>5 DEF IsEmbeddingAt, FromFile, EmbeddingAt, Tensor
  <2>3. (config.tie_word_embeddings <=> \A i \in FromFile : Tensor(i).name # Output)'
    BY <1>1, <1>9 DEF FromFile, Tensor
  <2>4. (/\ Embedding # Absent
         /\ Tensor(EmbeddingAt).ne # <<>>
         /\ config.vocab_size = Last(Tensor(EmbeddingAt).ne))'
    BY <1>1, <1>3, <1>6, <1>8 DEF Tensor, EmbeddingAt, Embedding
  <2> QED
    BY <2>2, <2>3, <2>4 DEF ConfigFollowsFile
<1>11. LocationsFollowFile' /\ SidesFollowFile' /\ HeadFollowsFile'
  BY <1>1 DEF ManifestInv, LocationsFollowFile, SidesFollowFile, HeadFollowsFile, FromFile, Tensor
<1> QED
  BY <1>10, <1>11 DEF ManifestInv

(* The wrapper records the sides of the inventory as discovery left it.       *)
LEMMA WrapManifest ==
    ASSUME ManifestInv, WrapAndSwap, Inv'
    PROVE  ManifestInv'
<1>1. /\ stage = "wrap" /\ stage' = "derive" /\ parsed' = parsed /\ config' = config
      /\ locations' = locations /\ derived' = derived
      /\ tensors' = SwappedTensors /\ sides' = StoredSides(tensors)
  BY DEF WrapAndSwap
<1>2. /\ parsed # Absent /\ InventoryFollowsFile
      /\ FromFile = 1 .. Len(parsed.tensors) /\ Len(parsed.tensors) \in Nat
      /\ Len(tensors) = Len(parsed.tensors)
  BY <1>1, ParsedFile, ContentsAssumption DEF ManifestInv, Inv, TypeOK, InventoryFollowsFile
<1>3. DOMAIN tensors = FromFile /\ \A i \in FromFile : tensors[i] = Entry(Tensor(i))
  BY <1>1, <1>2 DEF InventoryFollowsFile
<1>4. tensors = [i \in FromFile |-> Entry(Tensor(i))]
  <2>1. tensors = [i \in DOMAIN tensors |-> tensors[i]]
    BY <1>2 DEF InventoryFollowsFile
  <2> QED
    BY <1>3, <2>1
<1>5. SidesFollowFile'
  BY <1>1, <1>4 DEF SidesFollowFile, FromFile, Tensor
<1>6. Len(tensors') = Len(tensors)
  <2>1. DOMAIN tensors' = 1 .. Len(tensors)
    BY <1>1, <1>2, <1>3 DEF SwappedTensors
  <2> QED
    BY <1>1, <1>2, <2>1 DEF SwappedTensors
<1>7. LocationsFollowFile'
  BY <1>1, <1>6 DEF ManifestInv, LocationsFollowFile, FromFile, Tensor
<1>8. ConfigFollowsFile'
  BY <1>1 DEF ManifestInv, ConfigFollowsFile, IsEmbeddingAt, Embedding, FromFile, EmbeddingAt, Tensor
<1>9. HeadFollowsFile'
  BY <1>1, <1>2, <1>6 DEF ManifestInv, HeadFollowsFile
<1> QED
  BY <1>5, <1>7, <1>8, <1>9 DEF ManifestInv

(* A head is appended for a tied model with a 2-D table, and for no other.    *)
LEMMA DeriveManifest ==
    ASSUME ManifestInv, DeriveLmHead, Inv'
    PROVE  ManifestInv'
<1> DEFINE n == Len(tensors)
           first == FirstNamed(tensors, TOKEN_EMBEDDING)
<1>1. /\ stage = "derive" /\ stage' = "digest" /\ parsed' = parsed /\ config' = config
      /\ locations' = locations /\ sides' = sides
      /\ tensors' = IF MayDerive THEN Append(tensors, SyntheticLmHead(first)) ELSE tensors
      /\ derived' = IF MayDerive THEN DerivedFrom(first) ELSE derived
  BY DEF DeriveLmHead
<1>2. /\ Inv /\ parsed # Absent /\ derived = Absent
      /\ FromFile = 1 .. Len(parsed.tensors) /\ Len(parsed.tensors) \in Nat
      /\ n = Len(parsed.tensors) /\ DOMAIN tensors = FromFile
      /\ tensors \in Seq(Range(tensors))
  BY <1>1, ParsedFile, ContentsAssumption
  DEF ManifestInv, Inv, TypeOK, InventoryFollowsFile, HeadFollowsFile
<1>3. /\ IsEmbeddingAt(EmbeddingAt) /\ Embedding # Absent
      /\ config.tie_word_embeddings <=> \A i \in FromFile : Tensor(i).name # Output
  BY <1>1 DEF ManifestInv, ConfigFollowsFile
<1>4. EmbeddingAt <= n
  BY <1>2, <1>3 DEF IsEmbeddingAt
<1>5. first = Embedding
  BY <1>1, <1>2, <1>3, <1>4, EmbeddingEntry
<1>6. config.tie_word_embeddings => ~HasNamed(LM_HEAD)
  BY <1>2, <1>3, EntryNames DEF HasNamed
<1>7. MayDerive <=> DerivesHead
  BY <1>3, <1>5, <1>6 DEF MayDerive, DerivesHead
<1>8. DerivesHead' <=> DerivesHead
  BY <1>1 DEF DerivesHead, Embedding, EmbeddingAt, Tensor
<1>9. DerivesHead => /\ Len(tensors') = n + 1
                     /\ tensors'[n + 1] = SyntheticLmHead(Embedding)
                     /\ derived' = DerivedFrom(Embedding)
  BY <1>1, <1>2, <1>5, <1>7, AppendKeeps
<1>10. ~DerivesHead => tensors' = tensors /\ derived' = Absent
  BY <1>1, <1>2, <1>7
<1>11. HeadFollowsFile'
  <2>1. Embedding' = Embedding
    BY <1>1 DEF Embedding, EmbeddingAt, Tensor
  <2> HIDE DEF n
  <2>2. CASE DerivesHead
    BY <1>1, <1>2, <1>8, <1>9, <2>1, <2>2 DEF HeadFollowsFile
  <2>3. CASE ~DerivesHead
    BY <1>1, <1>2, <1>8, <1>10, <2>3 DEF HeadFollowsFile, n
  <2> QED
    BY <2>2, <2>3
<1>12. LocationsFollowFile'
  <2>1. Len(tensors') \in {n, n + 1}
    BY <1>9, <1>10
  <2>2. \A i \in FromFile : i <= Len(tensors) /\ i <= Len(tensors')
    BY <1>2, <2>1
  <2> QED
    BY <1>1, <1>2, <2>2 DEF ManifestInv, LocationsFollowFile, FromFile, Tensor
<1>13. ConfigFollowsFile'
  BY <1>1 DEF ManifestInv, ConfigFollowsFile, IsEmbeddingAt, Embedding, FromFile, EmbeddingAt, Tensor
<1>14. SidesFollowFile'
  BY <1>1 DEF ManifestInv, SidesFollowFile, FromFile, Tensor
<1> QED
  BY <1>11, <1>12, <1>13, <1>14 DEF ManifestInv

(* Nothing is parsed yet, so nothing follows from it but the inventory.       *)
LEMMA ParseManifest ==
    ASSUME ManifestInv, ParseFile, Inv'
    PROVE  ManifestInv'
<1>1. /\ stage = "read" /\ stage' = "discover" /\ tensors' = tensors /\ derived' = derived
      /\ parsed = Absent
  BY DEF ParseFile, ManifestInv, Inv, TypeOK
<1>2. Len(tensors') = 0
  BY <1>1, EmptySeq DEF ManifestInv, Inv
<1>3. LocationsFollowFile'
  <2>1. parsed' # Absent => FromFile' = 1 .. Len(parsed'.tensors) /\ Len(parsed'.tensors) \in Nat
    <3>1. stage' # "failed" /\ stage' # "read"
      BY <1>1
    <3>2. parsed' \in Contents
      BY <3>1 DEF Inv, TypeOK
    <3> QED
      BY <3>2, ContentsAssumption DEF FromFile
  <2> QED
    BY <1>2, <2>1 DEF LocationsFollowFile
<1> QED
  BY <1>1, <1>3 DEF ManifestInv, ConfigFollowsFile, SidesFollowFile, HeadFollowsFile

LEMMA ManifestNext == ManifestInv /\ [Next]_vars => ManifestInv'
<1> SUFFICES ASSUME ManifestInv, [Next]_vars PROVE ManifestInv'
  OBVIOUS
<1>1. Inv'
  BY NextInv DEF ManifestInv
<1>2. CASE IngestStep
  <2>1. CASE \/ FileMissing \/ FileMalformed \/ RefuseTensor \/ NoVocabulary
             \/ RefuseConfig \/ DigestUnreadable \/ RefuseName
    <3>1. \E kind : Fail(kind)
      BY <2>1, Zenon DEF FileMissing, FileMalformed, RefuseTensor, NoVocabulary, RefuseConfig,
                  DigestUnreadable, RefuseName
    <3> QED
      BY <1>1, <3>1, FrameManifest DEF Fail
  <2>2. CASE ParseFile
    BY <1>1, <2>2, ParseManifest
  <2>3. CASE DiscoverTensor
    BY <1>1, <2>3, DiscoverManifest
  <2>4. CASE Configure
    BY <1>1, <2>4, ConfigureManifest
  <2>5. CASE WrapAndSwap
    BY <1>1, <2>5, WrapManifest
  <2>6. CASE DeriveLmHead
    BY <1>1, <2>6, DeriveManifest
  <2>7. CASE BuildManifest
    BY <1>1, <2>7, FrameManifest DEF BuildManifest
  <2> QED
    BY <1>2, <2>1, <2>2, <2>3, <2>4, <2>5, <2>6, <2>7 DEF IngestStep
<1>3. CASE UNCHANGED ingestVars
  BY <1>1, <1>3, FrameManifest DEF ingestVars
<1> QED
  BY <1>2, <1>3 DEF Next, vars

LEMMA ManifestInvariant == Spec => []ManifestInv
BY ManifestInit, ManifestNext, PTL DEF Spec

-----------------------------------------------------------------------------
(* A finished ingest is never taken up again.                                 *)
LEMMA NoStepWhenDone == IngestStep => stage # "done"
  BY DEF IngestStep, FileMissing, FileMalformed, ParseFile, RefuseTensor, DiscoverTensor,
         Discovering, NoVocabulary, RefuseConfig, Configure, Discovered, WrapAndSwap,
         DeriveLmHead, DigestUnreadable, BuildManifest, RefuseName

LEMMA DoneIsFinal ==
    ASSUME stage = "done", [Next]_vars
    PROVE  stage' = "done" /\ config' = config
  BY NoStepWhenDone DEF Next, vars, ingestVars

(* What is known of the finished manifest, entry by entry.                    *)
LEMMA Finished ==
    ASSUME ManifestInv, stage = "done"
    PROVE  /\ parsed # Absent
           /\ FromFile = 1 .. Len(parsed.tensors) /\ Len(parsed.tensors) \in Nat
           /\ Len(tensors) \in Nat /\ EmbeddingAt \in FromFile
           /\ \A i \in FromFile : /\ i \in 1 .. Len(tensors)
                                 /\ IsParsedTensor(Tensor(i)) /\ IsAccepted(Tensor(i))
                                 /\ IsEntry(Entry(Tensor(i)))
                                 /\ tensors[i] = Declared(i)
           /\ IsEntry(Embedding) /\ tensors[EmbeddingAt] = Embedding
           /\ FirstNamed(tensors, TOKEN_EMBEDDING) = Embedding
           /\ Tensor(EmbeddingAt).ne \in Seq(Nat)
           /\ Embedding.shape = Reverse(Tensor(EmbeddingAt).ne)
           /\ derived # Absent =>
                 /\ Len(Embedding.shape) = 2
                 /\ derived = DerivedFrom(Embedding)
                 /\ Last(tensors) = SyntheticLmHead(Embedding)
<1>1. /\ parsed # Absent /\ Inv
      /\ FromFile = 1 .. Len(parsed.tensors) /\ Len(parsed.tensors) \in Nat
      /\ Len(tensors) \in Nat /\ Len(tensors) >= Len(parsed.tensors)
  BY ParsedFile, ContentsAssumption DEF ManifestInv, Inv, TypeOK, InventoryFollowsFile
<1>2. ASSUME NEW i \in FromFile
      PROVE  /\ i \in 1 .. Len(tensors)
             /\ IsParsedTensor(Tensor(i)) /\ IsAccepted(Tensor(i))
             /\ IsEntry(Entry(Tensor(i)))
             /\ tensors[i] = Declared(i)
  <2>1. i \in 1 .. Len(tensors)
    BY <1>1
  <2>2. IsParsedTensor(Tensor(i)) /\ IsAccepted(Tensor(i))
    BY <1>1, <2>1, EntryNames
  <2>3. tensors[i] = Declared(i)
    BY <1>1 DEF Inv, InventoryFollowsFile
  <2> QED
    BY <2>1, <2>2, <2>3, EntryIsEntry
<1>3. IsEmbeddingAt(EmbeddingAt) /\ EmbeddingAt \in FromFile /\ EmbeddingAt <= Len(tensors)
  BY <1>1 DEF ManifestInv, ConfigFollowsFile, IsEmbeddingAt
<1>4. /\ FirstNamed(tensors, TOKEN_EMBEDDING) = Embedding
      /\ tensors[EmbeddingAt] = Embedding
      /\ IsEntry(Embedding)
      /\ Tensor(EmbeddingAt).ne \in Seq(Nat)
      /\ Embedding.shape = Reverse(Tensor(EmbeddingAt).ne)
  BY <1>1, <1>3, EmbeddingEntry
<1>5. derived # Absent =>
         /\ Len(Embedding.shape) = 2
         /\ derived = DerivedFrom(Embedding)
         /\ Last(tensors) = SyntheticLmHead(Embedding)
  BY DEF ManifestInv, HeadFollowsFile, DerivesHead, Last
<1> QED
  BY <1>1, <1>2, <1>3, <1>4, <1>5

(* What was derived is told from None.                                        *)
LEMMA DerivedHead ==
    ASSUME ManifestInv, stage = "done"
    PROVE  DerivesHead <=> derived # Absent
<1> DEFINE t == Tensor(EmbeddingAt)
<1>1. CASE DerivesHead
  <2>1. derived = DerivedFrom(Embedding) /\ Len(Embedding.shape) = 2
    BY <1>1 DEF ManifestInv, HeadFollowsFile, DerivesHead
  <2>2. IsAccepted(t) /\ t.ne \in Seq(Nat) /\ Embedding.shape = Reverse(t.ne)
    BY Finished
  <2>3. Len(t.ne) = 2
    BY <2>1, <2>2, ReverseType
  <2>4. parsed \in Contents /\ t \in Range(parsed.tensors)
    BY Finished, ParsedFile DEF ManifestInv, Inv, Tensor, Range, FromFile
  <2> QED
    BY <1>1, <2>1, <2>2, <2>3, <2>4, WrapperAssumption DEF Embedding
<1>2. CASE ~DerivesHead
  BY <1>2 DEF ManifestInv, HeadFollowsFile
<1> QED
  BY <1>1, <1>2

(* A model with a 2-D embedding has a head in its manifest, a derived one     *)
(* exactly if the configuration says it is tied, and that exactly if the file *)
(* has no tensor output.weight.                                               *)
THEOREM HeadInManifest == Spec => []HeadIsPublished
<1>1. ManifestInv => HeadIsPublished
  <2> SUFFICES ASSUME ManifestInv, stage = "done", Len(FirstNamed(tensors, TOKEN_EMBEDDING).shape) = 2
               PROVE  /\ HasNamed(LM_HEAD)
                      /\ config.tie_word_embeddings <=> (derived # Absent)
                      /\ config.tie_word_embeddings <=>
                            \A i \in FromFile : parsed.tensors[i].name # <<"output", "weight">>
    BY DEF HeadIsPublished
  <2>1. Len(Embedding.shape) = 2
    BY Finished
  <2>2. config.tie_word_embeddings <=> derived # Absent
    BY <2>1, DerivedHead DEF DerivesHead
  <2>3. config.tie_word_embeddings <=> \A i \in FromFile : Tensor(i).name # Output
    BY DEF ManifestInv, ConfigFollowsFile
  <2>4. DOMAIN tensors = 1 .. Len(tensors) /\ Len(tensors) \in Nat
    BY Finished DEF ManifestInv, Inv, InventoryFollowsFile
  <2>5. CASE config.tie_word_embeddings
    <3>1. /\ Len(tensors) = Len(parsed.tensors) + 1
          /\ tensors[Len(tensors)] = SyntheticLmHead(Embedding)
      BY <2>1, <2>5 DEF ManifestInv, HeadFollowsFile, DerivesHead
    <3>2. tensors[Len(tensors)].name = LM_HEAD
      BY <3>1, Finished DEF SyntheticLmHead, IsEntry
    <3>3. Len(tensors) \in DOMAIN tensors
      BY <2>4, <3>1, Finished
    <3> QED
      BY <2>2, <2>3, <3>2, <3>3 DEF HasNamed, Tensor, Output
  <2>6. CASE ~config.tie_word_embeddings
    <3>1. PICK i \in FromFile : Tensor(i).name = Output
      BY <2>3, <2>6
    <3>2. i \in 1 .. Len(tensors) /\ i \in DOMAIN tensors
      BY <2>4, Finished
    <3>3. tensors[i].name = LM_HEAD
      BY <3>1, <3>2, EntryNames, Finished DEF ManifestInv
    <3> QED
      BY <2>2, <2>3, <3>2, <3>3 DEF HasNamed, Tensor, Output
  <2> QED
    BY <2>5, <2>6
<1> QED
  BY <1>1, ManifestInvariant, PTL

(* The vocabulary of the configuration is the number of rows of the embedding *)
(* table the file has, and of the columns of a head derived from it.          *)
THEOREM VocabularyIsEmbedding == Spec => []VocabularyAgrees
<1>1. ManifestInv => VocabularyAgrees
  <2> SUFFICES ASSUME ManifestInv, stage = "done"
               PROVE  /\ config.vocab_size = Last(parsed.tensors[EmbeddingAt].ne)
                      /\ derived # Absent => Last(Last(tensors).shape) = config.vocab_size
    BY DEF VocabularyAgrees, EmbeddingAt, FirstEmbedding, TokenEmbd
  <2>1. config.vocab_size = Last(parsed.tensors[EmbeddingAt].ne)
    BY DEF ManifestInv, ConfigFollowsFile, Tensor
  <2>2. ASSUME derived # Absent
        PROVE  Last(Last(tensors).shape) = config.vocab_size
    <3>1. IsEntry(Embedding) /\ Last(tensors) = SyntheticLmHead(Embedding)
      BY <2>2, Finished
    <3>2. Last(tensors).shape = Reverse(Embedding.shape)
      BY <3>1 DEF SyntheticLmHead, IsEntry
    <3>3. Reverse(Embedding.shape) = parsed.tensors[EmbeddingAt].ne
      BY Finished, ReverseTwice DEF Tensor
    <3> QED
      BY <2>1, <3>2, <3>3
  <2> QED
    BY <2>1, <2>2
<1> QED
  BY <1>1, ManifestInvariant, PTL

(* The tensors of a file that names them apart are also told apart by their   *)
(* canonical names, so each has the location that was recorded for it.        *)
LEMMA EntriesApart ==
    ASSUME ManifestInv, stage = "done", DistinctNames, NEW i \in FromFile, NEW j \in FromFile,
           Canonical(Tensor(i).name) = Canonical(Tensor(j).name)
    PROVE  j = i
<1>1. /\ Tensor(i).name \in Seq(STRING) /\ IsRecognized(Tensor(i).name)
      /\ Tensor(j).name \in Seq(STRING) /\ IsRecognized(Tensor(j).name)
  BY Finished DEF IsParsedTensor, IsAccepted
<1>2. Tensor(i).name = Tensor(j).name
  BY <1>1, CanonicalInjective
<1> QED
  BY <1>2 DEF DistinctNames, Tensor

LEMMA EntryLocation ==
    ASSUME ManifestInv, stage = "done", DistinctNames, NEW i \in FromFile
    PROVE  /\ tensors[i].name = Canonical(Tensor(i).name)
           /\ tensors[i].offset = Tensor(i).offset
           /\ tensors[i].size = DeclaredLength(Tensor(i))
           /\ tensors[i].name \in DOMAIN locations
           /\ locations[tensors[i].name] = Location(Tensor(i))
<1> DEFINE t == Tensor(i)
           n == Canonical(t.name)
<1>1. /\ i <= Len(tensors) /\ IsEntry(Entry(t)) /\ tensors[i] = SwapSides(Entry(t))
  BY Finished DEF Declared
<1>2. ASSUME NEW j \in FromFile, Canonical(Tensor(j).name) = n
      PROVE  j = i
  BY <1>2, EntriesApart
<1>3. i <= i
  BY Finished
<1>4. n \in DOMAIN locations /\ locations[n] = Location(t)
  BY <1>1, <1>2, <1>3, Finished DEF ManifestInv, LocationsFollowFile
<1>5. /\ tensors[i].name = Entry(t).name /\ tensors[i].offset = Entry(t).offset
      /\ tensors[i].size = Entry(t).size
  BY <1>1 DEF SwapSides, IsEntry
<1> QED
  BY <1>4, <1>5 DEF Entry

(* Every range made from the manifest of a file that names its tensors apart, *)
(* and the one behind a derived head, is recorded with that offset and length.*)
THEOREM RangesAddressable == Spec => []EntriesAddressable
<1>1. ManifestInv => EntriesAddressable
  <2> SUFFICES ASSUME ManifestInv, stage = "done", DistinctNames
               PROVE  /\ \A i \in FromFile : Addressable(RangeOf(tensors[i]))
                      /\ derived # Absent => Addressable(derived.range)
    BY DEF EntriesAddressable
  <2>1. ASSUME NEW i \in FromFile
        PROVE  Addressable(RangeOf(tensors[i]))
    <3> DEFINE n == tensors[i].name
    <3>1. /\ n \in DOMAIN locations
          /\ locations[n].offset = tensors[i].offset
          /\ locations[n].declared = tensors[i].size
      <4>1. /\ tensors[i].offset = Tensor(i).offset
            /\ tensors[i].size = DeclaredLength(Tensor(i))
            /\ n \in DOMAIN locations /\ locations[n] = Location(Tensor(i))
        BY EntryLocation
      <4>2. /\ Location(Tensor(i)).offset = Tensor(i).offset
            /\ Location(Tensor(i)).declared = DeclaredLength(Tensor(i))
        BY DEF Location
      <4> QED
        BY <4>1, <4>2
    <3> QED
      BY <3>1 DEF Addressable, RangeOf
  <2>2. derived # Absent => derived.range = RangeOf(tensors[EmbeddingAt])
    BY Finished DEF DerivedFrom
  <2> QED
    BY <2>1, <2>2, Finished
<1> QED
  BY <1>1, ManifestInvariant, PTL

(* A matrix has its two sides exchanged by reversing the label.               *)
LEMMA ReversePair ==
    ASSUME NEW s \in Seq(Nat), Len(s) = 2
    PROVE  Reverse(s) = <<s[2], s[1]>>
<1>1. Reverse(s) \in Seq(Nat) /\ Len(Reverse(s)) = 2
  BY ReverseType
<1>2. Reverse(s)[1] = s[2] /\ Reverse(s)[2] = s[1]
  BY DEF Reverse
<1>3. s[1] \in Nat /\ s[2] \in Nat
  OBVIOUS
<1>4. <<s[2], s[1]>> \in Seq(Nat) /\ Len(<<s[2], s[1]>>) = 2
  BY <1>3, ShortSeq
<1>5. \A i \in 1 .. 2 : Reverse(s)[i] = <<s[2], s[1]>>[i]
  BY <1>2
<1> QED
  BY <1>1, <1>4, <1>5, SeqEqual

(* In every state of the invariant, not only at the end of a behaviour.       *)
LEMMA FinishedSides == ManifestInv => SidesMatchManifest
<1> SUFFICES ASSUME ManifestInv, stage = "done", DistinctNames
             PROVE  /\ DOMAIN sides = {tensors[i].name : i \in {j \in FromFile : IsSwapped(tensors[j])}}
                    /\ \A i \in FromFile : tensors[i].name \in DOMAIN sides =>
                          /\ tensors[i].shape = <<sides[tensors[i].name].cols, sides[tensors[i].name].rows>>
                          /\ sides[tensors[i].name].width = Width[tensors[i].dtype]
                    /\ derived # Absent => Last(tensors).shape = <<derived.cols, derived.rows>>
  BY DEF SidesMatchManifest
<1> DEFINE e(i) == Entry(Tensor(i))
           entries == [i \in FromFile |-> e(i)]
           named(n) == {i \in FromFile : e(i).name = n /\ IsSwapped(e(i))}
           last(n) == e(CHOOSE i \in named(n) : \A j \in named(n) : j <= i)
<1>1. ASSUME NEW i \in FromFile
      PROVE  /\ IsEntry(e(i)) /\ tensors[i] = SwapSides(e(i))
             /\ tensors[i].name = e(i).name /\ tensors[i].dtype = e(i).dtype
             /\ IsSwapped(e(i)) => tensors[i].shape = Reverse(e(i).shape)
             /\ IsSwapped(tensors[i]) <=> IsSwapped(e(i))
  <2>1. IsEntry(e(i)) /\ tensors[i] = SwapSides(e(i))
    BY Finished DEF Declared
  <2> HIDE DEF e
  <2>2. Len(Reverse(e(i).shape)) = Len(e(i).shape)
    BY <2>1, ReverseType DEF IsEntry
  <2>3. /\ tensors[i].name = e(i).name /\ tensors[i].dtype = e(i).dtype
        /\ tensors[i].shape = IF IsSwapped(e(i)) THEN Reverse(e(i).shape) ELSE e(i).shape
    BY <2>1 DEF SwapSides, IsEntry
  <2>4. IsSwapped(tensors[i]) <=> IsSwapped(e(i))
    BY <2>2, <2>3 DEF IsSwapped
  <2> QED
    BY <2>1, <2>3, <2>4
<1>2. ASSUME NEW i \in FromFile, NEW j \in FromFile, e(i).name = e(j).name
      PROVE  j = i
  <2>1. Canonical(Tensor(i).name) = Canonical(Tensor(j).name)
    BY <1>2 DEF Entry
  <2> QED
    BY <2>1, EntriesApart
<1>3. DOMAIN entries = FromFile /\ \A i \in FromFile : entries[i] = e(i)
  OBVIOUS
<1>4. sides = StoredSides(entries)
  BY DEF ManifestInv, SidesFollowFile, e
<1> HIDE DEF entries
<1>5. DOMAIN sides = {e(i).name : i \in {j \in FromFile : IsSwapped(e(j))}}
  BY <1>3, <1>4 DEF StoredSides
<1>6. ASSUME NEW i \in FromFile, IsSwapped(e(i))
      PROVE  sides[e(i).name] = [rows  |-> e(i).shape[1],
                                 cols  |-> e(i).shape[2],
                                 width |-> Width[e(i).dtype]]
  <2> DEFINE n == e(i).name
             at == {k \in DOMAIN entries : entries[k].name = n /\ IsSwapped(entries[k])}
             chosen == CHOOSE k \in at : \A j \in at : j <= k
  <2>1. at = {i}
    BY <1>2, <1>3, <1>6
  <2>2. i <= i
    BY Finished
  <2>3. chosen = i
    BY <2>1, <2>2
  <2>4. n \in DOMAIN sides
    BY <1>5, <1>6
  <2>5. sides[n] = [rows  |-> entries[chosen].shape[1],
                    cols  |-> entries[chosen].shape[2],
                    width |-> Width[entries[chosen].dtype]]
    BY <1>4, <2>4 DEF StoredSides
  <2> QED
    BY <1>3, <2>3, <2>5
<1>7. DOMAIN sides = {tensors[i].name : i \in {j \in FromFile : IsSwapped(tensors[j])}}
  BY <1>1, <1>5
<1>8. ASSUME NEW i \in FromFile, tensors[i].name \in DOMAIN sides
      PROVE  /\ tensors[i].shape = <<sides[tensors[i].name].cols, sides[tensors[i].name].rows>>
             /\ sides[tensors[i].name].width = Width[tensors[i].dtype]
  <2>1. IsSwapped(e(i))
    BY <1>1, <1>2, <1>5, <1>8
  <2>2. e(i).shape \in Seq(Nat) /\ Len(e(i).shape) = 2
    BY <1>1, <2>1 DEF IsEntry, IsSwapped
  <2>3. tensors[i].shape = <<e(i).shape[2], e(i).shape[1]>>
    BY <1>1, <2>1, <2>2, ReversePair
  <2>4. tensors[i].name = e(i).name /\ tensors[i].dtype = e(i).dtype
    BY <1>1
  <2>5. sides[tensors[i].name] = [rows  |-> e(i).shape[1],
                                  cols  |-> e(i).shape[2],
                                  width |-> Width[e(i).dtype]]
    BY <1>6, <2>1, <2>4
  <2>6. /\ sides[tensors[i].name].cols = e(i).shape[2]
        /\ sides[tensors[i].name].rows = e(i).shape[1]
        /\ sides[tensors[i].name].width = Width[e(i).dtype]
    BY <2>5
  <2> QED
    BY <2>3, <2>4, <2>6
<1>9. ASSUME derived # Absent
      PROVE  Last(tensors).shape = <<derived.cols, derived.rows>>
  <2>1. /\ IsEntry(Embedding) /\ Len(Embedding.shape) = 2
        /\ derived = DerivedFrom(Embedding)
        /\ Last(tensors) = SyntheticLmHead(Embedding)
    BY <1>9, Finished
  <2>2. Last(tensors).shape = Reverse(Embedding.shape)
    BY <2>1 DEF SyntheticLmHead, IsEntry
  <2>3. Reverse(Embedding.shape) = <<Embedding.shape[2], Embedding.shape[1]>>
    BY <2>1, ReversePair DEF IsEntry
  <2> QED
    BY <2>1, <2>2, <2>3 DEF DerivedFrom
<1> QED
  BY <1>7, <1>8, <1>9

(* Of a file that names its tensors apart, exactly the projections are        *)
(* transposed, from the sides that the manifest's label turned round, at the  *)
(* width of their elements; and so is the embedding behind a derived head.    *)
THEOREM SidesOfManifest == Spec => []SidesMatchManifest
  BY FinishedSides, ManifestInvariant, PTL
=============================================================================
