-------------------------- MODULE TokenizerProofs --------------------------
(* Theorems about Tokenizer, for any vocabulary, prompt and limit.            *)
EXTENDS Tokenizer, VocabularyProofs

(* The place in the prompt of the i-th token that a policy keeps.             *)
Place(i, count, limit, truncation) ==
    IF truncation \in {"Left", "ClientPolicy"} THEN i + count - limit
    ELSE IF truncation \in {"Right", "ModelDefault"} THEN i
    ELSE IF i <= limit \div 2 THEN i ELSE i + count - limit

(* Truncation keeps exactly the elements at those places.                     *)
LEMMA TruncatedPlaces ==
    ASSUME NEW S, NEW s \in Seq(S), NEW limit \in Nat, limit < Len(s),
           NEW truncation \in Policies, truncation # "None"
    PROVE  LET t == Truncated(s, Len(s), limit, truncation)
           IN  /\ Len(t) = limit
               /\ \A i \in 1 .. limit : t[i] = s[Place(i, Len(s), limit, truncation)]
<1> DEFINE n == Len(s)
           t == Truncated(s, n, limit, truncation)
<1>0. n \in Nat /\ \A i \in 1 .. n : s[i] \in S
  BY LenProperties
<1>1. CASE truncation \in {"Left", "ClientPolicy"}
  <2>1. t = SubSeq(s, n - limit + 1, n)
    BY <1>1 DEF Truncated
  <2>2. /\ Len(t) = IF n - limit + 1 <= n THEN n - (n - limit + 1) + 1 ELSE 0
        /\ \A i \in 1 .. n - (n - limit + 1) + 1 : t[i] = s[n - limit + 1 + i - 1]
    <3>1. \A i \in n - limit + 1 .. n : s[i] \in S
      BY <1>0
    <3> HIDE DEF n, t
    <3> QED
      BY <1>0, <2>1, <3>1, SubSeqProperties
  <2> QED
    BY <1>0, <1>1, <2>2 DEF Place
<1>2. CASE truncation \in {"Right", "ModelDefault"}
  <2>1. t = SubSeq(s, 1, limit)
    BY <1>2 DEF Truncated
  <2>2. /\ Len(t) = IF 1 <= limit THEN limit - 1 + 1 ELSE 0
        /\ \A i \in 1 .. limit - 1 + 1 : t[i] = s[1 + i - 1]
    <3>1. \A i \in 1 .. limit : s[i] \in S
      BY <1>0
    <3> HIDE DEF n, t
    <3> QED
      BY <1>0, <2>1, <3>1, SubSeqProperties
  <2> QED
    BY <1>0, <1>2, <2>2 DEF Place
<1>3. CASE truncation = "Middle"
  <2> DEFINE left == limit \div 2
             tail == n - (limit - left)
             front == SubSeq(s, 1, left)
             back == SubSeq(s, tail + 1, n)
  <2>1. t = front \o back
    BY <1>3 DEF Truncated
  <2>2. left \in Nat /\ left <= limit /\ tail \in Nat /\ left <= tail /\ tail <= n
    BY <1>0
  <2> HIDE DEF left, tail, t, n
  <2>3. /\ front \in Seq(S)
        /\ Len(front) = left
        /\ \A i \in 1 .. left : front[i] = s[i]
    <3>1. \A i \in 1 .. left : s[i] \in S
      BY <1>0, <2>2
    <3>2. /\ front \in Seq(S)
          /\ Len(front) = IF 1 <= left THEN left - 1 + 1 ELSE 0
          /\ \A i \in 1 .. left - 1 + 1 : front[i] = s[1 + i - 1]
      BY <2>2, <3>1, SubSeqProperties
    <3> QED
      BY <2>2, <3>2
  <2>4. /\ back \in Seq(S)
        /\ Len(back) = limit - left
        /\ \A i \in 1 .. limit - left : back[i] = s[tail + i]
    <3>1. \A i \in tail + 1 .. n : s[i] \in S
      BY <1>0, <2>2
    <3>2. /\ back \in Seq(S)
          /\ Len(back) = IF tail + 1 <= n THEN n - (tail + 1) + 1 ELSE 0
          /\ \A i \in 1 .. n - (tail + 1) + 1 : back[i] = s[tail + 1 + i - 1]
      BY <1>0, <2>2, <3>1, SubSeqProperties
    <3> QED
      BY <1>0, <2>2, <3>2 DEF tail
  <2> HIDE DEF front, back
  <2>5. /\ Len(t) = left + (limit - left)
        /\ \A i \in 1 .. left + (limit - left) :
              t[i] = IF i <= left THEN front[i] ELSE back[i - left]
    <3>1. /\ Len(front \o back) = Len(front) + Len(back)
          /\ \A i \in 1 .. Len(front) + Len(back) :
                (front \o back)[i] = IF i <= Len(front) THEN front[i] ELSE back[i - Len(front)]
      BY <2>3, <2>4, ConcatProperties, Zenon
    <3> QED
      BY <2>1, <2>2, <2>3, <2>4, <3>1
  <2>6. \A i \in 1 .. limit : t[i] = IF i <= left THEN s[i] ELSE s[i + n - limit]
    <3> SUFFICES ASSUME NEW i \in 1 .. limit
                 PROVE  t[i] = IF i <= left THEN s[i] ELSE s[i + n - limit]
      OBVIOUS
    <3>1. CASE i <= left
      BY <2>2, <2>3, <2>5, <3>1
    <3>2. CASE ~(i <= left)
      <4>1. i - left \in 1 .. limit - left /\ tail + (i - left) = i + n - limit
        BY <1>0, <2>2, <3>2 DEF tail
      <4>2. t[i] = back[i - left]
        BY <2>2, <2>5, <3>2
      <4> QED
        BY <2>4, <3>2, <4>1, <4>2
    <3> QED
      BY <3>1, <3>2
  <2> QED
    BY <1>3, <2>2, <2>5, <2>6 DEF Place, n, t, left
<1> QED
  BY <1>1, <1>2, <1>3 DEF Policies

-----------------------------------------------------------------------------
(* The answer of an encode is a function of its prompt and of a tokenizer     *)
(* that no call changes.                                                      *)
Answered ==
    /\ prompt.pieces \in SeqsUpTo(DOMAIN tokenizer.vocab, MaxPieces)
    /\ prompt.limit \in Limits \cup {Absent}
    /\ prompt.truncation \in Policies
    /\ ~TooLong(prompt.pieces, prompt.limit, prompt.truncation)
    /\ output = Encoded(prompt.pieces, prompt.limit, prompt.truncation)

Built ==
    /\ meta \in Metadata
    /\ expected_vocab_size \in ExpectedSizes
    /\ tokenizer # Absent =>
          IsBuildable(meta, expected_vocab_size) /\ tokenizer = GgufTokenizer(meta)

(* What is decoded after an encode is what the encode returned.               *)
Decoded ==
    InRange(output.token_ids) =>
        /\ call.result = "Ok"
        /\ call.skip_special_tokens \in BOOLEAN
        /\ call.texts = Texts(output.token_ids, call.skip_special_tokens)

Inv ==
    /\ Built
    /\ call.name = "from_gguf_metadata" => output = Absent
    /\ output # Absent => tokenizer # Absent /\ Answered
    /\ output # Absent /\ call.name = "decode" => Decoded

LEMMA InitInv == Init => Inv
BY DEF Init, Inv, Built

(* Construction, refused or not, happens before any answer.                   *)
LEMMA BuildInv ==
    ASSUME Inv, Refuse \/ Build
    PROVE  Inv'
<1>1. call = [name |-> "from_gguf_metadata", result |-> Absent] /\ output = Absent
  BY DEF Refuse, Build, Building, Inv
<1>2. output' = Absent
  BY <1>1 DEF Refuse, Build
<1>3. Built'
  <2>1. CASE Refuse
    BY <2>1 DEF Refuse, Inv, Built
  <2>2. CASE Build
    BY <2>2 DEF Build, Inv, Built
  <2> QED
    BY <2>1, <2>2
<1> QED
  BY <1>2, <1>3 DEF Inv

(* An encode answers with what its prompt becomes, or not at all.             *)
LEMMA EncodeInv ==
    ASSUME Inv, NEW pieces \in Prompts, NEW limit \in Limits \cup {Absent},
           NEW truncation \in Policies,
           \/ EncodeFails(pieces, limit, truncation)
           \/ PromptTooLong(pieces, limit, truncation)
           \/ Encode(pieces, limit, truncation)
    PROVE  Inv'
<1>1. /\ tokenizer # Absent
      /\ call.name = "from_gguf_metadata"
      /\ pieces \in SeqsUpTo(DOMAIN tokenizer.vocab, MaxPieces)
  BY DEF Prompts
<1>2. /\ prompt' = [pieces |-> pieces, limit |-> limit, truncation |-> truncation]
      /\ UNCHANGED <<meta, expected_vocab_size, tokenizer>>
  BY DEF EncodeFails, PromptTooLong, Encode, Asks
<1>3. Built'
  BY <1>2 DEF Inv, Built
<1>4. call'.name = "encode"
  BY DEF EncodeFails, PromptTooLong, Encode
<1>5. CASE EncodeFails(pieces, limit, truncation) \/ PromptTooLong(pieces, limit, truncation)
  <2>1. output' = Absent
    BY <1>1, <1>5 DEF EncodeFails, PromptTooLong, Inv
  <2> QED
    BY <1>3, <2>1 DEF Inv
<1>6. CASE Encode(pieces, limit, truncation)
  <2>1. ~TooLong(pieces, limit, truncation) /\ output' = Encoded(pieces, limit, truncation)
    BY <1>6 DEF Encode
  <2>2. /\ prompt'.pieces = pieces
        /\ prompt'.limit = limit
        /\ prompt'.truncation = truncation
    BY <1>2
  <2>3. output' = Encoded(prompt.pieces, prompt.limit, prompt.truncation)'
    BY <1>2, <2>1, <2>2 DEF Encoded, Ids
  <2>4. Answered'
    BY <1>1, <1>2, <2>1, <2>2, <2>3 DEF Answered, TooLong
  <2> QED
    BY <1>1, <1>2, <1>3, <1>4, <2>4 DEF Inv
<1> QED
  BY <1>5, <1>6

(* A decode leaves the answer it decodes as it is.                            *)
LEMMA DecodeInv ==
    ASSUME Inv, NEW ids \in DecodeInputs, NEW skip_special_tokens \in BOOLEAN,
           Decode(ids, skip_special_tokens) \/ InvalidTokenId(ids)
    PROVE  Inv'
<1>1. /\ UNCHANGED <<meta, expected_vocab_size, tokenizer, prompt, output>>
      /\ call'.name = "decode"
  BY DEF Decode, InvalidTokenId
<1>2. Built' /\ (output # Absent => tokenizer # Absent /\ Answered)'
  BY <1>1 DEF Inv, Built, Answered, Encoded, Ids
<1>3. ASSUME output # Absent
      PROVE  Decoded'
  <2>1. ids = output.token_ids
    BY <1>3 DEF DecodeInputs
  <2>2. InRange(output.token_ids)' <=> InRange(ids)
    BY <1>1, <2>1 DEF InRange
  <2>3. CASE InRange(ids)
    <3>1. Decode(ids, skip_special_tokens)
      BY <2>3 DEF InvalidTokenId
    <3>2. /\ call'.result = "Ok" /\ call'.skip_special_tokens = skip_special_tokens
          /\ call'.texts = Texts(ids, skip_special_tokens)
      BY <3>1 DEF Decode
    <3>3. Texts(output.token_ids, call.skip_special_tokens)' = Texts(ids, skip_special_tokens)
      BY <1>1, <2>1, <3>2 DEF Texts, TextOf
    <3> QED
      BY <3>2, <3>3 DEF Decoded
  <2>4. CASE ~InRange(ids)
    BY <2>2, <2>4 DEF Decoded
  <2> QED
    BY <2>3, <2>4
<1> QED
  BY <1>1, <1>2, <1>3 DEF Inv

LEMMA StepInv == Inv /\ [Next]_vars => Inv'
<1> SUFFICES ASSUME Inv, [Next]_vars
             PROVE  Inv'
  OBVIOUS
<1>1. CASE Refuse \/ Build
  BY <1>1, BuildInv
<1>2. CASE \E pieces \in Prompts, limit \in Limits \cup {Absent}, truncation \in Policies :
             \/ EncodeFails(pieces, limit, truncation)
             \/ PromptTooLong(pieces, limit, truncation)
             \/ Encode(pieces, limit, truncation)
  BY <1>2, EncodeInv
<1>3. CASE \E ids \in DecodeInputs, skip_special_tokens \in BOOLEAN :
             Decode(ids, skip_special_tokens) \/ InvalidTokenId(ids)
  BY <1>3, DecodeInv
<1>4. CASE UNCHANGED vars
  <2>1. UNCHANGED <<meta, expected_vocab_size, tokenizer, call, prompt, output>>
    BY <1>4 DEF vars
  <2>2. Decoded' <=> Decoded
    BY <2>1 DEF Decoded, InRange, Texts, TextOf
  <2> QED
    BY <2>1, <2>2 DEF Inv, Built, Answered, Encoded, Ids
<1> QED
  BY <1>1, <1>2, <1>3, <1>4 DEF Next

(* Every behaviour keeps the invariant.                                       *)
LEMMA Invariance == Spec => []Inv
BY InitInv, StepInv, PTL DEF Spec

-----------------------------------------------------------------------------
(* The number of tokens encode returns, and where they stood in the prompt.   *)
Kept(count, limit) == IF limit = Absent THEN count ELSE IF count <= limit THEN count ELSE limit

PlaceOf(i, count, limit, truncation) ==
    IF Kept(count, limit) = count THEN i ELSE Place(i, count, limit, truncation)

(* Ids and offsets of an answer are those of the same places.                 *)
LEMMA EncodedPlaces ==
    ASSUME NEW n \in Nat, NEW pieces \in [1 .. n -> DOMAIN tokenizer.vocab],
           NEW limit \in Nat \cup {Absent}, NEW truncation \in Policies,
           ~TooLong(pieces, limit, truncation)
    PROVE  LET e == Encoded(pieces, limit, truncation)
           IN  /\ Len(e.token_ids) = Kept(n, limit)
               /\ Len(e.offsets) = Kept(n, limit)
               /\ \A i \in 1 .. Kept(n, limit) :
                     /\ PlaceOf(i, n, limit, truncation) \in 1 .. n
                     /\ e.offsets[i] = PlaceOf(i, n, limit, truncation)
                     /\ e.token_ids[i] =
                            tokenizer.vocab[pieces[PlaceOf(i, n, limit, truncation)]]
<1> DEFINE e == Encoded(pieces, limit, truncation)
           T == {tokenizer.vocab[text] : text \in DOMAIN tokenizer.vocab}
<1>1. Len(pieces) = n /\ DOMAIN pieces = 1 .. n
  OBVIOUS
<1>2. /\ Ids(pieces) \in [1 .. n -> T] /\ Offsets(pieces) \in [1 .. n -> Nat]
      /\ \A i \in 1 .. n : /\ Ids(pieces)[i] = tokenizer.vocab[pieces[i]]
                           /\ Offsets(pieces)[i] = i
  BY <1>1 DEF Ids, Offsets
<1>3. /\ Ids(pieces) \in Seq(T) /\ Len(Ids(pieces)) = n
      /\ Offsets(pieces) \in Seq(Nat) /\ Len(Offsets(pieces)) = n
  BY <1>2
<1>4. CASE limit = Absent
  <2>1. e = [token_ids |-> Ids(pieces), offsets |-> Offsets(pieces)]
    BY <1>4 DEF Encoded
  <2> QED
    BY <1>2, <1>3, <1>4, <2>1 DEF Kept, PlaceOf
<1>5. CASE limit # Absent /\ n <= limit
  <2>1. e = [token_ids |-> Ids(pieces), offsets |-> Offsets(pieces)]
    BY <1>1, <1>5 DEF Encoded
  <2> QED
    BY <1>2, <1>3, <1>5, <2>1 DEF Kept, PlaceOf
<1>6. CASE limit # Absent /\ ~(n <= limit)
  <2>1. limit \in Nat /\ limit < n /\ truncation # "None"
    BY <1>1, <1>6 DEF TooLong
  <2>2. e = [token_ids |-> Truncated(Ids(pieces), n, limit, truncation),
             offsets |-> Truncated(Offsets(pieces), n, limit, truncation)]
    BY <1>1, <2>1, <1>6 DEF Encoded
  <2>3. /\ Len(e.token_ids) = limit
        /\ \A i \in 1 .. limit : e.token_ids[i] = Ids(pieces)[Place(i, n, limit, truncation)]
    BY <1>3, <2>1, <2>2, TruncatedPlaces
  <2>4. /\ Len(e.offsets) = limit
        /\ \A i \in 1 .. limit : e.offsets[i] = Offsets(pieces)[Place(i, n, limit, truncation)]
    BY <1>3, <2>1, <2>2, TruncatedPlaces
  <2>5. \A i \in 1 .. limit : Place(i, n, limit, truncation) \in 1 .. n
    BY <2>1 DEF Place
  <2>6. Kept(n, limit) = limit
    BY <1>6, <2>1 DEF Kept
  <2>7. \A i : PlaceOf(i, n, limit, truncation) = Place(i, n, limit, truncation)
    BY <2>1, <2>6 DEF PlaceOf
  <2> QED
    BY <1>2, <2>3, <2>4, <2>5, <2>6, <2>7
<1> QED
  BY <1>4, <1>5, <1>6

(* What the invariant says of an answer, with its prompt's length.            *)
LEMMA AnswerPlaces ==
    ASSUME Inv, output # Absent
    PROVE  \E n \in Nat :
             LET P(i) == PlaceOf(i, n, prompt.limit, prompt.truncation)
                 m == Kept(n, prompt.limit)
             IN  /\ prompt.pieces \in [1 .. n -> DOMAIN tokenizer.vocab]
                 /\ prompt.limit \in Nat \cup {Absent}
                 /\ Len(output.token_ids) = m
                 /\ Len(output.offsets) = m
                 /\ \A i \in 1 .. m :
                       /\ P(i) \in 1 .. n
                       /\ output.offsets[i] = P(i)
                       /\ output.token_ids[i] = tokenizer.vocab[prompt.pieces[P(i)]]
<1>1. Answered
  BY DEF Inv
<1>2. PICK n \in 0 .. MaxPieces : prompt.pieces \in [1 .. n -> DOMAIN tokenizer.vocab]
  BY <1>1 DEF Answered, SeqsUpTo
<1>3. n \in Nat /\ prompt.limit \in Nat \cup {Absent}
  BY <1>1, <1>2, CallsAssumption DEF Answered
<1> QED
  BY <1>1, <1>2, <1>3, EncodedPlaces DEF Answered

LEMMA AnswerDomains ==
    ASSUME Inv, output # Absent
    PROVE  /\ DOMAIN output.token_ids = 1 .. Len(output.token_ids)
           /\ DOMAIN output.offsets = 1 .. Len(output.offsets)
  BY DEF Inv, Answered, Encoded, Ids, Offsets

(* Truncation keeps ids and offsets in step, in the prompt's order, with one  *)
(* gap at most and at the policy's end, for every prompt, limit and policy.   *)
THEOREM OffsetsInStep == Spec => []OffsetsBelongToIds
<1>1. Inv => OffsetsBelongToIds
  <2> SUFFICES ASSUME Inv, output # Absent
               PROVE  OffsetsBelongToIds
    BY DEF OffsetsBelongToIds
  <2> DEFINE ids == output.token_ids
             offsets == output.offsets
             limit == prompt.limit
             policy == prompt.truncation
  <2>1. PICK n \in Nat :
             /\ prompt.pieces \in [1 .. n -> DOMAIN tokenizer.vocab]
             /\ limit \in Nat \cup {Absent}
             /\ Len(ids) = Kept(n, limit)
             /\ Len(offsets) = Kept(n, limit)
             /\ \A i \in 1 .. Kept(n, limit) :
                   /\ PlaceOf(i, n, limit, policy) \in 1 .. n
                   /\ offsets[i] = PlaceOf(i, n, limit, policy)
                   /\ ids[i] = tokenizer.vocab[prompt.pieces[PlaceOf(i, n, limit, policy)]]
    BY AnswerPlaces
  <2>2. Len(prompt.pieces) = n
    BY <2>1
  <2> DEFINE m == Kept(n, limit)
  <2>3. m \in Nat /\ m <= n
    BY <2>1 DEF Kept
  <2>4. /\ m = IF limit = Absent THEN n ELSE IF n <= limit THEN n ELSE limit
        /\ m # n => limit \in Nat /\ m = limit
    BY <2>1 DEF Kept
  <2>5. \A i \in 1 .. m : offsets[i] = IF m = n THEN i ELSE Place(i, n, m, policy)
    BY <2>1, <2>4 DEF PlaceOf
  <2> HIDE DEF m, ids, offsets, limit, policy
  <2>6. \A i \in 2 .. m : offsets[i - 1] < offsets[i]
    BY <2>3, <2>5 DEF Place
  <2>7. \A i \in 2 .. m : offsets[i] # offsets[i - 1] + 1 => i = m \div 2 + 1
    BY <2>3, <2>5 DEF Place
  <2>8. m > 0 =>
          /\ policy \in {"Right", "ModelDefault"} => offsets[1] = 1
          /\ policy \in {"Left", "ClientPolicy", "Middle"} => offsets[m] = n
          /\ policy = "Middle" /\ m > 1 => offsets[1] = 1
    BY <2>3, <2>5 DEF Place
  <2>9. \A i \in 1 .. m : ids[i] = tokenizer.vocab[prompt.pieces[offsets[i]]]
    BY <2>1 DEF m
  <2>10. Len(ids) = m /\ Len(offsets) = m
    BY <2>1 DEF m
  <2> QED
    BY <2>2, <2>3, <2>4, <2>6, <2>7, <2>8, <2>9, <2>10
    DEF OffsetsBelongToIds, ids, offsets, limit, policy
<1> QED
  BY <1>1, Invariance, PTL

-----------------------------------------------------------------------------
(* No prompt is ever encoded to an id without a row in an embedding table the *)
(* tokenizer was checked against.                                             *)
THEOREM EncodedIdsInTable == Spec => []EncodedIdsAddressRows
<1>1. Inv => EncodedIdsAddressRows
  <2> SUFFICES ASSUME Inv, output # Absent, expected_vocab_size # Absent,
                      NEW i \in DOMAIN output.token_ids
               PROVE  output.token_ids[i] < expected_vocab_size
    BY DEF EncodedIdsAddressRows
  <2>1. /\ expected_vocab_size \in Nat
        /\ IsMetadata(meta) /\ IsBuildable(meta, expected_vocab_size)
        /\ tokenizer.vocab = GgufTokenizer(meta).vocab
    BY MetadataAssumption, CallsAssumption DEF Inv, Built
  <2>2. PICK text \in DOMAIN tokenizer.vocab : output.token_ids[i] = tokenizer.vocab[text]
    <3>1. PICK n \in Nat, m \in Nat :
               /\ prompt.pieces \in [1 .. n -> DOMAIN tokenizer.vocab]
               /\ Len(output.token_ids) = m
               /\ \A j \in 1 .. m : \E p \in 1 .. n :
                     output.token_ids[j] = tokenizer.vocab[prompt.pieces[p]]
      BY AnswerPlaces DEF Kept
    <3>2. DOMAIN output.token_ids = 1 .. Len(output.token_ids)
      BY DEF Inv, Answered, Encoded, Ids
    <3> QED
      BY <3>1, <3>2
  <2>3. tokenizer.vocab[text] < expected_vocab_size
    BY <2>1, <2>2, IdsFit
  <2> QED
    BY <2>2, <2>3
<1> QED
  BY <1>1, Invariance, PTL

(* The special tokens of a tokenizer are those the file declares: one per id, *)
(* eos before the others, no declared id of a token left out, and none whose  *)
(* text encodes to an earlier id.                                             *)
THEOREM SpecialsOfFile == Spec => []SpecialsAreDeclared
<1>1. Inv => SpecialsAreDeclared
  <2> SUFFICES ASSUME Inv, tokenizer # Absent PROVE SpecialsAreDeclared
    BY DEF SpecialsAreDeclared
  <2> DEFINE tokens == Tokens(meta)
             specials == tokenizer.special_tokens
             ids == {s.id : s \in Range(specials)}
             Named(key) == {TokenId(meta, key)} \cap (0 .. tokenizer.vocabulary_size - 1)
  <2>1. /\ meta \in Metadata /\ tokenizer = GgufTokenizer(meta)
        /\ IsBuildable(meta, expected_vocab_size)
    BY DEF Inv, Built
  <2>2. /\ IsMetadata(meta) /\ tokens # Absent
        /\ tokens \in Seq(Range(tokens)) /\ Len(tokens) \in Nat /\ Len(tokens) <= MaxU32
    BY <2>1, MetadataAssumption DEF IsBuildable, IsMetadata
  <2>3. vocabulary_size(meta) = Len(tokens)
    BY <2>2, SmallCast DEF vocabulary_size
  <2>4. /\ specials = SpecialTokens(meta) /\ tokenizer.vocab = Vocab(tokens)
        /\ tokenizer.vocabulary_size = Len(tokens)
    BY <2>1, <2>3 DEF GgufTokenizer
  <2>5. ASSUME NEW key
        PROVE  Named(key) = IF NamesToken(meta, key) THEN {TokenId(meta, key)} ELSE {}
    <3>1. TokenId(meta, key) \in Nat \cup {Absent}
      BY <2>2 DEF IsMetadata, TokenId, uint_value, ValueOf
    <3> QED
      BY <2>2, <2>4, <3>1, AbsentAssumption DEF NamesToken
  <2>6. /\ Cardinality(ids) = Len(specials)
        /\ ids = Named("eos_token_id") \cup Named("bos_token_id") \cup Named("padding_token_id")
        /\ \A s \in Range(specials) : s.id \in 0 .. Len(tokens) - 1 /\ s.text = tokens[s.id + 1]
    BY <2>2, <2>4, <2>5, SpecialsComplete
  <2>7. {s.id : s \in {t \in Range(specials) : t.kind = "Eos"}} = Named("eos_token_id")
    BY <2>2, <2>4, <2>5, SpecialsDeclared
  <2>8. ASSUME NEW s \in Range(specials)
        PROVE  tokenizer.vocab[s.text] >= s.id
    <3>1. s.id + 1 \in 1 .. Len(tokens) /\ s.text = tokens[s.id + 1] /\ s.id \in Nat
      BY <2>2, <2>6
    <3>2. Vocab(tokens)[tokens[s.id + 1]] >= s.id + 1 - 1
      BY <2>2, <3>1, LastCopy
    <3> QED
      BY <2>4, <3>1, <3>2
  <2> QED
    BY <2>6, <2>7, <2>8 DEF SpecialsAreDeclared
<1> QED
  BY <1>1, Invariance, PTL

(* The texts the library was told to skip are those the file declares CONTROL *)
(* at the index of one of their tokens.                                       *)
LEMMA ControlOfFile ==
    ASSUME NEW m
    PROVE  LET tokens == Tokens(m)
               types == OrElse(ValueOf(m, "token_type", {"Array"}), <<>>)
           IN  \A text : text \in ControlTexts(m) <=>
                  \E i \in DOMAIN tokens \cap DOMAIN types :
                     tokens[i] = text /\ types[i] = [type |-> "Int32", value |-> 3]
  BY DEF ControlTexts, CONTROL_TOKEN_TYPE

(* For every prompt, limit and policy decode accepts what encode returned and *)
(* gives back the pieces that were kept, the CONTROL texts only on request.   *)
THEOREM DecodeReturnsPieces == Spec => []DecodeUndoesEncode
<1>1. Inv => DecodeUndoesEncode
  <2> DEFINE tokens == Tokens(meta)
             types == OrElse(ValueOf(meta, "token_type", {"Array"}), <<>>)
             IsControl(text) ==
                 \E i \in DOMAIN tokens \cap DOMAIN types :
                     tokens[i] = text /\ types[i] = [type |-> "Int32", value |-> 3]
             kept == [i \in DOMAIN output.offsets |-> prompt.pieces[output.offsets[i]]]
             shown == {text \in Range(tokens) :
                          ~(call.skip_special_tokens /\ IsControl(text))}
             ids == output.token_ids
             vocab == tokenizer.vocab
  <2> SUFFICES ASSUME Inv, call.name = "decode", output # Absent
               PROVE  call.result = "Ok" /\ call.texts = Among(kept, shown)
    BY DEF DecodeUndoesEncode
  <2>1. /\ IsMetadata(meta) /\ tokens \notin {Absent, <<>>}
        /\ vocab = Vocab(tokens) /\ tokenizer.control = ControlTexts(meta)
        /\ tokenizer.max_id = max_id(meta)
    BY MetadataAssumption DEF Inv, Built, IsBuildable, GgufTokenizer
  <2>2. /\ DOMAIN vocab = Range(tokens)
        /\ \A text \in DOMAIN vocab : vocab[text] <= tokenizer.max_id
        /\ \A text, other \in DOMAIN vocab : vocab[text] = vocab[other] => text = other
    <3>1. DOMAIN vocab = Range(tokens)
      BY <2>1 DEF Vocab
    <3>2. LET words == Vocab(Tokens(meta))
          IN  /\ \A text \in DOMAIN words : words[text] <= max_id(meta)
              /\ \A text, other \in DOMAIN words : words[text] = words[other] => text = other
      BY <2>1, IdsDecodable
    <3> HIDE DEF vocab
    <3> QED
      BY <2>1, <3>1, <3>2
  <2>3. /\ DOMAIN ids = DOMAIN output.offsets
        /\ \A i \in DOMAIN ids : kept[i] \in DOMAIN vocab /\ ids[i] = vocab[kept[i]]
    <3>1. PICK n \in Nat, m \in Nat :
               /\ prompt.pieces \in [1 .. n -> DOMAIN vocab]
               /\ Len(ids) = m /\ Len(output.offsets) = m
               /\ \A i \in 1 .. m : \E p \in 1 .. n :
                     output.offsets[i] = p /\ ids[i] = vocab[prompt.pieces[p]]
      BY AnswerPlaces DEF Kept
    <3>2. DOMAIN ids = 1 .. m /\ DOMAIN output.offsets = 1 .. m
      BY <3>1, AnswerDomains
    <3> QED
      BY <3>1, <3>2
  <2>4. InRange(ids)
    BY <2>2, <2>3 DEF InRange
  <2>5. /\ call.result = "Ok" /\ call.skip_special_tokens \in BOOLEAN
        /\ call.texts = Texts(ids, call.skip_special_tokens)
    BY <2>4 DEF Inv, Decoded
  <2>6. \A i \in DOMAIN ids : TextOf(ids[i]) = kept[i]
    <3> SUFFICES ASSUME NEW i \in DOMAIN ids PROVE TextOf(ids[i]) = kept[i]
      OBVIOUS
    <3> DEFINE texts == {text \in DOMAIN vocab : vocab[text] = ids[i]}
    <3> HIDE DEF kept, ids
    <3>1. texts = {kept[i]}
      BY <2>2, <2>3
    <3>2. (CHOOSE text \in texts : TRUE) = kept[i]
      BY <3>1
    <3> QED
      BY <3>1, <3>2 DEF TextOf
  <2>7. [i \in DOMAIN ids |-> TextOf(ids[i])] = kept
    BY <2>3, <2>6
  <2>8. DOMAIN vocab \ (IF call.skip_special_tokens THEN tokenizer.control ELSE {}) = shown
    <3>1. \A text : text \in tokenizer.control <=> IsControl(text)
      BY <2>1, ControlOfFile
    <3> HIDE DEF IsControl, tokens
    <3> QED
      BY <2>2, <2>5, <3>1
  <2> HIDE DEF kept, shown, ids, vocab
  <2> QED
    BY <2>5, <2>7, <2>8 DEF Texts, vocab
<1> QED
  BY <1>1, Invariance, PTL
=============================================================================
