-------------------------- MODULE VocabularyProofs --------------------------
(* What the tokenizer built from metadata can be relied on, for any metadata. *)
EXTENDS Vocabulary, SequenceTheorems, FiniteSetTheorems, WellFoundedInduction, TLAPS

(* A set of natural numbers below a bound has a largest element.              *)
LEMMA LargestElement ==
    ASSUME NEW n \in Nat, NEW S, S \subseteq 0 .. n, S # {}
    PROVE  \E x \in S : \A y \in S : x >= y
<1> DEFINE D == {n - x : x \in S}
<1>1. D \subseteq Nat /\ D # {}
  <2>1. \A x \in S : n - x \in Nat
    OBVIOUS
  <2>2. PICK x \in S : TRUE
    OBVIOUS
  <2>3. n - x \in D
    BY <2>2
  <2> QED
    BY <2>1, <2>3
<1>2. PICK d \in D : \A y \in D : ~(<<y, d>> \in OpToRel(<, Nat))
  BY <1>1, NatLessThanWellFounded, WFMin
<1>3. PICK x \in S : d = n - x
  BY DEF D
<1>4. \A y \in S : ~(n - y < d)
  <2> SUFFICES ASSUME NEW y \in S, n - y < d
               PROVE  FALSE
    OBVIOUS
  <2>1. n - y \in D /\ n - y \in Nat /\ d \in Nat
    BY <1>1
  <2>2. <<n - y, d>> \in OpToRel(<, Nat)
    BY <2>1 DEF OpToRel
  <2> QED
    BY <1>2, <2>1, <2>2
<1> QED
  BY <1>3, <1>4

(* A number that fits into a u32 is not changed by a cast.                    *)
LEMMA SmallCast ==
    ASSUME NEW k \in Nat, k <= MaxU32
    PROVE  AsU32(k) = k
<1> DEFINE m == MaxU32 + 1
           q == k \div m
           r == k % m
<1>1. m \in Nat /\ m > 0 /\ k < m
  BY WordAssumption
<1> HIDE DEF m
<1>2. q \in Int /\ r \in 0 .. m - 1 /\ k = m * q + r
  BY <1>1
<1> HIDE DEF q, r
<1>3. ~(q >= 1)
  <2>1. q >= 1 => m * q >= m
    BY <1>1, <1>2
  <2> QED
    BY <1>1, <1>2, <2>1
<1>4. ~(q <= -1)
  <2>1. q <= -1 => m * q <= -m
    BY <1>1, <1>2
  <2> QED
    BY <1>1, <1>2, <2>1
<1>5. q = 0
  BY <1>2, <1>3, <1>4
<1> QED
  BY <1>1, <1>2, <1>5 DEF AsU32, m, r

(* The id of a text is the index of one of its tokens.                        *)
LEMMA VocabId ==
    ASSUME NEW tokens, tokens \in Seq(Range(tokens)), Len(tokens) <= MaxU32,
           NEW text \in DOMAIN Vocab(tokens)
    PROVE  /\ Vocab(tokens)[text] \in 0 .. Len(tokens) - 1
           /\ tokens[Vocab(tokens)[text] + 1] = text
<1> DEFINE I == {i \in 1 .. Len(tokens) : tokens[i] = text}
<1>1. Len(tokens) \in Nat /\ DOMAIN tokens = 1 .. Len(tokens)
  OBVIOUS
<1>2. text \in Range(tokens)
  BY DEF Vocab
<1>3. I # {}
  BY <1>1, <1>2 DEF Range
<1>4. \E x \in I : \A y \in I : x >= y
  <2>1. I \subseteq 0 .. Len(tokens)
    BY <1>1
  <2> HIDE DEF I
  <2> QED
    BY <1>1, <1>3, <2>1, LargestElement
<1>5. Max(I) \in I
  BY <1>4 DEF Max
<1>6. SelectLastInSeq(tokens, LAMBDA t : t = text) = Max(I)
  BY <1>3 DEF SelectLastInSeq
<1>7. Vocab(tokens)[text] = AsU32(Max(I) - 1)
  BY <1>2, <1>6 DEF Vocab
<1> HIDE DEF I
<1>8. Max(I) \in 1 .. Len(tokens) /\ tokens[Max(I)] = text
  BY <1>5 DEF I
<1>9. Max(I) - 1 \in Nat /\ Max(I) - 1 <= MaxU32
  BY <1>1, <1>8, WordAssumption
<1>10. Vocab(tokens)[text] = Max(I) - 1
  BY <1>7, <1>9, SmallCast
<1>11. Vocab(tokens)[text] + 1 = Max(I)
  BY <1>8, <1>10
<1> QED
  BY <1>1, <1>8, <1>10, <1>11

(* Claiming an id adds at most a special token that is a token of the array.  *)
LEMMA PushSpecial ==
    ASSUME NEW meta, IsMetadata(meta), Tokens(meta) # Absent, NEW kind, NEW key, NEW claims,
           \A s \in Range(claims.tokens) : s.id \in 0 .. Len(Tokens(meta)) - 1,
           claims.tokens \in Seq(Range(claims.tokens))
    PROVE  LET c == push_special(claims, kind, meta, key)
           IN  /\ c.tokens \in Seq(Range(c.tokens))
               /\ \A s \in Range(c.tokens) : s.id \in 0 .. Len(Tokens(meta)) - 1
<1> DEFINE id == TokenId(meta, key)
           tokens == Tokens(meta)
           c == push_special(claims, kind, meta, key)
           special == [kind |-> kind, text |-> tokens[id + 1], id |-> id]
           S == Range(claims.tokens) \cup {special}
<1>1. Len(tokens) \in Nat
  BY DEF IsMetadata
<1>2. id \in Nat \cup {Absent}
  BY DEF IsMetadata, TokenId, uint_value, ValueOf
<1>3. CASE c.tokens = claims.tokens
  BY <1>3
<1>4. CASE c.tokens = Append(claims.tokens, special) /\ id # Absent /\ ~(id >= Len(tokens))
  <2>1. id \in 0 .. Len(tokens) - 1
    BY <1>1, <1>2, <1>4
  <2>2. special.id = id
    OBVIOUS
  <2> HIDE DEF special, id, tokens, c
  <2>3. claims.tokens \in Seq(S)
    BY DEF S, Range
  <2>4. /\ c.tokens \in Seq(S)
        /\ Len(c.tokens) = Len(claims.tokens) + 1
        /\ \A i \in 1 .. Len(claims.tokens) : c.tokens[i] = claims.tokens[i]
        /\ c.tokens[Len(claims.tokens) + 1] = special
    BY <1>4, <2>3, AppendProperties DEF S
  <2>5. \A s \in S : s.id \in 0 .. Len(tokens) - 1
    BY <2>1, <2>2 DEF S, tokens
  <2>6. DOMAIN c.tokens = 1 .. Len(c.tokens) /\ \A i \in 1 .. Len(c.tokens) : c.tokens[i] \in S
    BY <2>4
  <2>7. Range(c.tokens) \subseteq S
    BY <2>6 DEF Range
  <2>8. c.tokens \in Seq(Range(c.tokens))
    BY <2>4 DEF Range
  <2> QED
    BY <2>5, <2>7, <2>8 DEF c, tokens
<1>5. c.tokens = claims.tokens \/ (c.tokens = Append(claims.tokens, special) /\ id # Absent /\ ~(id >= Len(tokens)))
  BY DEF push_special
<1> QED
  BY <1>3, <1>4, <1>5

(* Every special token is a token of the array.                               *)
LEMMA SpecialIds ==
    ASSUME NEW meta, IsMetadata(meta), Tokens(meta) # Absent
    PROVE  /\ SpecialTokens(meta) \in Seq(Range(SpecialTokens(meta)))
           /\ \A s \in Range(SpecialTokens(meta)) : s.id \in 0 .. Len(Tokens(meta)) - 1
<1> DEFINE Good(claims) ==
             /\ claims.tokens \in Seq(Range(claims.tokens))
             /\ \A s \in Range(claims.tokens) : s.id \in 0 .. Len(Tokens(meta)) - 1
           eos == push_special(NoClaims, "Eos", meta, "eos_token_id")
           bos == push_special(eos, "Bos", meta, "bos_token_id")
           pad == push_special(bos, "Pad", meta, "padding_token_id")
<1>1. Good(NoClaims)
  <2>1. NoClaims.tokens = <<>>
    BY DEF NoClaims
  <2>2. Range(<<>>) = {}
    BY DEF Range
  <2> QED
    BY <2>1, <2>2, EmptySeq
<1>2. Good(eos)
  BY <1>1, PushSpecial
<1> HIDE DEF eos
<1>3. Good(bos)
  BY <1>2, PushSpecial
<1> HIDE DEF bos
<1>4. Good(pad)
  BY <1>3, PushSpecial
<1>5. SpecialTokens(meta) = pad.tokens
  BY DEF SpecialTokens, eos, bos, pad
<1> QED
  BY <1>4, <1>5

(* The token an id names, if one has the id.                                  *)
SpecialToken(meta, kind, key) ==
    [kind |-> kind, text |-> Tokens(meta)[TokenId(meta, key) + 1], id |-> TokenId(meta, key)]

NamesToken(meta, key) == TokenId(meta, key) # Absent /\ TokenId(meta, key) < Len(Tokens(meta))

(* What claiming an id adds: the special token, unless no token has the id or *)
(* another kind has claimed it, and the claim, unless there is no id.         *)
LEMMA PushRange ==
    ASSUME NEW meta, IsMetadata(meta), Tokens(meta) # Absent, NEW kind, NEW key, NEW claims,
           claims.tokens \in Seq(Range(claims.tokens))
    PROVE  /\ Range(push_special(claims, kind, meta, key).tokens) =
                 Range(claims.tokens)
                   \cup (IF NamesToken(meta, key) /\ TokenId(meta, key) \notin claims.ids
                         THEN {SpecialToken(meta, kind, key)} ELSE {})
           /\ push_special(claims, kind, meta, key).ids =
                 claims.ids \cup (IF TokenId(meta, key) = Absent THEN {} ELSE {TokenId(meta, key)})
<1> DEFINE id == TokenId(meta, key)
           tokens == Tokens(meta)
           c == push_special(claims, kind, meta, key)
           special == [kind |-> kind, text |-> tokens[id + 1], id |-> id]
<1>1. Len(tokens) \in Nat
  BY DEF IsMetadata
<1>2. id \in Nat \cup {Absent}
  BY DEF IsMetadata, TokenId, uint_value, ValueOf
<1>3. CASE id = Absent \/ id \in claims.ids
  BY <1>3 DEF push_special, NamesToken
<1>4. CASE id # Absent /\ id \notin claims.ids
  <2>1. c = [ids |-> claims.ids \cup {id},
             tokens |-> IF id >= Len(tokens) THEN claims.tokens ELSE Append(claims.tokens, special)]
    BY <1>4 DEF push_special
  <2>2. c.ids = claims.ids \cup {id}
        /\ c.tokens = IF id >= Len(tokens) THEN claims.tokens ELSE Append(claims.tokens, special)
    BY <2>1
  <2>3. Range(Append(claims.tokens, special)) = Range(claims.tokens) \cup {special}
    <3> DEFINE s == claims.tokens
               S == Range(s) \cup {special}
    <3> HIDE DEF special
    <3>1. s \in Seq(S) /\ special \in S
      BY DEF Range
    <3>2. /\ Len(Append(s, special)) = Len(s) + 1 /\ Len(s) \in Nat
          /\ DOMAIN s = 1 .. Len(s) /\ DOMAIN Append(s, special) = 1 .. Len(s) + 1
          /\ \A i \in 1 .. Len(s) : Append(s, special)[i] = s[i]
          /\ Append(s, special)[Len(s) + 1] = special
      BY <3>1, AppendProperties
    <3> QED
      BY <3>2 DEF Range
  <2>4. ~(id >= Len(tokens)) <=> id < Len(tokens)
    BY <1>1, <1>2, <1>4
  <2> QED
    BY <1>4, <2>2, <2>3, <2>4 DEF NamesToken, SpecialToken
<1> QED
  BY <1>3, <1>4

(* What the special tokens say of the two ids an architecture configuration   *)
(* has: eos comes first, bos must not be the same.                            *)
LEMMA SpecialsDeclared ==
    ASSUME NEW meta, IsMetadata(meta), Tokens(meta) # Absent
    PROVE  LET ids(kind) == {s.id : s \in {t \in Range(SpecialTokens(meta)) : t.kind = kind}}
               eos == TokenId(meta, "eos_token_id")
               bos == TokenId(meta, "bos_token_id")
           IN  /\ ids("Eos") = IF NamesToken(meta, "eos_token_id") THEN {eos} ELSE {}
               /\ ids("Bos") = IF NamesToken(meta, "bos_token_id") /\ bos # eos THEN {bos} ELSE {}
<1> DEFINE e == TokenId(meta, "eos_token_id")
           b == TokenId(meta, "bos_token_id")
           p == TokenId(meta, "padding_token_id")
           eTok == SpecialToken(meta, "Eos", "eos_token_id")
           bTok == SpecialToken(meta, "Bos", "bos_token_id")
           pTok == SpecialToken(meta, "Pad", "padding_token_id")
           eos == push_special(NoClaims, "Eos", meta, "eos_token_id")
           bos == push_special(eos, "Bos", meta, "bos_token_id")
           pad == push_special(bos, "Pad", meta, "padding_token_id")
           E == IF NamesToken(meta, "eos_token_id") THEN {eTok} ELSE {}
           B == IF NamesToken(meta, "bos_token_id") /\ b # e THEN {bTok} ELSE {}
<1>1. NoClaims.ids = {} /\ NoClaims.tokens = <<>> /\ Range(NoClaims.tokens) = {}
  BY DEF NoClaims, Range
<1>2. NoClaims.tokens \in Seq(Range(NoClaims.tokens))
  BY <1>1, EmptySeq
<1>3. Range(eos.tokens) = E /\ eos.ids = IF e = Absent THEN {} ELSE {e}
  <2>1. Range(eos.tokens) = Range(NoClaims.tokens)
            \cup (IF NamesToken(meta, "eos_token_id") /\ e \notin NoClaims.ids THEN {eTok} ELSE {})
    BY <1>2, PushRange
  <2>2. eos.ids = NoClaims.ids \cup (IF e = Absent THEN {} ELSE {e})
    BY <1>2, PushRange
  <2> HIDE DEF eos, eTok, e
  <2> QED
    BY <1>1, <2>1, <2>2
<1>4. /\ \A s \in Range(NoClaims.tokens) : s.id \in 0 .. Len(Tokens(meta)) - 1
      /\ eos.tokens \in Seq(Range(eos.tokens))
      /\ \A s \in Range(eos.tokens) : s.id \in 0 .. Len(Tokens(meta)) - 1
  BY <1>1, <1>2, PushSpecial
<1> HIDE DEF eos
<1>5. Range(bos.tokens) = E \cup B
  <2>1. b \in eos.ids <=> e # Absent /\ b = e
    BY <1>3
  <2>2. NamesToken(meta, "bos_token_id") => b # Absent
    BY DEF NamesToken
  <2> QED
    BY <1>3, <1>4, <2>1, <2>2, PushRange
<1>6. bos.tokens \in Seq(Range(bos.tokens))
  BY <1>4, PushSpecial
<1> HIDE DEF bos
<1>7. PICK P \in SUBSET {pTok} : Range(pad.tokens) = E \cup B \cup P
  <2>1. Range(pad.tokens) = Range(bos.tokens)
            \cup (IF NamesToken(meta, "padding_token_id") /\ p \notin bos.ids THEN {pTok} ELSE {})
    BY <1>6, PushRange
  <2> HIDE DEF pad, pTok, p, E, B
  <2> QED
    BY <1>5, <2>1
<1>8. SpecialTokens(meta) = pad.tokens
  BY DEF SpecialTokens, eos, bos, pad
<1>9. /\ eTok.kind = "Eos" /\ eTok.id = e
      /\ bTok.kind = "Bos" /\ bTok.id = b
      /\ pTok.kind = "Pad"
  BY DEF SpecialToken
<1> HIDE DEF eTok, bTok, pTok, pad, e, b
<1>10. {t \in Range(pad.tokens) : t.kind = "Eos"} = E
  BY <1>7, <1>9
<1>11. {t \in Range(pad.tokens) : t.kind = "Bos"} = B
  BY <1>7, <1>9
<1>12. {s.id : s \in E} = IF NamesToken(meta, "eos_token_id") THEN {e} ELSE {}
  BY <1>9
<1>13. {s.id : s \in B} = IF NamesToken(meta, "bos_token_id") /\ b # e THEN {b} ELSE {}
  BY <1>9
<1> QED
  BY <1>8, <1>10, <1>11, <1>12, <1>13 DEF e, b

(* Special tokens so far: one for each id, which has been claimed, with the   *)
(* text the array has for it.                                                 *)
SpecialIdsOf(claims) == {s.id : s \in Range(claims.tokens)}

OnePerId(meta, claims) ==
    /\ claims.tokens \in Seq(Range(claims.tokens))
    /\ IsFiniteSet(SpecialIdsOf(claims))
    /\ Cardinality(SpecialIdsOf(claims)) = Len(claims.tokens)
    /\ SpecialIdsOf(claims) \subseteq claims.ids
    /\ \A s \in Range(claims.tokens) :
          s.id \in 0 .. Len(Tokens(meta)) - 1 /\ s.text = Tokens(meta)[s.id + 1]

LEMMA PushOne ==
    ASSUME NEW meta, IsMetadata(meta), Tokens(meta) # Absent, NEW kind, NEW key, NEW claims,
           OnePerId(meta, claims)
    PROVE  OnePerId(meta, push_special(claims, kind, meta, key))
<1> DEFINE id == TokenId(meta, key)
           n == Len(Tokens(meta))
           c == push_special(claims, kind, meta, key)
           special == SpecialToken(meta, kind, key)
<1>1. n \in Nat /\ id \in Nat \cup {Absent}
  BY DEF IsMetadata, TokenId, uint_value, ValueOf
<1>2. CASE id = Absent \/ id \in claims.ids
  BY <1>2 DEF push_special
<1>3. CASE id # Absent /\ id \notin claims.ids /\ id >= n
  <2>1. c = [ids |-> claims.ids \cup {id}, tokens |-> claims.tokens]
    BY <1>3 DEF push_special
  <2>2. c.tokens = claims.tokens /\ c.ids = claims.ids \cup {id}
    BY <2>1
  <2> HIDE DEF c, id
  <2> QED
    BY <2>2 DEF OnePerId, SpecialIdsOf, c
<1>4. CASE id # Absent /\ id \notin claims.ids /\ ~(id >= n)
  <2>1. c = [ids |-> claims.ids \cup {id}, tokens |-> Append(claims.tokens, special)]
    BY <1>4 DEF push_special, SpecialToken
  <2>2. c.tokens = Append(claims.tokens, special) /\ c.ids = claims.ids \cup {id}
    BY <2>1
  <2>3. special.id = id /\ special.text = Tokens(meta)[id + 1] /\ id \in 0 .. n - 1
    BY <1>1, <1>4 DEF SpecialToken
  <2> HIDE DEF c, id, special, n
  <2> DEFINE s == claims.tokens
             S == Range(s) \cup {special}
  <2>4. s \in Seq(S) /\ special \in S
    BY DEF Range, OnePerId
  <2>5. /\ c.tokens \in Seq(S) /\ Len(c.tokens) = Len(s) + 1 /\ Len(s) \in Nat
        /\ DOMAIN s = 1 .. Len(s) /\ DOMAIN c.tokens = 1 .. Len(s) + 1
        /\ \A i \in 1 .. Len(s) : c.tokens[i] = s[i]
        /\ c.tokens[Len(s) + 1] = special
    BY <2>2, <2>4, AppendProperties
  <2>6. Range(c.tokens) = S
    BY <2>5 DEF Range
  <2>7. SpecialIdsOf(c) = SpecialIdsOf(claims) \cup {id}
    BY <2>3, <2>6 DEF SpecialIdsOf
  <2>8. id \notin SpecialIdsOf(claims)
    BY <1>4 DEF OnePerId
  <2>9. IsFiniteSet(SpecialIdsOf(c)) /\ Cardinality(SpecialIdsOf(c)) = Len(c.tokens)
    <3>1. /\ IsFiniteSet(SpecialIdsOf(claims))
          /\ Cardinality(SpecialIdsOf(claims)) = Len(s)
      BY DEF OnePerId
    <3>2. /\ IsFiniteSet(SpecialIdsOf(claims) \cup {id})
          /\ Cardinality(SpecialIdsOf(claims) \cup {id}) = Cardinality(SpecialIdsOf(claims)) + 1
      BY <2>8, <3>1, FS_AddElement, Zenon
    <3> QED
      BY <2>5, <2>7, <3>1, <3>2
  <2>10. \A t \in S : t.id \in 0 .. n - 1 /\ t.text = Tokens(meta)[t.id + 1]
    BY <2>3 DEF OnePerId, n
  <2> QED
    BY <2>2, <2>5, <2>6, <2>7, <2>9, <2>10 DEF OnePerId, n, c
<1> QED
  BY <1>2, <1>3, <1>4

(* The special tokens of a vocabulary: different ids, and all those declared  *)
(* that a token has.                                                          *)
LEMMA SpecialsComplete ==
    ASSUME NEW meta, IsMetadata(meta), Tokens(meta) # Absent
    PROVE  LET specials == SpecialTokens(meta)
               ids == {s.id : s \in Range(specials)}
               Named(key) == IF NamesToken(meta, key) THEN {TokenId(meta, key)} ELSE {}
           IN  /\ Cardinality(ids) = Len(specials)
               /\ ids = Named("eos_token_id") \cup Named("bos_token_id")
                           \cup Named("padding_token_id")
               /\ \A s \in Range(specials) : /\ s.id \in 0 .. Len(Tokens(meta)) - 1
                                             /\ s.text = Tokens(meta)[s.id + 1]
<1> DEFINE Id(key) == TokenId(meta, key)
           Named(key) == IF NamesToken(meta, key) THEN {Id(key)} ELSE {}
           Claimed(key) == IF Id(key) = Absent THEN {} ELSE {Id(key)}
           eos == push_special(NoClaims, "Eos", meta, "eos_token_id")
           bos == push_special(eos, "Bos", meta, "bos_token_id")
           pad == push_special(bos, "Pad", meta, "padding_token_id")
           n == Len(Tokens(meta))
           Table(ids) == {id \in ids : id \in 0 .. n - 1}
<1>1. OnePerId(meta, NoClaims) /\ SpecialIdsOf(NoClaims) = {} /\ NoClaims.ids = {}
  <2>1. NoClaims.tokens = <<>> /\ NoClaims.ids = {}
    BY DEF NoClaims
  <2>2. Range(<<>>) = {}
    BY DEF Range
  <2> QED
    BY <2>1, <2>2, EmptySeq, FS_EmptySet DEF OnePerId, SpecialIdsOf
<1>2. ASSUME NEW claims, NEW kind, NEW key, OnePerId(meta, claims),
             SpecialIdsOf(claims) = Table(claims.ids)
      PROVE  LET c == push_special(claims, kind, meta, key)
             IN  /\ OnePerId(meta, c)
                 /\ SpecialIdsOf(c) = SpecialIdsOf(claims) \cup Named(key)
                 /\ SpecialIdsOf(c) = Table(c.ids)
  <2> DEFINE c == push_special(claims, kind, meta, key)
             special == SpecialToken(meta, kind, key)
  <2>1. OnePerId(meta, c)
    BY <1>2, PushOne
  <2>2. /\ Range(c.tokens) = Range(claims.tokens)
              \cup (IF NamesToken(meta, key) /\ Id(key) \notin claims.ids THEN {special} ELSE {})
        /\ c.ids = claims.ids \cup Claimed(key)
    BY <1>2, PushRange DEF OnePerId
  <2>3. special.id = Id(key)
    BY DEF SpecialToken
  <2>4. n \in Nat /\ Id(key) \in Nat \cup {Absent}
    BY DEF IsMetadata, TokenId, uint_value, ValueOf
  <2>5. NamesToken(meta, key) <=> Id(key) # Absent /\ Id(key) \in 0 .. n - 1
    BY <2>4 DEF NamesToken
  <2> HIDE DEF c, special, Id, n
  <2>6. SpecialIdsOf(c) = SpecialIdsOf(claims)
              \cup (IF NamesToken(meta, key) /\ Id(key) \notin claims.ids THEN {Id(key)} ELSE {})
    BY <2>2, <2>3 DEF SpecialIdsOf
  <2>7. SpecialIdsOf(c) = SpecialIdsOf(claims) \cup Named(key)
    BY <1>2, <2>5, <2>6
  <2>8. SpecialIdsOf(c) = Table(c.ids)
    BY <1>2, <2>2, <2>4, <2>5, <2>7, AbsentAssumption
  <2> QED
    BY <2>1, <2>7, <2>8 DEF c, Id, n
<1> HIDE DEF n
<1>3. OnePerId(meta, eos) /\ SpecialIdsOf(eos) = Named("eos_token_id")
      /\ SpecialIdsOf(eos) = Table(eos.ids)
  BY <1>1, <1>2
<1> HIDE DEF eos
<1>4. OnePerId(meta, bos) /\ SpecialIdsOf(bos) = SpecialIdsOf(eos) \cup Named("bos_token_id")
      /\ SpecialIdsOf(bos) = Table(bos.ids)
  BY <1>2, <1>3
<1> HIDE DEF bos
<1>5. OnePerId(meta, pad) /\ SpecialIdsOf(pad) = SpecialIdsOf(bos) \cup Named("padding_token_id")
  BY <1>2, <1>4
<1>6. SpecialTokens(meta) = pad.tokens
  BY DEF SpecialTokens, eos, bos, pad
<1> HIDE DEF pad
<1> QED
  BY <1>3, <1>4, <1>5, <1>6 DEF OnePerId, SpecialIdsOf

(* The id a text is given is that of the last token with the text.            *)
LEMMA LastCopy ==
    ASSUME NEW tokens, tokens \in Seq(Range(tokens)), Len(tokens) <= MaxU32,
           NEW i \in 1 .. Len(tokens)
    PROVE  tokens[i] \in DOMAIN Vocab(tokens) /\ Vocab(tokens)[tokens[i]] >= i - 1
<1> DEFINE text == tokens[i]
           I == {j \in 1 .. Len(tokens) : tokens[j] = text}
<1>1. Len(tokens) \in Nat /\ DOMAIN tokens = 1 .. Len(tokens)
  OBVIOUS
<1>2. text \in Range(tokens) /\ i \in I
  BY <1>1 DEF Range
<1>3. \E x \in I : \A y \in I : x >= y
  <2>1. I \subseteq 0 .. Len(tokens) /\ I # {}
    BY <1>1, <1>2
  <2> HIDE DEF I
  <2> QED
    BY <1>1, <2>1, LargestElement
<1>4. Max(I) \in I /\ Max(I) >= i
  BY <1>2, <1>3 DEF Max
<1>5. SelectLastInSeq(tokens, LAMBDA t : t = text) = Max(I)
  BY <1>2 DEF SelectLastInSeq
<1>6. Vocab(tokens)[text] = AsU32(Max(I) - 1)
  BY <1>2, <1>5 DEF Vocab
<1>7. text \in DOMAIN Vocab(tokens)
  BY <1>2 DEF Vocab
<1> HIDE DEF I
<1>8. Max(I) \in 1 .. Len(tokens)
  BY <1>4 DEF I
<1>9. Max(I) - 1 \in Nat /\ Max(I) - 1 <= MaxU32
  BY <1>1, <1>8, WordAssumption
<1>10. Vocab(tokens)[text] = Max(I) - 1
  BY <1>6, <1>9, SmallCast
<1> HIDE DEF text
<1>11. Vocab(tokens)[text] >= i - 1
  BY <1>1, <1>4, <1>8, <1>10
<1> QED
  BY <1>7, <1>11 DEF text

(* An accepted vocabulary fits the expected size with all its ids: those of   *)
(* texts, those of special tokens, and the largest one decode takes.          *)
LEMMA IdsFit ==
    ASSUME NEW meta, IsMetadata(meta), NEW size \in Nat, IsBuildable(meta, size)
    PROVE  LET t == GgufTokenizer(meta)
           IN  /\ \A text \in DOMAIN t.vocab : t.vocab[text] < size
               /\ \A s \in Range(t.special_tokens) : s.id < size
               /\ t.max_id < size
<1> DEFINE tokens == Tokens(meta)
           specials == SpecialTokens(meta)
<1>1. /\ tokens # Absent /\ tokens # <<>>
      /\ tokens \in Seq(Range(tokens)) /\ Len(tokens) \in Nat /\ Len(tokens) <= MaxU32
  BY DEF IsBuildable, IsMetadata
<1>2. vocabulary_size(meta) = Len(tokens) /\ Len(tokens) <= size
  <2>1. vocabulary_size(meta) = Len(tokens)
    BY <1>1, SmallCast DEF vocabulary_size
  <2> QED
    BY <2>1, AbsentAssumption DEF IsBuildable
<1>3. Len(tokens) > 0
  BY <1>1, EmptySeq
<1>4. \A text \in DOMAIN Vocab(tokens) : Vocab(tokens)[text] \in 0 .. Len(tokens) - 1
  BY <1>1, VocabId
<1>5. \A s \in Range(specials) : s.id \in 0 .. Len(tokens) - 1
  BY <1>1, SpecialIds
<1> DEFINE ids == {0, Len(tokens) - 1} \cup {s.id : s \in Range(specials)}
<1>6. max_id(meta) = Max(ids)
  BY <1>2 DEF max_id
<1>7. ids \subseteq 0 .. Len(tokens) - 1 /\ ids # {}
  BY <1>1, <1>3, <1>5
<1>8. Max(ids) \in ids
  <2> HIDE DEF ids
  <2>1. Len(tokens) - 1 \in Nat
    BY <1>1, <1>3
  <2>2. \E x \in ids : \A y \in ids : x >= y
    BY <1>7, <2>1, LargestElement
  <2> QED
    BY <2>2 DEF Max
<1>9. max_id(meta) \in 0 .. Len(tokens) - 1
  BY <1>6, <1>7, <1>8
<1>10. /\ GgufTokenizer(meta).vocab = Vocab(tokens)
       /\ GgufTokenizer(meta).special_tokens = specials
       /\ GgufTokenizer(meta).max_id = max_id(meta)
  BY DEF GgufTokenizer
<1> HIDE DEF tokens, specials
<1> QED
  BY <1>1, <1>2, <1>4, <1>5, <1>9, <1>10

(* decode takes every id that a text is given, and no two texts share one.    *)
LEMMA IdsDecodable ==
    ASSUME NEW meta, IsMetadata(meta), Tokens(meta) \notin {Absent, <<>>}
    PROVE  LET vocab == Vocab(Tokens(meta))
           IN  /\ \A text \in DOMAIN vocab : vocab[text] <= max_id(meta)
               /\ \A text, other \in DOMAIN vocab : vocab[text] = vocab[other] => text = other
<1> DEFINE tokens == Tokens(meta)
           n == Len(tokens)
           ids == {0, n - 1} \cup {s.id : s \in Range(SpecialTokens(meta))}
<1>1. tokens \in Seq(Range(tokens)) /\ n \in Nat /\ n <= MaxU32 /\ tokens # <<>>
  BY DEF IsMetadata
<1>2. n > 0
  BY <1>1, EmptySeq
<1>3. max_id(meta) = Max(ids)
  BY <1>1, SmallCast DEF max_id, vocabulary_size
<1>4. ids \subseteq 0 .. n - 1 /\ n - 1 \in ids
  BY <1>1, <1>2, SpecialIds
<1>5. Max(ids) >= n - 1 /\ Max(ids) \in Int
  <2> HIDE DEF ids, n
  <2>1. n - 1 \in Nat
    BY <1>1, <1>2
  <2> DEFINE last == n - 1
  <2> HIDE DEF last
  <2>2. ids \subseteq 0 .. last /\ last \in ids /\ last \in Nat
    BY <1>4, <2>1 DEF last
  <2>3. \E x \in ids : \A y \in ids : x >= y
    BY <2>2, LargestElement
  <2>4. Max(ids) \in ids /\ \A y \in ids : Max(ids) >= y
    BY <2>3 DEF Max
  <2>5. Max(ids) >= last
    BY <2>2, <2>4
  <2>6. Max(ids) \in 0 .. last
    BY <2>2, <2>4
  <2> QED
    BY <2>2, <2>5, <2>6 DEF last
<1>6. \A text \in DOMAIN Vocab(tokens) :
         Vocab(tokens)[text] \in 0 .. n - 1 /\ tokens[Vocab(tokens)[text] + 1] = text
  BY <1>1, VocabId
<1>7. \A text, other \in DOMAIN Vocab(tokens) :
         Vocab(tokens)[text] = Vocab(tokens)[other] => text = other
  BY <1>6
<1>8. \A text \in DOMAIN Vocab(tokens) : Vocab(tokens)[text] <= max_id(meta)
  <2> HIDE DEF ids, tokens, n
  <2> QED
    BY <1>1, <1>3, <1>5, <1>6
<1> QED
  BY <1>7, <1>8
=============================================================================
