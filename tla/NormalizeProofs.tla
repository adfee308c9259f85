--------------------------- MODULE NormalizeProofs ---------------------------
(* Theorems about Normalize, for any metadata and vocabulary size.            *)
EXTENDS Normalize, TLAPS

(* What is accepted is the configuration of metadata that passed the checks.  *)
Inv ==
    /\ meta \in Metadata
    /\ Accepted => Accepts(meta, vocab_size) /\ outcome = Normalized(meta, vocab_size)

LEMMA Invariance == Spec => []Inv
<1>1. Init => Inv
  BY DEF Init, Inv, Accepted
<1>2. Inv /\ [Next]_vars => Inv'
  <2> SUFFICES ASSUME Inv, [Next]_vars PROVE Inv'
    OBVIOUS
  <2>1. CASE Refuse
    BY <2>1 DEF Refuse, Inv, Accepted
  <2>2. CASE RefuseInvalid
    BY <2>2 DEF RefuseInvalid, Inv, Accepted
  <2>3. CASE Accept
    BY <2>3 DEF Accept, Inv
  <2>4. CASE UNCHANGED vars
    BY <2>4 DEF vars, Inv, Accepted
  <2> QED
    BY <2>1, <2>2, <2>3, <2>4 DEF Next
<1> QED
  BY <1>1, <1>2, PTL DEF Spec

(* A number without a remainder is a multiple, with a quotient between one    *)
(* and itself.                                                                *)
LEMMA ExactQuotient ==
    ASSUME NEW a \in Nat \ {0}, NEW b \in Nat \ {0}, a % b = 0
    PROVE  a \div b \in 1 .. a /\ a = (a \div b) * b
<1> DEFINE q == a \div b
<1>1. q \in Nat /\ a = q * b
  OBVIOUS
<1> HIDE DEF q
<1>2. q # 0
  BY <1>1
<1>3. q * b = q + q * (b - 1) /\ q * (b - 1) \in Nat
  BY <1>1
<1>4. q <= a
  BY <1>1, <1>3
<1> QED
  BY <1>1, <1>2, <1>4 DEF q

(* The numbers a file declares are natural.                                   *)
LEMMA DeclaredNumbers ==
    ASSUME Inv, NEW key
    PROVE  uint_value(meta, key) \in Nat \cup {Absent}
  BY MetadataAssumption DEF Inv, uint_value, ValueOf

(* The head geometry of every accepted configuration is usable.               *)
THEOREM HeadsOfAccepted == Spec => []HeadsPartition
<1>1. Inv => HeadsPartition
  <2> SUFFICES ASSUME Inv, Accepted PROVE HeadsPartition
    BY DEF HeadsPartition
  <2> DEFINE hidden == uint_value(meta, "embedding_length")
             heads == HeadCount(meta)
             kv == KvHeadCount(meta)
             dim == HeadDim(meta)
             declared == uint_value(meta, "key_length")
  <2>1. /\ outcome.hidden_size = hidden /\ outcome.num_attention_heads = heads
        /\ outcome.num_key_value_heads = kv /\ outcome.head_dim = dim
    BY DEF Inv, Normalized
  <2>2. /\ hidden # Absent /\ hidden # 0 /\ heads # Absent /\ heads # 0
        /\ kv # Absent /\ kv # 0 /\ heads % kv = 0
        /\ declared # Absent \/ hidden % heads = 0
        /\ dim # 0
    BY DEF Inv, Accepts, RequiredKeysPresent, NothingIsZero, FitsU32, HeadDimDefined
  <2>3. hidden \in Nat \ {0} /\ heads \in Nat \ {0} /\ kv \in Nat \ {0}
    BY <2>2, DeclaredNumbers DEF HeadCount, KvHeadCount, OrElse
  <2>4. declared \in Nat \cup {Absent}
    BY DeclaredNumbers
  <2>5. dim = IF declared = Absent THEN hidden \div heads ELSE declared
    BY DEF HeadDim, OrElse
  <2>6. \A count \in {<<"block_count", outcome.num_hidden_layers>>,
                      <<"head_count", outcome.num_attention_heads>>,
                      <<"head_count_kv", outcome.num_key_value_heads>>} :
           /\ count[2] \in 1 .. MaxU32
           /\ uint_value(meta, count[1]) # Absent => count[2] = meta[count[1]].value
    <3>1. outcome.num_hidden_layers = uint_value(meta, "block_count")
      BY DEF Inv, Normalized
    <3>2. /\ heads \in Nat \ {0} /\ heads <= MaxU32
          /\ kv \in Nat \ {0} /\ kv <= MaxU32
          /\ uint_value(meta, "block_count") \in Nat \ {0}
          /\ uint_value(meta, "block_count") <= MaxU32
      BY <2>2, <2>3, DeclaredNumbers DEF Inv, Accepts, RequiredKeysPresent, NothingIsZero, FitsU32
    <3>3. \A key : uint_value(meta, key) # Absent => uint_value(meta, key) = meta[key].value
      BY DEF uint_value, ValueOf
    <3>4. heads = uint_value(meta, "head_count")
      BY DEF HeadCount
    <3>5. uint_value(meta, "head_count_kv") # Absent => kv = uint_value(meta, "head_count_kv")
      BY DEF KvHeadCount, OrElse
    <3> HIDE DEF heads, kv
    <3> QED
      BY <2>1, <3>1, <3>2, <3>3, <3>4, <3>5, WordAssumption
  <2> HIDE DEF hidden, heads, kv, dim, declared
  <2>7. heads \div kv \in 1 .. heads /\ heads = (heads \div kv) * kv
    BY <2>2, <2>3, ExactQuotient
  <2>8. declared = Absent =>
           hidden \div heads \in 1 .. hidden /\ hidden = (hidden \div heads) * heads
    BY <2>2, <2>3, ExactQuotient
  <2>9. dim > 0
    BY <2>2, <2>4, <2>5, <2>8
  <2>10. \E group \in 1 .. heads : heads = group * kv
    BY <2>7
  <2>11. declared = Absent => dim * heads = hidden
    BY <2>5, <2>8
  <2> QED
    BY <2>1, <2>6, <2>9, <2>10, <2>11 DEF HeadsPartition, declared
<1> QED
  BY <1>1, Invariance, PTL

(* No token id of a configuration is anything but the declared one.           *)
THEOREM TokenIdsOfAccepted == Spec => []TokenIdsAreDeclared
<1>1. Inv => TokenIdsAreDeclared
  <2> SUFFICES ASSUME Inv, Accepted PROVE TokenIdsAreDeclared
    BY DEF TokenIdsAreDeclared
  <2>1. /\ outcome.bos_token_id = TokenId(meta, "bos_token_id")
        /\ outcome.eos_token_id = TokenId(meta, "eos_token_id")
    BY DEF Inv, Normalized
  <2>2. ASSUME NEW key
        PROVE  /\ TokenId(meta, key) # Absent =>
                      TokenId(meta, key) = meta[key].value /\ TokenId(meta, key) \in 0 .. MaxU32
               /\ uint_value(meta, key) \in 0 .. MaxU32 => TokenId(meta, key) # Absent
    <3>1. uint_value(meta, key) \in Nat \cup {Absent}
      BY DeclaredNumbers
    <3>2. uint_value(meta, key) # Absent => uint_value(meta, key) = meta[key].value
      BY DEF uint_value, ValueOf
    <3> QED
      BY <3>1, <3>2, WordAssumption, AbsentAssumption DEF TokenId, FitsU32
  <2> QED
    BY <2>1, <2>2 DEF TokenIdsAreDeclared
<1> QED
  BY <1>1, Invariance, PTL
=============================================================================
