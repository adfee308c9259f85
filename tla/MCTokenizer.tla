---------------------------- MODULE MCTokenizer ----------------------------
(* Vocabularies of up to three texts, one of them repeated, with every way to *)
(* declare types and special ids, or with a key missing or of another type.   *)
EXTENDS Tokenizer

Str(text) == [type |-> "String", value |-> text]
Array(values) == [type |-> "Array", value |-> values]
Strings(texts) == Array([i \in DOMAIN texts |-> Str(texts[i])])
Kinds(type, kinds) == Array([i \in DOMAIN kinds |-> [type |-> type, value |-> kinds[i]]])
Without(meta_, key) == [k \in DOMAIN meta_ \ {key} |-> meta_[k]]

Vocabularies == {<<"a">>, <<"a", "b">>, <<"a", "b", "a">>, <<"a", "b", "c">>}

Types ==
    {Kinds("Int32", <<3>>), Kinds("Int32", <<1, 3, 1, 3>>), Kinds("Int32", <<1, 1, 3>>),
     Kinds("UInt32", <<3, 3>>), Str("3")}

With(texts, types) ==
    [model |-> Str("gpt2"), tokens |-> Strings(texts), merges |-> Strings(<<>>), token_type |-> types]

Plain == With(<<"a", "b", "c">>, Kinds("Int32", <<1, 1, 3>>))

Id(type, id) == [type |-> type, value |-> id]

(* Ids of a token, of none, too wide for a u32, and of a type nobody reads.   *)
SomeIds == {Id("UInt32", 0), Id("UInt64", 1), Id("UInt32", 2), Id("UInt64", 9), Id("Int32", 1)}

Declaring ==
    {With(<<"a", "b">>, Kinds("Int32", <<1, 3>>)) @@ [eos_token_id |-> e, bos_token_id |-> b, padding_token_id |-> p]
        : e \in SomeIds, b \in SomeIds, p \in {Id("UInt32", 0), Id("UInt32", 1)}}

Refused ==
    {Without(Plain, key) : key \in {"model", "tokens", "merges"}} \cup
    {[Plain EXCEPT !.model = Str("llama")], [Plain EXCEPT !.tokens = Strings(<<>>)],
     [Plain EXCEPT !.tokens = Str("a")], [Plain EXCEPT !.tokens = Kinds("UInt32", <<1>>)],
     [Plain EXCEPT !.merges = Strings(<<<<"a", "b">>, <<"ab">>>>)]}

MCMetadata ==
    {With(texts, types) : texts \in Vocabularies, types \in Types} \cup Declaring \cup Refused
        \cup {Without(Plain, "token_type"),
              [Plain EXCEPT !.merges = Strings(<<<<"a", "b">>, <<"ab", "c", "c">>>>)]}

MCExpectedSizes == {Absent, 2}
=============================================================================
