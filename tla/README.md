# Formal model of the GGUF loader

The crate turns one file, `model.gguf`, into what the Magnetar runtime needs to run a Qwen2
model: a *manifest* (architecture configuration, an inventory of tensors with canonical names,
shapes and byte ranges, content digests) and a *payload source*, an object whose `read_payload`
returns the bytes of one tensor. It also builds a tokenizer from the metadata of the file. The
models here cover everything between the parsed file and what its users get out of it: manifest,
payload bytes, chat template, tokenizer, ids and texts.

Paths such as `weights.rs:83` are below `src/src/`.

## Inventory

| Part | State it keeps | Operations | Talks to | What is hard | What makes it correct |
|---|---|---|---|---|---|
| ingestor, `lib.rs` | none between calls; inside `ingest` the inventory, configuration, wrappers | `ingest`, `load_gguf_chat_template`, `load_gguf_tokenizer` | file system, all parts below, in a fixed order | reads the file twice (and again in each `load_*`), patches the configuration from the inventory, the order of wrapping, swapping and deriving | manifest, wrappers and configuration agree with each other and with one parsed file; every failure ends with an error |
| weight discovery and payload reads, `weights.rs` | `GgufPayloadSource`: path, start of the data, locations by name | `discover_and_parse_weights`, `read_payload` | file system; called by the wrappers, by several threads | opens the path again at every read, any time after ingest; partial reads; digest checked before dequantization; declared length differs from stored length | an answer is the tensor that was asked for, or an error |
| naming, `naming.rs` | none | `normalize_tensor_name` | discovery | two families of tables, two error kinds | no two tensors of a file share a canonical name |
| projection transposition, `weight_layout.rs` | stored sides by name | `TransposingPayloadSource::new`, `read_payload`, `swap_declared_projection_shapes` | discovery's source below, the derived head above | index arithmetic, order against the swap, overflow of the byte count | the delivered bytes are a permutation in the declared orientation |
| derived head, `derived_lm_head.rs` | the embedding's range and sides | `append_synthetic_lm_head_if_tied`, `new`, `read_payload` | transposing source below, runtime above | answers for a name nobody stored, from a range the caller did not send | a tied model gets a head that is the transposed embedding, under the embedding's digest |
| configuration, `config.rs` | none | `normalize` | ingestor | defaults that depend on each other, divisions, u64 to u32 | accepted geometry is usable, nothing is cut to fit |
| dequantization, `dequantize.rs` | none | three block formats, `f16_to_f32` | payload reads | packed 6-bit scales, loop counters and masks, subnormal scales | each element is made of its own bits, with the scale of its own sub-block |
| tokenizer, `tokenizer.rs` | vocabulary, special tokens | `from_gguf_metadata`, `encode`, `decode` | metadata, an external library; the embedding table by its row count | repeated texts, special tokens claiming ids, truncation policies, ids out of range | every id has a row; ids and offsets stay in step; decode undoes encode |
| file system (external) | path, files, open handles | rename over, overwrite, remove | everything that reads | changes between any two steps | (environment) |

The loader has no threads, no locks and no timer of its own. Concurrency comes from its users:
the payload source is `Send + Sync` and shared, and other programs may replace the file at any
moment.
Nothing is persisted, so there is no crash recovery to speak of; there are no retries.

## Modules

```
RustValues   Option, checked and saturating arithmetic
RowMajor     offsets in a row-major matrix
Naming       naming.rs, and the name tests of weight_layout.rs and lib.rs
Config       config.rs as functions         Normalize    one call of it, with its properties
Payload      discovery of one tensor, swap, sides, blocks (functions used below)
Disk         the path and its files, changed by other programs (environment)
Transpose    the copy loop, a step per element   --implements-->  TensorTranspose
Ingest       Disk + Payload + Config: ingest(), a step per stage and per tensor
Loader       Ingest + threads in read_payload     --implements-->  TensorStore
Dequantize   the three block loops, a step per chunk
HalfFloat    the conversion of a block's scale, a step per shift
Vocabulary   Config + from_gguf_metadata as functions
Tokenizer    Vocabulary: one tokenizer built, a prompt encoded, ids decoded
Session      Ingest + Vocabulary: ingest, then load_gguf_chat_template and load_gguf_tokenizer
SampleFiles  small GGUF files for the model checker
MC*          constants of the runs
TransposeProofs   theorems about Transpose
NormalizeProofs   theorems about Normalize
IngestProofs      theorems about Ingest: names, inventory, the finished manifest
LoaderProofs      IngestProofs: theorems about Loader, and its refinement of TensorStore
DequantizeProofs  theorems about Dequantize and HalfFloat
VocabularyProofs  lemmas about Vocabulary
TokenizerProofs   VocabularyProofs: theorems about Tokenizer
SessionProofs     IngestProofs + VocabularyProofs: theorems about Session
```

**Transpose** is `read_payload` of the transposing source from the moment the inner source has
answered: the check (an overflowing element count, a byte count that saturates), the zeroed
buffer, one `copy_from_slice` per step with its two range checks, the two loop counters.
`derived_lm_head.rs` contains the same code with other names for the sides; one module stands for
both. Each byte of the output holds the *index* of the input byte it came from, which is all a
permutation can show. `TensorTranspose` is the same call in one step: refuse what is not a
`rows x cols` matrix, else return a buffer in which element `(j, i)` is element `(i, j)`.

**Config** and **Normalize**. Metadata is a function from the keys the file declares to typed
values, so that "absent", "of the wrong type" and "too wide" are different inputs. `Accepts` is
the conjunction of the code's checks, `Normalized` the record it builds. `rope_theta` is one of three
classes (positive, nonpositive, NaN) because the comparison with zero tells them apart.
`rms_norm_eps` and the rope scaling factor are copied and left out.

**Ingest** follows `ingest()`: `ParseFile` (resolve, read, parse: one step, since the bytes of one
`fs::read` are what the parser sees), `DiscoverTensor` once per tensor, `Configure` (normalize and
the two patches), `WrapAndSwap` (`TransposingPayloadSource::new` and then the swap),
`DeriveLmHead`, `BuildManifest` (the second read, its digest, the layout digest). Each error return
has an action: `FileMissing`, `FileMalformed`, `RefuseTensor`, `NoVocabulary`, `RefuseConfig`,
`DigestUnreadable`, `RefuseName`. Names are sequences of their dot-separated components. A content
stands for its own SHA-256. What the external parser returns is a constant set `Contents`; the
external `validate` and `ModelName::new` may refuse anything.

**Loader** adds threads that ask for entries of the manifest. The steps of a call are those that
touch the file: compare the range with the recorded location, open, seek, each `read` of
`read_exact` (which may return less than it was asked for), and then, in one step because nothing
shared is touched any more, verify, dequantize, transpose, transpose again for a derived head.
Bytes are pairs (content, position); a dequantized byte is a term over the bytes of its block.
A handle keeps naming the file it was opened on, so a rename is invisible to it and an overwrite
is not. `window` is a history variable: the contents on the path during the call.

**TensorStore** is what the two wrappers together promise: a call is answered with an error or
with a view of the tensor it names, out of contents that were on the path while it was pending,
addressed by GGUF coordinates, without any buffer, cursor, wrapper or byte moved.

**Dequantize** runs one call on a raw buffer whose bits are symbols: bit `k` of byte `p` is
`<<p, k>>`. A byte that the code computes is a function from its eight bits to the sets of input
bits or-ed into them, and `&`, `>>`, `<<`, `|` are defined on that, so one run stands for every
content of the buffer. The floating-point formulas, `d * quant` and `(d * scale) * quant - dmin * min`,
stay terms: an output value is the record of their operands. The sizes are the real ones
(34, 144 and 176 bytes; 32 and 256 elements); `u1`, `u2` and `is` are the locals of the loop, an
action is one trip through it. `FollowsFormat` compares with the layout of the format written down
place by place, without counters or shifts. **HalfFloat** is `f16_to_f32`, one action per branch and
one per shift of the renormalization, on every one of the 65536 patterns.

**Vocabulary** is `from_gguf_metadata` up to the external library: which metadata is refused
(`IsBuildable`, in the kinds of `TokenizerError`), the vocabulary as a map collected from the array
(`Vocab`, so that a repeated text keeps its last id), the texts of CONTROL type, the special tokens as
`push_special` claims them (`SpecialTokens`), and `max_id`. Arrays keep the elements of the type that
is read and pass over others, as `string_array` does. Casts to `u32` wrap.

**Tokenizer** is one tokenizer in use. Splitting a prompt by byte-pair merging is the external
library's work: a prompt is given as the sequence of its pieces, and the offset of a piece is its
place in it, which is what tells one byte range from another. `Encode` truncates ids and offsets by
each `TruncationPolicy`, `PromptTooLong` is the policy `None`, and `EncodeFails` the library's own error,
which may meet any prompt; `Decode` takes what `encode` returned
or any other ids, `InvalidTokenId` is its range check. That BPE model and `validate()` may refuse more is
`Refuse`. `OffsetsUnsupported` cannot happen, the metadata always says that offsets are supported.

**Session** is what a user of the crate does with a bundle: the actions of `Ingest`, then
`LoadChatTemplate` and `LoadTokenizer` in either order, each reading the path at a time of its own.
The expected size passed to the tokenizer is the vocabulary of the configuration that ingest returned.

Definitions called `Mutant...` are not part of the model. Each is a plausible bug, kept in front of
the definition it spoils, and shows that a property notices it (`mutants` in `PROJECT.json`).

## Runs

| Run | Asks | Bounds |
|---|---|---|
| `transpose` | does the loop give exactly one transpose or one refusal, without a panic, an overwritten byte or an endless loop | sides 0..4, widths 1 and 2, payloads of 0..14 bytes, `MaxU64` = 15: squares, non-squares, empty sides, an element count over the limit and a byte count that saturates |
| `normalize` | what may be relied on in an accepted configuration | every combination of absent, zero, dividing, non-dividing, too wide and wrongly typed keys, required and optional; `MaxU32` = 7 |
| `ingest` | is what is published consistent with the parsed file and with what will read it | 19 files or none, the path changed once anywhere |
| `loader_rename` | do concurrent calls survive replacement by rename and removal | two threads, a call each, two changes, three contents of which two share a layout |
| `loader_inplace` | the same when the file is also rewritten under an open handle, for every shape of store; does every call return | one thread, two calls, one change, six stores, reads that return 4 bytes or all |
| `dequantize` | is every bit of a block used once and for the right element, and is a scale converted exactly | buffers of 0, 1 or 2 blocks with a rest of 0, 1 or all but one byte, real sizes, symbolic bits; all 65536 half floats, `MaxShift` = 12 (the code shifts at most ten times); one pattern with every buffer, and every pattern with an empty one, since a conversion is a call without shared state |
| `tokenizer` | can a tokenizer be relied on, whatever the metadata declares | vocabularies of up to three texts, one with a repetition, types longer and shorter than the tokens, ids of a token, of none, too wide, of another type; prompts of up to 4 pieces, limits 0..3 and none, foreign sequences of one id; `MaxU32` = 7 |
| `session` | do manifest, template and tokenizer belong together | 8 files or none, the path changed twice by rename or removal (a file is read whole here, so rewriting it in place would be the same) |
| `digest_anchor`, `attention_bias`, `tied_head`, `declared_digest` | does the code do what four comments say | as above |

*What they show.* Ingest: names stay apart (`NamesUnambiguous`), every range in the manifest is
one the payload source accepts although a quantized tensor is declared longer than it is stored
(`EntriesAddressable`), every label is reversed the right number of times
(`DeclaredOrientation`), the wrappers have the sides of the bytes and the manifest those of the
answer (`SidesMatchManifest`), and vocabulary, tie and head agree (`VocabularyAgrees`,
`HeadIsPublished`). Loader: whoever reads while the file is replaced gets one tensor of *one*
content (`ImplementsTensorStore`), a range with a digest gets the bytes that were parsed or an
error (`VerifiedReads`), an untouched well-formed file is readable throughout
(`ManifestReadable`), and a shrunken or missing file ends the call (`CallsReturn`),
each step of which brings the end closer whatever happens around it (`CallsAdvance`).

Dequantize: every bit of a block serves exactly once (`EveryBitServesOnce`), for the element and
sub-block the format says (`FollowsFormat`), and scales keep their value (`HalfIsExact`) after a
loop that ends (`HalfReturns`). Tokenizer: an id that encode returns has a row in the embedding
table (`EncodedIdsAddressRows`), truncation keeps ids and offsets in step and the right end of
the prompt (`OffsetsBelongToIds`), decode gives the pieces back (`DecodeUndoesEncode`), and the
special tokens are those the file declares, eos before bos (`SpecialsAreDeclared`). Session: a
tokenizer that was built from *another* file still fits the embedding (`TokenizerFitsEmbedding`), and one
from the same file agrees with the configuration and the manifest (`SpecialsAgree`,
`LoadsFollowManifest`).

*What they do not promise.* A template or tokenizer may be of a newer file than the manifest; only
the size is compared, nothing in the code compares more. Without a digest, the content of a payload
may be a *newer* one than the one that was parsed, and with overwriting in place a mix of two:
`TensorStore` allows both, the second only when `Atomic` is false, because nothing in the code
prevents either.

*Why the bounds are enough.* A read involves one thread's handle, the path and its files, and
nothing the threads write to together; two threads show any influence of one on the other and
three would repeat it. A call spans at most one parsed content, the one it opened and the one it
is changed into: two changes and three contents. Sizes are scaled (an F32 has 2 bytes, an F16 1; a
block has 2 or 4 elements in 2 or 3 bytes; offsets stay below 64) so that each file holds several
elements, several blocks, odd lengths and an offset that overflows. `SampleFiles` has two
checkpoints of one layout, a head of its own and a derived one, quantized and plain tensors,
repeated names, ranges that contradict shapes or run past the end of the file, and one file for each
refusal. A session reads the path four times; two changes give any two of those reads a different
file. The truncations differ for a limit of zero, one, even and odd, and a prompt one or
several pieces longer: limits 0..3 and four pieces have them all.

*Deadlock* is not checked in any run: a call returns, an ingest ends, callers owe no further call
(`CHECK_DEADLOCK FALSE`). That nothing stops early is what `Terminates`, `IngestEnds`,
`CallsReturn` and `HalfReturns` say; `EndsInTime` and `CallsAdvance` are their halves that need no fairness.

*Fairness.* Weak fairness of the copy loop, of the conversion of a scale, of ingest's own steps and
of each thread's step inside `read_payload`: each is straight-line code on its caller's thread. There
is none on callers, on other programs or on what `read` returns (beyond at least one byte before
the end), and none in `normalize`, `tokenizer` and `session`, nor of the block loops in `dequantize`, where only safety is checked.

## Where comments and code part ways

Four runs end in a counterexample, each on purpose.

1. `DigestAnchorsParsedFile`. `lib.rs:232-238` says the manifest is "anchored to this exact file's
   real bytes". The tensors come from the read at `weights.rs:174`, the digest from the one at
   `lib.rs:239`; a file renamed over the path in between gives the one file's layout under the
   other's identity.
2. `AttentionBiasIsPresence`. `config.rs:75-78` derives `attention_bias` from the presence of
   `blk.N.attn_{q,k,v}.bias`; `lib.rs:184` looks for `q_bias` alone.
3. `TiedHeadIsAppended`. `derived_lm_head.rs:20-23` appends a head to a tied model with an
   embedding; the code also wants the embedding to have two dimensions and otherwise
   publishes a tied model without a head.
4. `DeclaredDigestsAreVerified`. `weight_layout.rs:37-41` says the digest of a projection is verified
   at read time, before the transposition. The swap clears it and nobody keeps a copy. The parser
   in use may never declare a per-tensor digest; the run shows what happens if it does.

One more has no run of its own: `tokenizer.rs:69-71` requires a non-empty `merges` array, the code
accepts an empty one, and so does `IsBuildable`.

## Proofs

TLC sees small instances; the theorems hold for every value of the constants.

`TransposeProofs` is about any set of sides and widths and any length below the largest `u64`.

- `Invariance` is the heart, `Spec => []Inv`. The property that nothing panics is not inductive, so
  `Inv` adds `BufferFollowsLoop`: the length is exactly `rows * cols * width`, elements before
  `(row, col)` in loop order are in their transposed places, all other bytes are still zero.
- Under it lie arithmetic lemmas about `RowMajor`: different elements have different numbers, their
  bytes are disjoint (`OffsetDisjoint`), inside the buffer (`OffsetInRange`) and cover it
  (`OffsetCovers`). `CopyElementInv` uses all of them. `LengthExact` is why the saturating product
  is harmless: a vector is never as long as the largest `u64`.
- `TypeCorrect`, `NoPanic` and `EachByteWrittenOnce` follow, and `LoopIsClosedForm`: byte `k` of an
  answer comes from `SourceOfByte(k)`, by `ElementOfByte`. That is what lets `Loader` transpose in
  one step. `Refinement` proves that the loop
  implements `TensorTranspose`: a refusal is justified also where the check overflowed
  (`RefusalJustified`), an answer is complete (`LoopTransposes`), all else is invisible.

`LoopEnds` is about time: `StepsLeft` counts the elements and row ends that are ahead, and each step
makes it smaller (`NextAdvances`), so that a call ends after `rows * (cols + 1) + 2` steps at most, also
when a side is zero.

The assumptions are those of `Transpose`: sides are natural numbers, widths positive, a `Vec<u8>`
shorter than `MaxU64`, and `Zeroed` is not an index.

`NormalizeProofs` is about any metadata whose numbers are natural. An accepted outcome is
`Normalized` of metadata that passed `Accepts` (`Inv`), and `ExactQuotient` turns the two
divisibility checks into `HeadsOfAccepted`, which also says that layer and head counts are the declared
numbers, positive and no wider than a u32; `TokenIdsOfAccepted` follows the checked conversion.

`IngestProofs` is about any set of contents, widths and block sizes, with other programs changing
the path between any two steps. The properties speak of the finished manifest and say nothing
about the stages before it, so none is inductive. The inductive invariant `Inv` adds
`InventoryFollowsFile`: until the swap entry `i` is `Entry` of tensor `i` of the parsed file, and
after it `SwapSides` of that; only accepted tensors have entries; a derived head comes after
them all. One lemma per action shows it preserved (`DiscoverTensorInv` appends one entry,
`WrapAndSwapInv` changes all at once, `DeriveLmHeadInv` adds one that is nobody's); the failing
actions share `FailureInv`, other programs have `ChangeDiskInv`. From it:

- `TypeCorrect`: what is recorded always has a byte range, and ingest ends with exactly one of
  manifest and error.
- `OrientationDeclared`: a label reversed by discovery and again by the swap is the file's
  (`ReverseTwice`), any other is reversed once, whatever the rank.
- `NamesStayApart`: equal names in the inventory are equal canonical names of the file's
  tensors, and `CanonicalInjective` does the rest: recognized names that translate alike are alike.
  Two names of layers agree in the index (`SecondOfConcat`), then in the translated field, and no two
  fields of the two tables translate alike (`FieldInjective`); a global name has one component and
  a name in a layer at least three.

It assumes what the external parser returns (`ContentsAssumption`: a sequence of tensors with names
made of strings, natural dimensions, known storage types, and ranges that are natural or absent),
that F32 has a width, and that the value for `None` is neither a number, a content nor an error.

The same module carries on from there. The finished manifest is a function of the parsed file, and
`ManifestInv` says which, stage by stage, next to `Inv`: the configuration takes vocabulary and tie
from the file's embedding and from whether it has an `output.weight` (`ConfigFollowsFile`); a
location is that of the last tensor of its name so far (`LocationsFollowFile`); the wrapper's sides
are those before the swap (`SidesFollowFile`); a head is derived exactly if the tie and a 2-D
embedding ask for it (`HeadFollowsFile`). `EmbeddingAt` is the first tensor named `token_embd.weight`;
that it is also the first *entry* of the canonical name is `GlobalNames`, a consequence of
`CanonicalInjective`. From it:

- `VocabularyIsEmbedding`, `HeadInManifest`, `SidesOfManifest`.
- `RangesAddressable`: two entries of a file that tells its tensors apart have different names
  (`EntriesApart`), so each location is that of its own tensor.

It assumes in addition that the value for `None` is not the record of a wrapper
(`WrapperAssumption`).

`LoaderProofs` is about any number of threads and calls and any interference on the path. `LoaderInv`
adds to `ManifestInv` what is true of one thread whatever the others do (`ReaderInv`): a call in
progress asks for an entry of the manifest; from `seek` on its range is one the source has accepted;
while it reads, the buffer holds `0 .. n - 1` and the cursor is the start of the range plus `n`
(`Reading`). `FrameReader` is the independence of threads: a step that leaves a thread's variables
alone, and only adds files, keeps its `ReaderInv`. From it:

- `ReadersTypeCorrect`.
- `VerifiedReadsOfFile`: a range with a digest gives the parsed file's tensor or an error, even when
  the file is rewritten under the handle. The digest fixes the raw bytes (`DigestOfParsed`,
  `InOrder`), `QuantizedInOrder` follows them through the blocks, and `StraightView` and `FlippedView`
  through no, one or two transpositions (`TransposedElement`). `DeliveredView` puts the cases together.
- `LoaderImplementsStore`: the refinement of `TensorStore`. `StoreInv` adds to each call its window:
  what it opened was on the path since the call began, and every byte it holds is the byte at that
  position of a content in the window: the one of its handle, or any of them where files are
  rewritten in place (`WindowInv`, `Sources`). `StepSimulates` maps each step to a request, an answer,
  a change of the path or a stutter; an answer is `DeliveredView` again, with the window's contents
  in place of the parsed one.
- `ManifestCanBeRead`: `UntouchedInv` says that while nobody has touched the path it holds what was
  parsed and every open handle is on it, so each check of `read_payload` succeeds
  (`UntouchedSucceeds`): the location is found by `RangesAddressable`, no read ends early because the
  range lies in the file, and the length is that of the declared shape (`CountOfMatrix`).

- `CallsEndInTime`: `StepsLeft` is what a call has ahead if each read gives a single byte.
  `ReadSomeAmount`, of which `LoaderInv` is made too, says that a read gives at least one byte and at
  most what the range has left, so every step of the call makes it smaller (`CallStepAdvances`) and
  nothing else changes it (`OthersLeaveCall`): neither other threads nor a file that shrinks or grows.

The refinement holds where the parsed file tells its tensors apart by name (`NamesApart`, a
hypothesis of the theorem; a condition inside the other two properties). Without it the statement is
false: of a matrix and a vector that share a name, `weight_layout.rs:76` transposes the vector when it
happens to be as long as the matrix. TLC checks the refinement also on files that repeat names
in other ways. Assumed are positive widths and block sizes (`UnitsAssumption`), files and
dequantized tensors shorter than the largest `u64` and digests that stand for the bytes in the file
(`BytesAssumption`), and that `None` is neither a kind of error nor a set of tensors
(`ReadErrorAssumption`, `StoredAssumption`).

`DequantizeProofs` is about a raw buffer of any length, and about every half float.

- `FormatFollowed`. The property speaks of a finished call, so `DequantizeInv` says what the loop has
  done so far: loop variable, sub-block and the two masks are in one of five constellations
  (`Counted`; in the last the masks have overflowed to zero, and the next block resets them), and
  the values so far are those of the finished blocks and of the finished chunks of this one, each
  as the format has it (`Filled`). What a word holds is proved bit by bit: `MaskBits` evaluates the masks,
  `ScaleMinBits` follows the packed scales and minima through the masks and shifts of
  `get_scale_min_k4`, `HighBit` the fifth bit of a Q5_K quant. `ExtendedElement` puts one value
  together and `AppendFormat` a chunk: `Place` says that element `e` of block `b` is value
  `b * ElementsOf(kind) + e`.
- `BitsServeOnce` follows from the same invariant without looking at the code again. That no bit
  serves twice is shown by counting: the places that the format assigns are *all* bits of the bytes
  concerned (`QuantBitsOnto`, `FactorBitsOnto`), those are eight times as many as there are bytes
  (`BitsCounted`), and there are exactly as many places to fill.
- `HalfExact`. `HalfInv` says that while a subnormal is renormalized the local `mantissa` is the
  argument's times `2^shift`, still below `2^11`, and that the leading bit is reached after at most
  ten shifts; then the exponent that is computed from the number of shifts is the right one.
  `ShiftPowers` has the powers of two that occur.

It assumes that the length of a buffer is a natural number.

`VocabularyProofs` has what can be relied on in a tokenizer built from any metadata. The id of a text
is one less than an index of the array (`VocabId`, which needs `LargestElement` because a repeated
text takes the last one; `LastCopy` says it is not an earlier one) and a cast to `u32` does not change
it (`SmallCast`). No two texts share one, and `decode` takes them all (`IdsDecodable`). `push_special` adds at most a token of the array (`PushSpecial`, `PushRange`), one for
each id (`PushOne`); three of them in a row are `SpecialIds`, `SpecialsDeclared`, `SpecialsComplete`.
`IdsFit`: a vocabulary that passed the check against an expected size has all its ids below it,
`max_id` included.

`TokenizerProofs` is about any metadata, prompt and limit. Its invariant `Inv` says that a tokenizer is
`GgufTokenizer` of accepted metadata for good (`Built`), that an answer is `Encoded` of its prompt
(`Answered`), and that what is decoded afterwards is that answer (`Decoded`): the properties speak of an answer in isolation, and without `Inv` nothing is known of
what it was made from. From it:

- `OffsetsInStep`: `Place` is where in the prompt the i-th kept token stood, a closed form for each
  policy. `TruncatedPlaces` shows that the slices of the code keep exactly those places,
  `EncodedPlaces` that this goes for ids and offsets alike; the rest is arithmetic about `Place`.
- `EncodedIdsInTable`, from `VocabId`, and `SpecialsOfFile`, from `SpecialsComplete` and `LastCopy`.
- `DecodeReturnsPieces`: since no two texts share an id, the texts of the ids are the pieces that were
  kept, and the texts to be skipped are those declared CONTROL (`ControlOfFile`). Model and property then
  filter equal sequences by equal sets (`Among`), so what the recursive `SelectSeq` computes need
  not be known.

`SessionProofs` joins the two halves.

- `TokenizerFits`: a tokenizer has passed the checks with the vocabulary of the configuration, which
  nobody changes after ingest (`SessionInv`); `IdsFit` bounds its ids by that number, and
  `ManifestInv` says that the number is the row count of the embedding. No file is named anywhere:
  it holds whichever two files were read.
- `LoadsOfParsedFile` and `SpecialsOfParsedFile`: `FileInv` says that each answer is made of one
  content and carries its digest, and that configuration and manifest are made of the parsed one;
  equal digests are equal contents (`DigestAssumption`), and `SpecialsDeclared` does the rest.

Both assume that a file lists at most `MaxU32` tokens (`MetadataAssumption`: beyond, the casts would
wrap, which takes a metadata section of tens of gigabytes); `TokenizerProofs` also that sizes and
limits are natural.

Only model-checked is liveness (`Terminates`, `IngestEnds`, `CallsReturn`, `HalfReturns`), which is
beyond the prover. That the copy loop and a call of `read_payload` take a bounded number of steps is
proved; that the steps are taken is the fairness assumed. Every other property that a run expects to hold is a theorem.

## Not modelled

- The arithmetic of floating-point numbers in dequantization, of which the models show the operands.
- Byte-pair merging, pre-tokenization and the decoder of the tokenizers library.
- Two error returns that no state reaches. `InvalidUtf8` (`tokenizer.rs:358-360`) passes on a failure of
  the library's decode, but the ByteLevel decoder replaces bytes that are no text and does not fail;
  `DecodeUndoesEncode` and its theorem rest on that. `MalformedMetadata` at `lib.rs:218-222` needs an embedding
  without a range or without two sides, but discovery records a range of every tensor
  (`weights.rs:187-194`) and a head is only appended for a matrix (`derived_lm_head.rs:34`).
- `char_start` and `char_end`, which are copies of the byte offsets. The runtime crate that defines
  them is not here, so there is nothing to compare them with.
- An expected size other than the configuration's: `load_gguf_tokenizer` takes any, or none.
- `sanitize_model_name`, error texts, `Debug` output: wording.
- A digest collision; a read error other than "missing" and "too short"; a change *during* the
  one `fs::read` of parsing; memory exhaustion.
- The external crates: what they return is a constant or a free choice. In particular the length of
  a plain tensor that is not transposed is whatever range the parser declares.
- The release workflow, which publishes the crate.

## Plan

Done: `Transpose`, `Normalize`, `Ingest`, `Loader`, `Dequantize` with `HalfFloat`, `Vocabulary`,
`Tokenizer`, `Session`, and proofs for each. Every part of the crate that changes state has its model,
and every safety property of a passing run is a theorem.

What is left: the bound of an ingest's steps, whose loop is over the tensors of a finite file, as an
action property like those of `Transpose` and `Loader`, and `Transpose` as the transposition of a
derived head, which has its theorems but no statement that names both callers.
