------------------------------- MODULE Loader -------------------------------
(* The payload source ingest returned, used by several threads at once while  *)
(* other programs change the path: read_payload of DerivedLmHeadPayloadSource *)
(* around TransposingPayloadSource around GgufPayloadSource, in the steps     *)
(* that touch the file.                                                       *)
EXTENDS Ingest

CONSTANTS
    Readers,        \* the threads that call read_payload
    MaxRequests,    \* bound: calls per thread
    ReadSizes       \* what one read() of read_exact may return at most

ASSUME ReadersAssumption == MaxRequests \in Nat /\ ReadSizes \subseteq Nat \ {0}

ASSUME UnitsAssumption ==
    /\ \A type \in DOMAIN Width : Width[type] \in Nat \ {0}
    /\ \A kind \in Quantized : BlockElements[kind] \in Nat \ {0} /\ BlockBytes[kind] \in Nat \ {0}

(* How many bytes a read of the whole range of a tensor gives.               *)
HeldElementBytes(t) ==
    IF t.dtype \in Quantized
    THEN (t.size \div BlockBytes[t.dtype]) * BlockElements[t.dtype] * Width["F32"]
    ELSE t.size

(* A file is shorter than the largest u64, and so is what a tensor of it is   *)
(* dequantized to. A digest is of bytes that are in the file, and stands for  *)
(* them.                                                                      *)
ASSUME BytesAssumption ==
    \A c \in Contents :
        /\ c.length \in Nat /\ c.length < MaxU64 /\ c.data_start \in Nat
        /\ \A t \in Range(c.tensors) :
              /\ t.dtype \in Quantized /\ t.size # Absent => HeldElementBytes(t) < MaxU64
              /\ t.digest # Absent =>
                    /\ t.offset \in Nat /\ t.size \in Nat
                    /\ c.data_start + t.offset + t.size <= c.length
                    /\ t.digest = [k \in 0 .. t.size - 1 |-> Byte(c, c.data_start + t.offset + k)]

(* The kinds of ProductionIngestionError read_payload returns.                *)
ReadErrorKinds ==
    {"PayloadOutOfBounds", "PayloadUnavailable", "IntegrityMismatch", "MalformedMetadata"}

ASSUME ReadErrorAssumption == Absent \notin ReadErrorKinds

VARIABLES
    step,       \* where each thread's call stands
    request,    \* the manifest entry it asked for
    handle,     \* the file its own handle is open on
    cursor,     \* the position of its handle
    raw,        \* the part of its buffer read_exact has filled
    reply,      \* what its last call returned
    calls,      \* how many calls it has made
    window      \* history: the contents on the path during its call

readVars == <<step, request, handle, cursor, raw, reply, calls, window>>
loaderVars == <<diskVars, ingestVars, readVars>>

NoBytes == [k \in {} |-> Absent]

LoaderInit ==
    /\ Init
    /\ step = [r \in Readers |-> "idle"]
    /\ request = [r \in Readers |-> Absent]
    /\ handle = [r \in Readers |-> NoFile]
    /\ cursor = [r \in Readers |-> 0]
    /\ raw = [r \in Readers |-> NoBytes]
    /\ reply = [r \in Readers |-> Absent]
    /\ calls = [r \in Readers |-> 0]
    /\ window = [r \in Readers |-> {}]

ContentOnDisk == IF path = NoFile THEN Absent ELSE OnDisk

Busy(r) == step[r] # "idle"

(* A caller makes its range from an entry of the manifest.                    *)
Request(r) ==
    /\ stage = "done"
    /\ ~Busy(r)
    /\ calls[r] < MaxRequests
    /\ \E i \in DOMAIN tensors : request' = [request EXCEPT ![r] = tensors[i]]
    /\ step' = [step EXCEPT ![r] = "open"]
    /\ calls' = [calls EXCEPT ![r] = @ + 1]
    /\ reply' = [reply EXCEPT ![r] = Absent]
    /\ window' = [window EXCEPT ![r] = {ContentOnDisk}]
    /\ UNCHANGED <<handle, cursor, raw>>

(* Everything local to the call is dropped when it returns.                   *)
Return(r, answer) ==
    /\ reply' = [reply EXCEPT ![r] = answer]
    /\ step' = [step EXCEPT ![r] = "idle"]
    /\ handle' = [handle EXCEPT ![r] = NoFile]
    /\ cursor' = [cursor EXCEPT ![r] = 0]
    /\ raw' = [raw EXCEPT ![r] = NoBytes]
    /\ UNCHANGED <<request, calls, window>>

ReturnError(r, kind) == Return(r, [error |-> kind, bytes |-> NoBytes])

AsksForDerived(r) == derived # Absent /\ request[r].name = LM_HEAD

(* The derived head ignores the caller's range and reads the embedding's.     *)
InnerRange(r) == IF AsksForDerived(r) THEN derived.range ELSE RangeOf(request[r])

RequestedLocation(r) == locations[InnerRange(r).identity]

OutOfBounds(r) ==
    /\ step[r] = "open"
    /\ ~Addressable(InnerRange(r))
    /\ ReturnError(r, "PayloadOutOfBounds")

CannotOpen(r) ==
    /\ step[r] = "open"
    /\ Addressable(InnerRange(r))
    /\ path = NoFile
    /\ ReturnError(r, "PayloadUnavailable")

Open(r) ==
    /\ step[r] = "open"
    /\ Addressable(InnerRange(r))
    /\ path # NoFile
    /\ handle' = [handle EXCEPT ![r] = path]
    /\ step' = [step EXCEPT ![r] = "seek"]
    /\ UNCHANGED <<request, cursor, raw, reply, calls, window>>

Start(r) == CheckedAdd(parsed.data_start, RequestedLocation(r).offset)

OffsetOverflows(r) ==
    /\ step[r] = "seek"
    /\ Start(r) = Absent
    /\ ReturnError(r, "PayloadOutOfBounds")

MutantSeekShared(r) ==
    /\ step[r] = "seek"
    /\ Start(r) # Absent
    /\ cursor' = [q \in Readers |-> Start(r)]
    /\ step' = [step EXCEPT ![r] = "read"]
    /\ UNCHANGED <<request, handle, raw, reply, calls, window>>

Seek(r) ==
    /\ step[r] = "seek"
    /\ Start(r) # Absent
    /\ cursor' = [cursor EXCEPT ![r] = Start(r)]
    /\ step' = [step EXCEPT ![r] = "read"]
    /\ UNCHANGED <<request, handle, raw, reply, calls, window>>

Remaining(r) == RequestedLocation(r).length - Length(raw[r])

AtEnd(r) == cursor[r] >= files[handle[r]].length

MutantReadSome(r) ==
    /\ step[r] = "read"
    /\ Remaining(r) > 0
    /\ ~AtEnd(r)
    /\ LET content == files[handle[r]]
           got == Length(raw[r])
           n == content.length - cursor[r]
       IN  /\ raw' = [raw EXCEPT ![r] =
                         [k \in 0 .. got + n - 1 |->
                             IF k < got THEN raw[r][k]
                             ELSE Byte(content, cursor[r] + k - got)]]
           /\ cursor' = [cursor EXCEPT ![r] = @ + n]
    /\ UNCHANGED <<step, request, handle, reply, calls, window>>

(* One read() inside read_exact: as much as was asked for, or less.           *)
ReadSome(r) ==
    /\ step[r] = "read"
    /\ Remaining(r) > 0
    /\ ~AtEnd(r)
    /\ \E size \in ReadSizes :
          LET content == files[handle[r]]
              got == Length(raw[r])
              n == Min({size, Remaining(r), content.length - cursor[r]})
          IN  /\ raw' = [raw EXCEPT ![r] =
                            [k \in 0 .. got + n - 1 |->
                                IF k < got THEN raw[r][k]
                                ELSE Byte(content, cursor[r] + k - got)]]
              /\ cursor' = [cursor EXCEPT ![r] = @ + n]
    /\ UNCHANGED <<step, request, handle, reply, calls, window>>

MutantUnexpectedEnd(r) ==
    /\ step[r] = "read"
    /\ Length(raw[r]) = 0 /\ Remaining(r) > 0
    /\ AtEnd(r)
    /\ ReturnError(r, "PayloadUnavailable")

UnexpectedEnd(r) ==
    /\ step[r] = "read"
    /\ Remaining(r) > 0
    /\ AtEnd(r)
    /\ ReturnError(r, "PayloadUnavailable")

-----------------------------------------------------------------------------
(* From the raw bytes on, a call touches nothing but its own buffers.         *)
Filled(r) == step[r] = "read" /\ Remaining(r) = 0

MutantVerified(r) == TRUE
Verified(r) == InnerRange(r).digest = Absent \/ InnerRange(r).digest = raw[r]

Converted(r) == Convert(raw[r], RequestedLocation(r).source)

NeedsTranspose(r) == InnerRange(r).identity \in DOMAIN sides

(* TransposingPayloadSource and then DerivedLmHeadPayloadSource each refuse a *)
(* payload that is not a matrix of the sides they recorded.                   *)
IsShaped(r) ==
    /\ NeedsTranspose(r) => IsMatrix(Converted(r), sides[InnerRange(r).identity])
    /\ AsksForDerived(r) => IsMatrix(Converted(r), derived)

Delivered(r) ==
    LET inner == IF NeedsTranspose(r)
                 THEN TransposedBy(Converted(r), sides[InnerRange(r).identity])
                 ELSE Converted(r)
    IN  IF AsksForDerived(r) THEN TransposedBy(inner, derived) ELSE inner

DigestMismatch(r) ==
    /\ Filled(r)
    /\ ~Verified(r)
    /\ ReturnError(r, "IntegrityMismatch")

WrongLength(r) ==
    /\ Filled(r)
    /\ Verified(r)
    /\ ~IsShaped(r)
    /\ ReturnError(r, "MalformedMetadata")

Deliver(r) ==
    /\ Filled(r)
    /\ Verified(r)
    /\ IsShaped(r)
    /\ Return(r, [error |-> Absent, bytes |-> Delivered(r)])

ReadStep(r) ==
    \/ OutOfBounds(r) \/ CannotOpen(r) \/ Open(r)
    \/ OffsetOverflows(r) \/ Seek(r)
    \/ ReadSome(r) \/ UnexpectedEnd(r)
    \/ DigestMismatch(r) \/ WrongLength(r) \/ Deliver(r)

(* A change of the path is seen by every call in progress.                    *)
DiskStep ==
    /\ ChangeDisk
    /\ window' = [r \in Readers |->
                    IF Busy(r)
                    THEN window[r] \cup {IF path' = NoFile THEN Absent ELSE files'[path']}
                    ELSE window[r]]
    /\ UNCHANGED <<ingestVars, step, request, handle, cursor, raw, reply, calls>>

CallStep(r) == ReadStep(r) /\ UNCHANGED <<diskVars, ingestVars>>

LoaderNext ==
    \/ IngestStep /\ UNCHANGED <<diskVars, readVars>>
    \/ DiskStep
    \/ \E r \in Readers :
          \/ Request(r) /\ UNCHANGED <<diskVars, ingestVars>>
          \/ CallStep(r)

(* A thread that called read_payload keeps running until the call returns;    *)
(* no caller owes a call, and other programs owe nothing.                     *)
LoaderSpec ==
    /\ LoaderInit
    /\ [][LoaderNext]_loaderVars
    /\ \A r \in Readers : WF_loaderVars(CallStep(r))

-----------------------------------------------------------------------------
(* What a call in progress is entitled to: the stored tensors (several only   *)
(* if the file repeats a name and range) its manifest entry was made from.    *)
ElementWidth(t) == IF t.dtype \in Quantized THEN Width["F32"] ELSE Width[t.dtype]

StoredIn(c, t, flipped) ==
    [ne       |-> t.ne,
     length   |-> HeldElementBytes(t),
     width    |-> ElementWidth(t),
     dtype    |-> t.dtype,
     start    |-> c.data_start + t.offset,
     flipped  |-> flipped]

StoredAs(t, flipped) == StoredIn(parsed, t, flipped)

(* None is not a set of stored tensors.                                       *)
ASSUME StoredAssumption ==
    \A c \in Contents :
        \A S \in SUBSET {StoredIn(c, t, flipped) : t \in Range(c.tensors), flipped \in BOOLEAN} :
            S # Absent

Candidates(r) ==
    IF AsksForDerived(r)
    THEN {StoredAs(t, TRUE) : t \in {u \in Range(parsed.tensors) : u.name = <<"token_embd", "weight">>}}
    ELSE LET asked == {t \in Range(parsed.tensors) :
                        /\ Canonical(t.name) = request[r].name
                        /\ t.offset = request[r].offset}
         IN  {StoredAs(t, IsTransposedProjection(request[r].name) /\ Len(t.ne) = 2) : t \in asked}

IsStoredByte(cell, contents, position) ==
    \E c \in contents : position < c.length /\ cell = Byte(c, position)

(* Byte at[2] of element at[1], in the order the file stores elements.        *)
IsStoredElement(cell, contents, t, at) ==
    IF t.dtype \notin Quantized
    THEN IsStoredByte(cell, contents, t.start + at[1] * t.width + at[2])
    ELSE LET block == at[1] \div BlockElements[t.dtype]
         IN  /\ cell[1] = t.dtype
             /\ \A x \in 0 .. BlockBytes[t.dtype] - 1 :
                   IsStoredByte(cell[2][x], contents, t.start + block * BlockBytes[t.dtype] + x)
             /\ cell[3] = at[1] % BlockElements[t.dtype]
             /\ cell[4] = at[2]

Store ==
    INSTANCE TensorStore
        WITH Nothing <- Absent,
             Atomic <- ~InPlace,
             IsElement <- IsStoredElement,
             asked <- [r \in Readers |-> IF Busy(r) THEN Candidates(r) ELSE Absent],
             answer <- reply,
             current <- ContentOnDisk

(* Concurrent calls, each with its own handle, are answered from one content  *)
(* of the file each, in the declared order, as long as files are replaced by  *)
(* renaming over them. Where a file may be rewritten in place an answer can   *)
(* be torn, but every byte was in its place in the file during the call.      *)
ImplementsTensorStore == Store!Spec

(* A call whose range carries a digest (the derived head's is the             *)
(* embedding's) returns the parsed file's bytes or an error, whatever has     *)
(* been done to the file since: also torn reads are caught.                   *)
VerifiedReads ==
    \A r \in Readers :
        /\ reply[r] # Absent
        /\ reply[r].error = Absent
        /\ DistinctNames
        /\ InnerRange(r).digest # Absent
        => \E t \in Candidates(r) : Store!IsView(reply[r].bytes, {parsed}, t)

(* The file's ranges hold what its shapes declare, inside the file.           *)
WellFormed ==
    /\ DistinctNames
    /\ \A t \in Range(parsed.tensors) :
          /\ parsed.data_start + t.offset + t.size <= parsed.length
          /\ element_count(t.ne) # Absent
          /\ t.size = IF t.dtype \in Quantized
                      THEN (element_count(t.ne) \div BlockElements[t.dtype]) * BlockBytes[t.dtype]
                      ELSE element_count(t.ne) * Width[t.dtype]

(* Everything the manifest of a well-formed file lists can be read, as long   *)
(* as nobody touches the file.                                                *)
ManifestReadable ==
    \A r \in Readers :
        changes = 0 /\ reply[r] # Absent /\ WellFormed => reply[r].error = Absent

(* Every call returns, also when the file has shrunk or is gone.              *)
CallsReturn == \A r \in Readers : Busy(r) ~> ~Busy(r)

(* The steps and, at worst, the bytes one by one that a call still has ahead. *)
StepsLeft(r) ==
    CASE step[r] = "open" -> IF Addressable(InnerRange(r)) THEN RequestedLocation(r).length + 3 ELSE 1
      [] step[r] = "seek" -> RequestedLocation(r).length + 2
      [] step[r] = "read" -> Remaining(r) + 1
      [] OTHER -> 0

(* No step of a call is in vain, and nothing other threads and programs do    *)
(* sets a call back: the loop of read_exact cannot run on for ever, however   *)
(* little each read gives and however the file is changed meanwhile.          *)
CallsAdvance ==
    [][\A r \in Readers :
          /\ Busy(r) => StepsLeft(r)' \in Nat /\ StepsLeft(r)' <= StepsLeft(r)
          /\ CallStep(r) => StepsLeft(r)' < StepsLeft(r)]_loaderVars

(* The cursors of the handles stay inside what was opened, and a buffer never *)
(* outgrows the range it was allocated for.                                   *)
ReadersTypeOK ==
    \A r \in Readers :
        /\ step[r] \in {"idle", "open", "seek", "read"}
        /\ handle[r] \in 0 .. Len(files)
        /\ (handle[r] = NoFile) <=> step[r] \in {"idle", "open"}
        /\ cursor[r] \in Nat
        /\ calls[r] \in 0 .. MaxRequests
        /\ step[r] = "read" =>
              /\ Length(raw[r]) <= RequestedLocation(r).length
              /\ cursor[r] = Start(r) + Length(raw[r])

-----------------------------------------------------------------------------
(* weight_layout.rs: a projection's digest is verified against the            *)
(* pre-transpose bytes at read time: what is delivered is what was parsed     *)
(* wherever the parser declared a digest.                                     *)
DeclaredDigestsAreVerified ==
    \A r \in Readers :
        /\ reply[r] # Absent
        /\ reply[r].error = Absent
        => \A t \in Range(parsed.tensors) :
              /\ Canonical(t.name) = request[r].name
              /\ t.digest # Absent
              /\ t.dtype \notin Quantized
              => \E v \in Candidates(r) : Store!IsView(reply[r].bytes, {parsed}, v)
=============================================================================
