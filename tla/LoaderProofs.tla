---------------------------- MODULE LoaderProofs ----------------------------
(* Theorems about concurrent calls of read_payload, for any number of threads *)
(* and calls, any contents and any interference on the path.                  *)
EXTENDS Loader, IngestProofs, FiniteSetTheorems

-----------------------------------------------------------------------------
(* A buffer with n bytes has length n.                                        *)
LEMMA BufferLength ==
    ASSUME NEW buf, NEW n \in Nat, DOMAIN buf = 0 .. n - 1
    PROVE  Length(buf) = n
<1>1. Cardinality(0 .. n - 1) = n
  BY FS_Interval
<1> QED
  BY <1>1 DEF Length

(* The parts of a call of one thread.                                         *)
Reading(r) ==
    /\ Start(r) \in Nat
    /\ \E n \in 0 .. RequestedLocation(r).length :
          DOMAIN raw[r] = 0 .. n - 1 /\ cursor[r] = Start(r) + n

VerifiedReply(r) ==
    /\ reply[r] # Absent
    /\ reply[r].error = Absent
    /\ DistinctNames
    /\ InnerRange(r).digest # Absent
    => \E t \in Candidates(r) : Store!IsView(reply[r].bytes, {parsed}, t)

(* What is true of a thread, whatever the others do.                          *)
ReaderInv(r) ==
    /\ step[r] \in {"idle", "open", "seek", "read"}
    /\ handle[r] \in 0 .. Len(files)
    /\ (handle[r] = NoFile) <=> step[r] \in {"idle", "open"}
    /\ cursor[r] \in Nat
    /\ calls[r] \in 0 .. MaxRequests
    /\ Busy(r) \/ reply[r] # Absent => stage = "done" /\ \E i \in DOMAIN tensors : request[r] = tensors[i]
    /\ step[r] \in {"seek", "read"} => Addressable(InnerRange(r))
    /\ step[r] # "read" => raw[r] = NoBytes
    /\ step[r] = "read" => Reading(r)
    /\ VerifiedReply(r)

PerReader ==
    /\ DOMAIN step = Readers /\ DOMAIN request = Readers /\ DOMAIN handle = Readers
    /\ DOMAIN cursor = Readers /\ DOMAIN raw = Readers /\ DOMAIN reply = Readers
    /\ DOMAIN calls = Readers

LoaderInv ==
    /\ ManifestInv
    /\ PerReader
    /\ \A r \in Readers : ReaderInv(r)

LEMMA LoaderInitInv == LoaderInit => LoaderInv
<1> SUFFICES ASSUME LoaderInit PROVE LoaderInv
  OBVIOUS
<1>1. ManifestInv /\ PerReader
  BY ManifestInit DEF LoaderInit, PerReader
<1>2. Len(files) \in Nat
  BY <1>1 DEF ManifestInv, Inv, TypeOK, DiskTypeOK
<1>3. ASSUME NEW r \in Readers PROVE ReaderInv(r)
  BY <1>2, <1>3, ReadersAssumption
     DEF LoaderInit, ReaderInv, VerifiedReply, Busy, NoFile
<1> QED
  BY <1>1, <1>3 DEF LoaderInv

(* The steps of a call leave manifest and file alone.                         *)
LEMMA LocalStep ==
    ASSUME ManifestInv, UNCHANGED <<diskVars, ingestVars>>
    PROVE  ManifestInv'
  BY ManifestNext DEF vars

(* A thread that does not move keeps what is true of it while other threads   *)
(* move and files are added: no thread works on what another one has.         *)
LEMMA FrameReader ==
    ASSUME NEW r \in Readers, ReaderInv(r), UNCHANGED ingestVars,
           Len(files) \in Nat, Len(files') \in Nat, Len(files) <= Len(files'),
           step'[r] = step[r], request'[r] = request[r], handle'[r] = handle[r],
           cursor'[r] = cursor[r], raw'[r] = raw[r], reply'[r] = reply[r],
           calls'[r] = calls[r]
    PROVE  ReaderInv(r)'
<1>1. /\ stage' = stage /\ parsed' = parsed /\ tensors' = tensors /\ derived' = derived
      /\ locations' = locations /\ sides' = sides
  BY DEF ingestVars
<1>2. /\ InnerRange(r)' = InnerRange(r)
      /\ DistinctNames' = DistinctNames
      /\ Candidates(r)' = Candidates(r)
  BY <1>1 DEF InnerRange, AsksForDerived, DistinctNames, FromFile, Candidates, StoredAs
<1>3. /\ RequestedLocation(r)' = RequestedLocation(r)
      /\ Addressable(InnerRange(r))' = Addressable(InnerRange(r))
  BY <1>1, <1>2 DEF RequestedLocation, Addressable
<1>4. Start(r)' = Start(r)
  BY <1>1, <1>3 DEF Start
<1>5. VerifiedReply(r)'
  BY <1>1, <1>2 DEF ReaderInv, VerifiedReply
<1>6. (step[r] = "read" => Reading(r)) => (step'[r] = "read" => Reading(r)')
  BY <1>3, <1>4 DEF Reading
<1> QED
  BY <1>1, <1>2, <1>3, <1>5, <1>6 DEF ReaderInv, Busy

(* While ingest runs nobody has asked for anything.                           *)
LEMMA IngestInvariant ==
    ASSUME LoaderInv, IngestStep, UNCHANGED <<diskVars, readVars>>
    PROVE  LoaderInv'
<1>1. ManifestInv'
  BY ManifestNext DEF LoaderInv, Next
<1>2. stage # "done"
  BY NoStepWhenDone
<1>3. ASSUME NEW r \in Readers PROVE ReaderInv(r)'
  <2>1. ~Busy(r) /\ reply[r] = Absent /\ ReaderInv(r)
    BY <1>2 DEF LoaderInv, ReaderInv
  <2> QED
    BY <2>1 DEF ReaderInv, VerifiedReply, Busy, readVars, diskVars
<1> QED
  BY <1>1, <1>3 DEF LoaderInv, PerReader, readVars

(* Files are only ever added; a file that is overwritten stays open.          *)
LEMMA FilesKept ==
    ASSUME DiskTypeOK, ChangeDisk
    PROVE  Len(files) \in Nat /\ Len(files') \in Nat /\ Len(files) <= Len(files')
<1>1. files \in Seq(Contents) /\ Len(files) \in Nat
  BY DEF DiskTypeOK
<1>2. ASSUME NEW c \in Contents, RenameOver(c)
      PROVE  Len(files') = Len(files) + 1
  BY <1>1, <1>2 DEF RenameOver
<1>3. ASSUME NEW c \in Contents, OverwriteInPlace(c)
      PROVE  Len(files') = Len(files)
  BY <1>1, <1>3 DEF OverwriteInPlace
<1>4. CASE Unlink
  BY <1>1, <1>4 DEF Unlink
<1> QED
  BY <1>1, <1>2, <1>3, <1>4 DEF ChangeDisk

LEMMA DiskInvariant ==
    ASSUME LoaderInv, DiskStep
    PROVE  LoaderInv'
<1>1. /\ ChangeDisk /\ UNCHANGED ingestVars
      /\ UNCHANGED <<step, request, handle, cursor, raw, reply, calls>>
  BY DEF DiskStep
<1>2. ManifestInv'
  BY <1>1, ManifestNext DEF LoaderInv, Next
<1>3. Len(files) \in Nat /\ Len(files') \in Nat /\ Len(files) <= Len(files')
  BY <1>1, FilesKept DEF LoaderInv, ManifestInv, Inv, TypeOK
<1>4. ASSUME NEW r \in Readers PROVE ReaderInv(r)'
  BY <1>1, <1>3, FrameReader DEF LoaderInv
<1> QED
  BY <1>1, <1>2, <1>4 DEF LoaderInv, PerReader

(* A step of one thread: only its own part has to be looked at.               *)
OnlyReader(r) ==
    /\ PerReader'
    /\ \A q \in Readers \ {r} :
          /\ step'[q] = step[q] /\ request'[q] = request[q] /\ handle'[q] = handle[q]
          /\ cursor'[q] = cursor[q] /\ raw'[q] = raw[q] /\ reply'[q] = reply[q]
          /\ calls'[q] = calls[q]

LEMMA ReaderStep ==
    ASSUME LoaderInv, NEW r \in Readers, UNCHANGED <<diskVars, ingestVars>>,
           OnlyReader(r), ReaderInv(r)'
    PROVE  LoaderInv'
<1>1. ManifestInv'
  BY LocalStep DEF LoaderInv
<1>2. PerReader'
  BY DEF OnlyReader
<1>3. ASSUME NEW q \in Readers, q # r PROVE ReaderInv(q)'
  <2>1. /\ step'[q] = step[q] /\ request'[q] = request[q] /\ handle'[q] = handle[q]
        /\ cursor'[q] = cursor[q] /\ raw'[q] = raw[q] /\ reply'[q] = reply[q]
        /\ calls'[q] = calls[q]
    BY <1>3 DEF OnlyReader
  <2>2. files' = files /\ Len(files) \in Nat
    BY DEF LoaderInv, ManifestInv, Inv, TypeOK, DiskTypeOK, diskVars
  <2>3. Len(files') \in Nat /\ Len(files) <= Len(files')
    BY <2>2
  <2> QED
    BY <2>1, <2>2, <2>3, FrameReader DEF LoaderInv
<1> QED
  BY <1>1, <1>2, <1>3 DEF LoaderInv

(* What a call in progress may rely on.                                       *)
LEMMA InProgress ==
    ASSUME LoaderInv, NEW r \in Readers, Busy(r)
    PROVE  /\ stage = "done" /\ parsed \in Contents /\ parsed.data_start \in Nat
           /\ \E i \in DOMAIN tensors : request[r] = tensors[i]
           /\ Addressable(InnerRange(r)) =>
                 /\ RequestedLocation(r).offset \in Nat
                 /\ RequestedLocation(r).length \in Nat
           /\ Start(r) # Absent /\ Addressable(InnerRange(r)) => Start(r) \in Nat
           /\ files \in Seq(Contents) /\ Len(files) \in Nat /\ path \in 0 .. Len(files)
<1>1. /\ stage = "done" /\ TypeOK /\ DiskTypeOK
      /\ \E i \in DOMAIN tensors : request[r] = tensors[i]
  BY DEF LoaderInv, ReaderInv, ManifestInv, Inv, TypeOK
<1>2. parsed \in Contents /\ parsed.data_start \in Nat
  BY <1>1, BytesAssumption DEF TypeOK
<1>3. Addressable(InnerRange(r)) =>
         /\ RequestedLocation(r).offset \in Nat
         /\ RequestedLocation(r).length \in Nat
  BY <1>1 DEF TypeOK, IsLocation, Addressable, RequestedLocation
<1>4. Start(r) # Absent /\ Addressable(InnerRange(r)) => Start(r) \in Nat
  BY <1>2, <1>3 DEF Start, CheckedAdd
<1> QED
  BY <1>1, <1>2, <1>3, <1>4 DEF DiskTypeOK

(* What a request is about, while nothing but its own buffers change.         *)
LEMMA SameRequest ==
    ASSUME NEW r \in Readers, UNCHANGED ingestVars, request'[r] = request[r]
    PROVE  /\ InnerRange(r)' = InnerRange(r)
           /\ RequestedLocation(r)' = RequestedLocation(r)
           /\ Addressable(InnerRange(r))' = Addressable(InnerRange(r))
           /\ Start(r)' = Start(r)
           /\ DistinctNames' = DistinctNames
           /\ Candidates(r)' = Candidates(r)
<1>1. /\ parsed' = parsed /\ tensors' = tensors /\ derived' = derived
      /\ locations' = locations
  BY DEF ingestVars
<1>2. InnerRange(r)' = InnerRange(r)
  BY <1>1 DEF InnerRange, AsksForDerived
<1>3. RequestedLocation(r)' = RequestedLocation(r)
  BY <1>1, <1>2 DEF RequestedLocation
<1>4. Addressable(InnerRange(r))' = Addressable(InnerRange(r))
  BY <1>1, <1>2 DEF Addressable
<1>5. Start(r)' = Start(r)
  BY <1>1, <1>3 DEF Start
<1>6. DistinctNames' = DistinctNames
  BY <1>1 DEF DistinctNames, FromFile
<1>7. Candidates(r)' = Candidates(r)
  BY <1>1 DEF Candidates, StoredAs, AsksForDerived
<1> QED
  BY <1>2, <1>3, <1>4, <1>5, <1>6, <1>7

LEMMA RequestInvariant ==
    ASSUME LoaderInv, NEW r \in Readers, Request(r), UNCHANGED <<diskVars, ingestVars>>
    PROVE  LoaderInv'
<1>1. PerReader /\ ReaderInv(r) /\ Len(files) \in Nat
  BY DEF LoaderInv, ManifestInv, Inv, TypeOK, DiskTypeOK
<1>2. OnlyReader(r)
  BY <1>1 DEF OnlyReader, PerReader, Request
<1>3. /\ step[r] = "idle" /\ step'[r] = "open" /\ reply'[r] = Absent /\ stage = "done"
      /\ \E i \in DOMAIN tensors : request'[r] = tensors[i]
      /\ calls[r] < MaxRequests /\ calls'[r] = calls[r] + 1
      /\ handle' = handle /\ cursor' = cursor /\ raw' = raw
      /\ stage' = stage /\ tensors' = tensors /\ files' = files
  BY <1>1 DEF PerReader, Request, Busy, ingestVars, diskVars
<1>4. calls'[r] \in 0 .. MaxRequests
  BY <1>1, <1>3, ReadersAssumption DEF ReaderInv
<1>5. ReaderInv(r)'
  BY <1>1, <1>3, <1>4 DEF ReaderInv, VerifiedReply, Busy
<1> QED
  BY <1>2, <1>5, ReaderStep

(* A call returns an error, or bytes that are right if they were verified.    *)
LEMMA ReturnInvariant ==
    ASSUME LoaderInv, NEW r \in Readers, Busy(r), NEW answer, Return(r, answer),
           UNCHANGED <<diskVars, ingestVars>>,
           DistinctNames /\ answer.error = Absent /\ InnerRange(r).digest # Absent
              => \E t \in Candidates(r) : Store!IsView(answer.bytes, {parsed}, t)
    PROVE  LoaderInv'
<1>1. PerReader /\ ReaderInv(r) /\ Len(files) \in Nat
  BY DEF LoaderInv, ManifestInv, Inv, TypeOK, DiskTypeOK
<1>2. OnlyReader(r)
  BY <1>1 DEF OnlyReader, PerReader, Return
<1>3. /\ step'[r] = "idle" /\ handle'[r] = NoFile /\ cursor'[r] = 0 /\ raw'[r] = NoBytes
      /\ reply'[r] = answer /\ request' = request /\ calls' = calls
      /\ stage' = stage /\ tensors' = tensors /\ files' = files /\ parsed' = parsed
  BY <1>1 DEF PerReader, Return, ingestVars, diskVars
<1>4. VerifiedReply(r)'
  BY <1>3, SameRequest DEF VerifiedReply
<1>5. ReaderInv(r)'
  BY <1>1, <1>3, <1>4 DEF ReaderInv, Busy, NoFile
<1> QED
  BY <1>2, <1>5, ReaderStep

LEMMA ErrorInvariant ==
    ASSUME LoaderInv, NEW r \in Readers, Busy(r), NEW kind \in ReadErrorKinds,
           ReturnError(r, kind), UNCHANGED <<diskVars, ingestVars>>
    PROVE  LoaderInv'
<1> DEFINE answer == [error |-> kind, bytes |-> NoBytes]
<1>1. answer.error # Absent /\ Return(r, answer)
  BY ReadErrorAssumption DEF ReturnError
<1> HIDE DEF answer
<1> QED
  BY <1>1, ReturnInvariant

-----------------------------------------------------------------------------
LEMMA OpenInvariant ==
    ASSUME LoaderInv, NEW r \in Readers, Open(r), UNCHANGED <<diskVars, ingestVars>>
    PROVE  LoaderInv'
<1>1. PerReader /\ ReaderInv(r) /\ Busy(r)
  BY DEF LoaderInv, Open, Busy
<1>2. OnlyReader(r)
  BY <1>1 DEF OnlyReader, PerReader, Open
<1>3. /\ step'[r] = "seek" /\ handle'[r] = path /\ cursor' = cursor /\ raw' = raw
      /\ reply' = reply /\ request' = request /\ calls' = calls
      /\ stage' = stage /\ tensors' = tensors /\ files' = files /\ parsed' = parsed
      /\ step[r] = "open" /\ path # NoFile /\ Addressable(InnerRange(r))
  BY <1>1 DEF PerReader, Open, ingestVars, diskVars
<1>4. path \in 0 .. Len(files)
  BY <1>1, InProgress
<1>5. VerifiedReply(r)' /\ Addressable(InnerRange(r))'
  BY <1>1, <1>3, SameRequest DEF ReaderInv, VerifiedReply
<1>6. ReaderInv(r)'
  BY <1>1, <1>3, <1>4, <1>5 DEF ReaderInv, Busy
<1> QED
  BY <1>2, <1>6, ReaderStep

LEMMA SeekInvariant ==
    ASSUME LoaderInv, NEW r \in Readers, Seek(r), UNCHANGED <<diskVars, ingestVars>>
    PROVE  LoaderInv'
<1>1. PerReader /\ ReaderInv(r) /\ Busy(r) /\ step[r] = "seek"
  BY DEF LoaderInv, Seek, Busy
<1>2. OnlyReader(r)
  BY <1>1 DEF OnlyReader, PerReader, Seek
<1>3. /\ step'[r] = "read" /\ cursor'[r] = Start(r) /\ handle' = handle /\ raw' = raw
      /\ reply' = reply /\ request' = request /\ calls' = calls
      /\ stage' = stage /\ tensors' = tensors /\ files' = files /\ parsed' = parsed
      /\ Start(r) # Absent
  BY <1>1 DEF PerReader, Seek, ingestVars, diskVars
<1>4. /\ Addressable(InnerRange(r)) /\ raw[r] = NoBytes
      /\ Start(r) \in Nat /\ RequestedLocation(r).length \in Nat
  BY <1>1, <1>3, InProgress DEF ReaderInv
<1>5. DOMAIN raw[r] = 0 .. 0 - 1 /\ 0 \in 0 .. RequestedLocation(r).length
  BY <1>4 DEF NoBytes
<1>6. Reading(r)'
  <2>1. cursor'[r] = Start(r) + 0
    BY <1>3, <1>4
  <2> QED
    BY <1>3, <1>4, <1>5, <2>1, SameRequest DEF Reading
<1>7. VerifiedReply(r)' /\ Addressable(InnerRange(r))'
  BY <1>1, <1>3, <1>4, SameRequest DEF ReaderInv, VerifiedReply
<1>8. ReaderInv(r)'
  BY <1>1, <1>3, <1>4, <1>6, <1>7 DEF ReaderInv, Busy
<1> QED
  BY <1>2, <1>8, ReaderStep

(* One read() takes at least one byte, at most what is asked for and what the *)
(* file has; the cursor moves along with the buffer.                          *)
(* The least of three amounts is one of them and none is below it.            *)
LEMMA LeastOfThree ==
    ASSUME NEW a \in Nat \ {0}, NEW b \in Nat \ {0}, NEW c \in Nat \ {0}
    PROVE  Min({a, b, c}) \in Nat \ {0} /\ Min({a, b, c}) <= b
<1> DEFINE S == {a, b, c}
<1>1. \E x \in S : \A y \in S : x <= y
  <2>1. CASE a <= b /\ a <= c
    BY <2>1
  <2>2. CASE b <= a /\ b <= c
    BY <2>2
  <2>3. CASE c <= a /\ c <= b
    BY <2>3
  <2> QED
    BY <2>1, <2>2, <2>3
<1>2. Min(S) \in S /\ \A y \in S : Min(S) <= y
  BY <1>1 DEF Min
<1> QED
  BY <1>2

(* A read puts at least one byte behind what is there, and never more than    *)
(* the range has left.                                                        *)
LEMMA ReadSomeAmount ==
    ASSUME LoaderInv, NEW r \in Readers, ReadSome(r)
    PROVE  /\ Addressable(InnerRange(r)) /\ Start(r) \in Nat
           /\ RequestedLocation(r).length \in Nat
           /\ \E k \in Nat, n \in Nat \ {0} :
                 /\ DOMAIN raw[r] = 0 .. k - 1 /\ cursor[r] = Start(r) + k
                 /\ DOMAIN raw'[r] = 0 .. k + n - 1 /\ cursor'[r] = Start(r) + k + n
                 /\ k + n <= RequestedLocation(r).length
<1>1. PerReader /\ ReaderInv(r) /\ Busy(r) /\ step[r] = "read"
  BY DEF LoaderInv, ReadSome, Busy
<1> DEFINE content == files[handle[r]]
           got == Length(raw[r])
           left == content.length - cursor[r]
           n(size) == Min({size, Remaining(r), left})
<1>2. PICK size \in ReadSizes :
         /\ cursor'[r] = cursor[r] + n(size)
         /\ DOMAIN raw'[r] = 0 .. got + n(size) - 1
  BY <1>1 DEF PerReader, ReadSome
<1>3. Remaining(r) > 0 /\ ~(cursor[r] >= content.length)
  BY DEF ReadSome, AtEnd
<1>4. /\ Addressable(InnerRange(r)) /\ RequestedLocation(r).length \in Nat
      /\ Start(r) \in Nat /\ cursor[r] \in Nat
      /\ \E k \in 0 .. RequestedLocation(r).length :
            DOMAIN raw[r] = 0 .. k - 1 /\ cursor[r] = Start(r) + k
  BY <1>1, InProgress DEF ReaderInv, Reading
<1>5. PICK k \in 0 .. RequestedLocation(r).length :
         DOMAIN raw[r] = 0 .. k - 1 /\ cursor[r] = Start(r) + k
  BY <1>4
<1>6. got = k /\ k \in Nat
  BY <1>5, BufferLength
<1>7. content.length \in Nat
  <2>1. files \in Seq(Contents) /\ handle[r] \in 1 .. Len(files)
    BY <1>1, InProgress DEF ReaderInv, NoFile
  <2>2. content \in Contents
    BY <2>1
  <2> QED
    BY <2>2, BytesAssumption
<1>8. n(size) \in Nat \ {0} /\ n(size) <= Remaining(r) /\ Remaining(r) = RequestedLocation(r).length - k
  <2>1. Remaining(r) = RequestedLocation(r).length - k
    BY <1>6 DEF Remaining
  <2>2. size \in Nat \ {0} /\ Remaining(r) \in Nat \ {0} /\ left \in Nat \ {0}
    BY <1>3, <1>4, <1>5, <1>7, <2>1, ReadersAssumption
  <2>3. n(size) \in Nat \ {0} /\ n(size) <= Remaining(r)
    BY <2>2, LeastOfThree
  <2> QED
    BY <2>1, <2>3
<1> HIDE DEF n, got, left, content
<1>9. /\ DOMAIN raw'[r] = 0 .. k + n(size) - 1 /\ cursor'[r] = Start(r) + k + n(size)
      /\ k + n(size) <= RequestedLocation(r).length
  BY <1>2, <1>4, <1>5, <1>6, <1>8
<1> QED
  BY <1>4, <1>5, <1>6, <1>8, <1>9

LEMMA ReadSomeInvariant ==
    ASSUME LoaderInv, NEW r \in Readers, ReadSome(r), UNCHANGED <<diskVars, ingestVars>>
    PROVE  LoaderInv'
<1>1. PerReader /\ ReaderInv(r) /\ Busy(r) /\ step[r] = "read"
  BY DEF LoaderInv, ReadSome, Busy
<1>2. OnlyReader(r)
  BY <1>1 DEF OnlyReader, PerReader, ReadSome
<1>3. /\ step' = step /\ handle' = handle /\ reply' = reply /\ request' = request
      /\ calls' = calls /\ stage' = stage /\ tensors' = tensors /\ files' = files
      /\ parsed' = parsed
  BY <1>1 DEF ReadSome, ingestVars, diskVars
<1>4. /\ Addressable(InnerRange(r)) /\ Start(r) \in Nat
      /\ RequestedLocation(r).length \in Nat
      /\ \E m \in 0 .. RequestedLocation(r).length :
            DOMAIN raw'[r] = 0 .. m - 1 /\ cursor'[r] = Start(r) + m
  <2>1. /\ Addressable(InnerRange(r)) /\ Start(r) \in Nat
        /\ RequestedLocation(r).length \in Nat
        /\ \E k \in Nat, n \in Nat \ {0} :
              /\ DOMAIN raw'[r] = 0 .. k + n - 1 /\ cursor'[r] = Start(r) + k + n
              /\ k + n <= RequestedLocation(r).length
    BY ReadSomeAmount
  <2>2. PICK k \in Nat, n \in Nat \ {0} :
           /\ DOMAIN raw'[r] = 0 .. k + n - 1 /\ cursor'[r] = Start(r) + k + n
           /\ k + n <= RequestedLocation(r).length
    BY <2>1
  <2> DEFINE m == k + n
  <2>3. m \in 0 .. RequestedLocation(r).length /\ cursor'[r] = Start(r) + m
    BY <2>1, <2>2
  <2>4. DOMAIN raw'[r] = 0 .. m - 1
    BY <2>2
  <2> HIDE DEF m
  <2> QED
    BY <2>1, <2>3, <2>4
<1>5. Reading(r)'
  BY <1>3, <1>4, SameRequest DEF Reading
<1>6. VerifiedReply(r)' /\ Addressable(InnerRange(r))'
  BY <1>1, <1>3, <1>4, SameRequest DEF ReaderInv, VerifiedReply
<1>7. cursor'[r] \in Nat
  BY <1>4
<1>8. ReaderInv(r)'
  BY <1>1, <1>3, <1>5, <1>6, <1>7 DEF ReaderInv, Busy
<1> QED
  BY <1>2, <1>8, ReaderStep

-----------------------------------------------------------------------------
(* Byte b of element q lies in element q, at b.                               *)
LEMMA SplitIndex ==
    ASSUME NEW w \in Nat \ {0}, NEW q \in Nat, NEW b \in 0 .. w - 1
    PROVE  (q * w + b) \div w = q /\ (q * w + b) % w = b
<1> DEFINE k == q * w + b
           d == k \div w
           m == k % w
<1>1. q * w \in Nat /\ k \in Nat
  OBVIOUS
<1>2. d \in Nat /\ m \in 0 .. w - 1 /\ k = d * w + m
  BY <1>1
<1>3. ASSUME NEW x \in Nat, NEW y \in Nat, NEW u \in 0 .. w - 1, NEW v \in 0 .. w - 1, x < y
      PROVE  x * w + u < y * w + v
  <2>1. PICK z \in Nat : y = x + 1 + z
    <3>1. y - x - 1 \in Nat /\ y = x + 1 + (y - x - 1)
      BY <1>3
    <3> QED
      BY <3>1
  <2>2. y * w = x * w + w + z * w /\ z * w \in Nat /\ x * w \in Nat
    BY <2>1
  <2> QED
    BY <2>2
<1>4. q * w + b = d * w + m
  BY <1>2
<1> HIDE DEF d, m, k
<1>5. ~(q < d) /\ ~(d < q)
  BY <1>2, <1>3, <1>4
<1>6. d = q
  BY <1>2, <1>5
<1>7. m = b
  BY <1>1, <1>2, <1>4, <1>6
<1> QED
  BY <1>6, <1>7 DEF d, m, k

LEMMA JoinIndex ==
    ASSUME NEW w \in Nat \ {0}, NEW k \in Nat
    PROVE  /\ k \div w \in Nat /\ k % w \in Nat /\ k % w \in 0 .. w - 1
           /\ (k \div w) * w + (k % w) = k
  OBVIOUS

(* An element of a matrix is inside its buffer.                               *)
LEMMA ElementByte ==
    ASSUME NEW m \in Nat, NEW n \in Nat, NEW w \in Nat \ {0},
           NEW i \in 0 .. m - 1, NEW j \in 0 .. n - 1, NEW b \in 0 .. w - 1
    PROVE  i * n + j \in Nat /\ (i * n + j) * w + b \in 0 .. (m * n) * w - 1
<1>1. ASSUME NEW x \in Nat, NEW y \in Nat, NEW l \in Nat, NEW v \in 0 .. l - 1, x < y
      PROVE  x * l + v \in Nat /\ x * l + v < y * l /\ y * l \in Nat
  <2>1. PICK z \in Nat : y = x + 1 + z
    <3>1. y - x - 1 \in Nat /\ y = x + 1 + (y - x - 1)
      BY <1>1
    <3> QED
      BY <3>1
  <2>2. y * l = x * l + l + z * l /\ z * l \in Nat /\ x * l \in Nat
    BY <2>1
  <2> QED
    BY <2>2
<1> DEFINE e == i * n + j
           size == m * n
<1>2. i < m /\ i \in Nat
  OBVIOUS
<1>3. e \in Nat /\ e < size /\ size \in Nat
  BY <1>1, <1>2
<1> HIDE DEF e, size
<1>4. e * w + b \in Nat /\ e * w + b < size * w /\ size * w \in Nat
  BY <1>1, <1>3
<1>5. e * w + b \in 0 .. size * w - 1
  BY <1>4
<1> QED
  BY <1>3, <1>5 DEF e, size

(* The byte positions of a matrix of m by n elements.                         *)
MatrixBytes(m, n, w) == 0 .. (m * n) * w - 1

(* The transposed buffer holds element (j, i) of the stored one as (i, j).    *)
LEMMA TransposedElement ==
    ASSUME NEW m \in Nat, NEW n \in Nat, NEW w \in Nat, w # 0, NEW buf,
           DOMAIN buf = MatrixBytes(m, n, w),
           NEW i \in 0 .. n - 1, NEW j \in 0 .. m - 1, NEW b \in 0 .. w - 1
    PROVE  /\ Offset(j, i, n, w) + b \in DOMAIN buf
           /\ Transposed(buf, m, n, w)[Offset(i, j, m, w) + b] = buf[Offset(j, i, n, w) + b]
<1> DEFINE e == i * m + j
           k == e * w + b
<1>0. w \in Nat \ {0} /\ DOMAIN buf = 0 .. (m * n) * w - 1
  BY DEF MatrixBytes
<1>1. (j * n + i) * w + b \in DOMAIN buf
  BY <1>0, ElementByte
<1>2. e \in Nat /\ k \in 0 .. (n * m) * w - 1
  BY <1>0, ElementByte
<1>3. n * m = m * n
  OBVIOUS
<1>4. k \in DOMAIN buf
  BY <1>0, <1>2, <1>3
<1>5. k \div w = e /\ k % w = b
  BY <1>0, <1>2, SplitIndex
<1>6. e \div m = i /\ e % m = j
  BY SplitIndex
<1>7. SourceOfByte(k, m, n, w) = (j * n + i) * w + b
  BY <1>5, <1>6 DEF SourceOfByte, SourceOffset, Offset
<1>8. Transposed(buf, m, n, w)[k] = buf[(j * n + i) * w + b]
  BY <1>4, <1>7 DEF Transposed
<1> QED
  BY <1>1, <1>8 DEF Offset

-----------------------------------------------------------------------------
(* A range of the manifest has a digest only if no label was reversed since   *)
(* the parser declared it: the digest is of bytes of the file.                *)
LEMMA RangeWithDigest ==
    ASSUME ManifestInv, stage = "done", NEW i \in FromFile, tensors[i].digest # Absent
    PROVE  tensors[i].digest = Tensor(i).digest
<1> DEFINE t == Tensor(i)
<1>1. IsEntry(Entry(t)) /\ tensors[i] = SwapSides(Entry(t))
  BY Finished DEF Declared
<1>2. ~IsSwapped(Entry(t)) /\ tensors[i] = Entry(t)
  BY <1>1 DEF SwapSides, IsEntry
<1> QED
  BY <1>2 DEF Entry

(* The range that is read is that of an entry of the file: the one the caller *)
(* asked for, or the embedding's.                                             *)
LEMMA RangeOfFile ==
    ASSUME LoaderInv, NEW r \in Readers, Busy(r)
    PROVE  \E i \in FromFile :
              /\ InnerRange(r) = RangeOf(tensors[i])
              /\ AsksForDerived(r) => /\ i = EmbeddingAt
                                      /\ tensors[i] = Embedding
                                      /\ derived = DerivedFrom(Embedding)
                                      /\ Len(Embedding.shape) = 2
              /\ ~AsksForDerived(r) => request[r] = tensors[i]
<1>1. ManifestInv /\ stage = "done" /\ \E k \in DOMAIN tensors : request[r] = tensors[k]
  BY InProgress DEF LoaderInv
<1>2. CASE AsksForDerived(r)
  <2>1. /\ derived = DerivedFrom(Embedding) /\ Len(Embedding.shape) = 2
        /\ tensors[EmbeddingAt] = Embedding /\ EmbeddingAt \in FromFile
    BY <1>1, <1>2, Finished DEF AsksForDerived
  <2>2. InnerRange(r) = RangeOf(Embedding)
    BY <1>2, <2>1 DEF InnerRange, DerivedFrom
  <2> QED
    BY <1>2, <2>1, <2>2
<1>3. CASE ~AsksForDerived(r)
  <2>1. PICK k \in DOMAIN tensors : request[r] = tensors[k]
    BY <1>1
  <2>2. InnerRange(r) = RangeOf(tensors[k])
    BY <1>3, <2>1 DEF InnerRange
  <2>3. /\ FromFile = 1 .. Len(parsed.tensors) /\ Len(parsed.tensors) \in Nat
        /\ DOMAIN tensors = 1 .. Len(tensors)
    BY <1>1, Finished DEF ManifestInv, Inv, InventoryFollowsFile
  <2>4. CASE k \notin FromFile
    <3>1. DerivesHead
      BY <1>1, <2>3, <2>4 DEF ManifestInv, HeadFollowsFile
    <3>2. Len(tensors) = Len(parsed.tensors) + 1 /\ tensors[Len(tensors)] = SyntheticLmHead(Embedding)
      BY <1>1, <3>1 DEF ManifestInv, HeadFollowsFile
    <3>3. k = Len(tensors)
      BY <2>3, <2>4, <3>2
    <3>4. tensors[k].name = LM_HEAD
      BY <1>1, <3>2, <3>3, Finished DEF SyntheticLmHead, IsEntry
    <3>5. derived # Absent
      BY <1>1, <3>1, DerivedHead
    <3> QED
      BY <1>3, <2>1, <3>4, <3>5 DEF AsksForDerived
  <2> QED
    BY <1>3, <2>1, <2>2, <2>4
<1> QED
  BY <1>2, <1>3

(* Every byte of every element of the buffer is that of the tensor.           *)
InOrder(buf, contents, t) ==
    \A q \in Nat, b \in 0 .. t.width - 1 :
        q * t.width + b \in DOMAIN buf
           => IsStoredElement(buf[q * t.width + b], contents, t, <<q, b>>)

(* As it is, such a buffer is a view of a tensor stored row-major.            *)
LEMMA StraightView ==
    ASSUME NEW t, NEW buf, NEW contents, t.width \in Nat, t.width # 0, t.length \in Nat,
           DOMAIN buf = 0 .. t.length - 1, ~t.flipped, InOrder(buf, contents, t)
    PROVE  Store!IsView(buf, contents, t)
<1> DEFINE w == t.width
<1>1. ASSUME NEW k \in DOMAIN buf
      PROVE  IsStoredElement(buf[k], contents, t, <<k \div w, k % w>>)
  <2> DEFINE q == k \div w
             b == k % w
  <2>1. k \in Nat
    OBVIOUS
  <2>2. q \in Nat /\ b \in 0 .. w - 1 /\ q * w + b = k
    BY <2>1, JoinIndex
  <2> HIDE DEF q, b
  <2>3. IsStoredElement(buf[k], contents, t, <<q, b>>)
    BY <2>2 DEF InOrder
  <2> QED
    BY <2>3 DEF q, b
<1> QED
  BY <1>1 DEF Store!IsView

(* Transposed once, it is a view of the matrix with its sides exchanged.      *)
LEMMA FlippedView ==
    ASSUME NEW t, NEW buf, NEW contents, NEW w \in Nat, w # 0, NEW m \in Nat, NEW n \in Nat,
           DOMAIN buf = MatrixBytes(m, n, w), InOrder(buf, contents, t),
           t.flipped, t.ne[1] = n, t.ne[2] = m, t.width = w
    PROVE  Store!IsView(Transposed(buf, m, n, w), contents, t)
<1> DEFINE out == Transposed(buf, m, n, w)
<1>1. (m * n) * w \in Nat /\ n * m = m * n
  OBVIOUS
<1>2. DOMAIN out = 0 .. t.ne[1] * t.ne[2] * t.width - 1
  BY <1>1 DEF Transposed, MatrixBytes
<1>3. ASSUME NEW i \in 0 .. n - 1, NEW j \in 0 .. m - 1, NEW b \in 0 .. w - 1
      PROVE  IsStoredElement(out[(i * m + j) * w + b], contents, t, <<j * n + i, b>>)
  <2> DEFINE e == j * n + i
             k == Offset(j, i, n, w) + b
  <2>1. k \in DOMAIN buf /\ out[Offset(i, j, m, w) + b] = buf[k]
    BY TransposedElement
  <2>2. e \in Nat
    BY ElementByte
  <2> HIDE DEF e
  <2>3. k = e * w + b
    BY DEF Offset, e
  <2> HIDE DEF k
  <2>4. IsStoredElement(buf[k], contents, t, <<e, b>>)
    BY <2>1, <2>2, <2>3 DEF InOrder
  <2> QED
    BY <2>1, <2>4 DEF e, Offset
<1> HIDE DEF out
<1> QED
  BY <1>2, <1>3 DEF Store!IsView, out

(* The bytes of a plain range are in the order of its elements.               *)
LEMMA PlainInOrder ==
    ASSUME NEW t, NEW buf, NEW contents, NEW start \in Nat, t.start = start,
           t.width \in Nat, t.dtype \notin Quantized,
           \A k \in DOMAIN buf : IsStoredByte(buf[k], contents, start + k)
    PROVE  InOrder(buf, contents, t)
<1> SUFFICES ASSUME NEW q \in Nat, NEW b \in 0 .. t.width - 1, q * t.width + b \in DOMAIN buf
             PROVE  IsStoredElement(buf[q * t.width + b], contents, t, <<q, b>>)
  BY DEF InOrder
<1>1. q * t.width \in Nat /\ b \in Nat
  OBVIOUS
<1>2. start + q * t.width + b = start + (q * t.width + b)
  BY <1>1
<1>3. IsStoredByte(buf[q * t.width + b], contents, start + q * t.width + b)
  BY <1>2
<1> QED
  BY <1>3 DEF IsStoredElement

LEMMA LessFactor ==
    ASSUME NEW x \in Nat, NEW y \in Nat, NEW d \in Nat, NEW b \in Nat, x * d + b < y * d
    PROVE  x < y
<1> SUFFICES ASSUME y <= x PROVE FALSE
  OBVIOUS
<1>1. PICK z \in Nat : x = y + z
  <2>1. x - y \in Nat /\ x = y + (x - y)
    OBVIOUS
  <2> QED
    BY <2>1
<1>2. x * d = y * d + z * d /\ z * d \in Nat /\ y * d \in Nat
  BY <1>1
<1> QED
  BY <1>2

(* And so are the elements of its blocks, each made of its own block.         *)
LEMMA QuantizedInOrder ==
    ASSUME NEW t, NEW buf, NEW contents, NEW start \in Nat, NEW size \in Nat,
           DOMAIN buf = 0 .. size - 1, t.start = start, t.width = Width["F32"],
           t.dtype \in Quantized,
           \A k \in DOMAIN buf : IsStoredByte(buf[k], contents, start + k)
    PROVE  InOrder(Dequantized(buf, t.dtype), contents, t)
<1> DEFINE out == Dequantized(buf, t.dtype)
           w == Width["F32"]
           be == BlockElements[t.dtype]
           bb == BlockBytes[t.dtype]
           blocks == size \div bb
<1>1. /\ w \in Nat \ {0} /\ be \in Nat \ {0} /\ bb \in Nat \ {0}
      /\ Length(buf) = size
  BY UnitsAssumption, WidthAssumption, BufferLength
<1>2. blocks \in Nat /\ size % bb \in Nat /\ blocks * bb + (size % bb) = size
  BY <1>1, JoinIndex
<1> SUFFICES ASSUME NEW q \in Nat, NEW b \in 0 .. w - 1, q * w + b \in DOMAIN out
             PROVE  IsStoredElement(out[q * w + b], contents, t, <<q, b>>)
  BY DEF InOrder
<1> DEFINE k == q * w + b
           block == q \div be
           first == block * bb
<1>3. k \div w = q /\ k % w = b
  BY <1>1, SplitIndex
<1>4. k \in 0 .. blocks * be * w - 1
  BY <1>1 DEF Dequantized
<1>5. out[k] = <<t.dtype, [x \in 0 .. bb - 1 |-> buf[first + x]], q % be, b>>
  BY <1>1, <1>3, <1>4 DEF Dequantized
<1> HIDE DEF out, w, be, bb, blocks
<1>6. block < blocks /\ block \in Nat
  <2>1. blocks * be \in Nat
    BY <1>1, <1>2
  <2>2. q * w + b < (blocks * be) * w /\ b \in Nat
    BY <1>1, <1>4, <2>1
  <2>3. q < blocks * be
    BY <1>1, <2>1, <2>2, LessFactor
  <2>4. block \in Nat /\ q % be \in Nat /\ block * be + (q % be) = q
    BY <1>1, JoinIndex
  <2> HIDE DEF block
  <2>5. block < blocks
    BY <1>1, <1>2, <2>3, <2>4, LessFactor
  <2> QED
    BY <2>4, <2>5
<1>7. ASSUME NEW x \in 0 .. bb - 1
      PROVE  IsStoredByte(buf[first + x], contents, start + block * bb + x)
  <2> HIDE DEF block
  <2>1. block * bb + x \in 0 .. (blocks * 1) * bb - 1
    <3>1. block * 1 + 0 = block /\ 0 \in 0 .. 1 - 1 /\ block \in 0 .. blocks - 1
      BY <1>2, <1>6
    <3> QED
      BY <1>1, <1>2, <3>1, ElementByte
  <2>2. first + x \in DOMAIN buf /\ first \in Nat
    BY <1>1, <1>2, <1>6, <2>1
  <2> HIDE DEF first
  <2>3. start + first + x = start + (first + x)
    BY <1>1, <2>2
  <2> QED
    BY <2>2, <2>3 DEF first
<1> HIDE DEF k, block, first
<1>8. /\ out[k][1] = t.dtype /\ out[k][3] = q % be /\ out[k][4] = b
      /\ \A x \in 0 .. bb - 1 : out[k][2][x] = buf[first + x]
  BY <1>5
<1>9. IsStoredElement(out[k], contents, t, <<q, b>>)
  BY <1>7, <1>8 DEF IsStoredElement, be, bb, block
<1> QED
  BY <1>9 DEF k, w

-----------------------------------------------------------------------------
(* A filled buffer is as long as the range of its tensor in the parsed file.  *)
LEMMA FilledRange ==
    ASSUME LoaderInv, NEW r \in Readers, Filled(r), DistinctNames,
           NEW i \in FromFile, InnerRange(r) = RangeOf(tensors[i])
    PROVE  /\ RequestedLocation(r) = Location(Tensor(i))
           /\ Start(r) \in Nat /\ Start(r) = parsed.data_start + Tensor(i).offset
           /\ Tensor(i).size \in Nat /\ DOMAIN raw[r] = 0 .. Tensor(i).size - 1
<1>1. /\ Busy(r) /\ ManifestInv /\ stage = "done" /\ step[r] = "read" /\ Remaining(r) = 0
      /\ ReaderInv(r)
  BY InProgress DEF Filled, Busy, LoaderInv
<1>2. RequestedLocation(r) = Location(Tensor(i))
  BY <1>1, EntryLocation DEF RequestedLocation, RangeOf
<1>3. RequestedLocation(r).length \in Nat
  BY <1>1, InProgress DEF ReaderInv
<1>4. Tensor(i).size \in Nat /\ RequestedLocation(r).length = Tensor(i).size
  BY <1>2, <1>3 DEF Location
<1>5. Start(r) \in Nat /\ Start(r) = parsed.data_start + Tensor(i).offset
  <2>1. Start(r) \in Nat
    BY <1>1 DEF ReaderInv, Reading
  <2>2. Start(r) = CheckedAdd(parsed.data_start, Tensor(i).offset)
    BY <1>2 DEF Start, Location
  <2>3. Start(r) # Absent
    BY <2>1, AbsentAssumption
  <2> QED
    BY <2>1, <2>2, <2>3 DEF CheckedAdd
<1>6. PICK n \in 0 .. RequestedLocation(r).length : DOMAIN raw[r] = 0 .. n - 1
  BY <1>1 DEF ReaderInv, Reading
<1>7. n \in Nat /\ Length(raw[r]) = n
  BY <1>3, <1>6, BufferLength
<1>8. n = Tensor(i).size
  BY <1>1, <1>4, <1>7 DEF Remaining
<1> QED
  BY <1>2, <1>4, <1>5, <1>6, <1>8

(* Whatever is made of the raw bytes, it is all of the tensor, in order.      *)
LEMMA ConvertedInOrder ==
    ASSUME LoaderInv, NEW r \in Readers, Filled(r), DistinctNames,
           NEW i \in FromFile, InnerRange(r) = RangeOf(tensors[i]),
           NEW contents, \A c \in contents : c.length \in Nat /\ c.length < MaxU64,
           \A k \in DOMAIN raw[r] : IsStoredByte(raw[r][k], contents, Start(r) + k),
           NEW t, NEW flipped, t = StoredAs(Tensor(i), flipped)
    PROVE  /\ t.width = Width[tensors[i].dtype] /\ t.width \in Nat /\ t.width # 0
           /\ t.length \in Nat /\ t.length < MaxU64
           /\ DOMAIN Converted(r) = 0 .. t.length - 1
           /\ InOrder(Converted(r), contents, t)
<1> DEFINE f == Tensor(i)
           start == Start(r)
<1>1. /\ Busy(r) /\ ManifestInv /\ stage = "done" /\ parsed \in Contents
  BY InProgress DEF Filled, Busy, LoaderInv
<1>2. /\ RequestedLocation(r) = Location(f) /\ start \in Nat
      /\ start = parsed.data_start + f.offset
      /\ f.size \in Nat /\ DOMAIN raw[r] = 0 .. f.size - 1
  BY FilledRange
<1>3. IsParsedTensor(f) /\ IsEntry(Entry(f)) /\ tensors[i] = SwapSides(Entry(f))
  BY <1>1, Finished DEF Declared
<1>4. tensors[i].dtype = IF f.dtype \in Quantized THEN "F32" ELSE f.dtype
  <2>1. Entry(f).dtype = IF f.dtype \in Quantized THEN "F32" ELSE f.dtype
    BY DEF Entry
  <2>2. tensors[i].dtype = Entry(f).dtype
    BY <1>3 DEF SwapSides, IsEntry
  <2> QED
    BY <2>1, <2>2
<1>5. f \in Range(parsed.tensors)
  BY DEF Tensor, Range, FromFile
<1>6. /\ t.dtype = f.dtype /\ t.start = start /\ t.length = HeldElementBytes(f)
      /\ t.width = ElementWidth(f)
  BY <1>2 DEF StoredAs, StoredIn
<1>7. /\ t.width = Width[tensors[i].dtype] /\ t.width \in Nat /\ t.width # 0
  BY <1>3, <1>4, <1>6, UnitsAssumption, WidthAssumption DEF ElementWidth, IsParsedTensor
<1> HIDE DEF f, start
<1>8. CASE f.dtype \notin Quantized
  <2>1. Converted(r) = raw[r]
    BY <1>2, <1>8 DEF Converted, Convert, Location
  <2>2. t.length = f.size
    BY <1>6, <1>8 DEF HeldElementBytes
  <2>3. f.size < MaxU64
    <3>1. CASE f.size = 0
      BY <3>1, WordAssumption
    <3>2. CASE f.size # 0
      <4>1. f.size - 1 \in DOMAIN raw[r]
        BY <1>2, <3>2
      <4>2. PICK c \in contents : start + (f.size - 1) < c.length
        BY <4>1 DEF IsStoredByte, start
      <4>3. c.length \in Nat /\ c.length < MaxU64 /\ MaxU64 \in Nat
        BY WordAssumption
      <4> QED
        BY <1>2, <4>2, <4>3
    <3> QED
      BY <3>1, <3>2
  <2>4. InOrder(raw[r], contents, t)
    <3>1. \A k \in DOMAIN raw[r] : IsStoredByte(raw[r][k], contents, start + k)
      BY DEF start
    <3> QED
      BY <1>2, <1>6, <1>7, <1>8, <3>1, PlainInOrder
  <2> QED
    BY <1>2, <1>7, <2>1, <2>2, <2>3, <2>4
<1>9. CASE f.dtype \in Quantized
  <2>1. Converted(r) = Dequantized(raw[r], f.dtype)
    BY <1>2, <1>9 DEF Converted, Convert, Location, Quantized
  <2>2. t.width = Width["F32"]
    BY <1>6, <1>9 DEF ElementWidth
  <2>3. InOrder(Dequantized(raw[r], f.dtype), contents, t)
    <3>1. \A k \in DOMAIN raw[r] : IsStoredByte(raw[r][k], contents, start + k)
      BY DEF start
    <3> QED
      BY <1>2, <1>6, <1>9, <2>2, <3>1, QuantizedInOrder
  <2> DEFINE blocks == f.size \div BlockBytes[f.dtype]
             held == blocks * BlockElements[f.dtype] * Width["F32"]
  <2>4. DOMAIN Dequantized(raw[r], f.dtype) = 0 .. held - 1
    BY <1>2, BufferLength DEF Dequantized
  <2>5. t.length = held
    BY <1>6, <1>9 DEF HeldElementBytes
  <2>6. held \in Nat
    <3>1. blocks \in Nat
      BY <1>2, <1>9, UnitsAssumption, JoinIndex
    <3> QED
      BY <1>9, <3>1, UnitsAssumption, WidthAssumption
  <2>7. t.length < MaxU64
    <3>1. f.size # Absent
      BY <1>2, AbsentAssumption
    <3> QED
      BY <1>1, <1>5, <1>6, <1>9, <3>1, BytesAssumption
  <2> HIDE DEF held
  <2> QED
    BY <1>7, <2>1, <2>3, <2>4, <2>5, <2>6, <2>7
<1> QED
  BY <1>8, <1>9

(* What the two checks of the length let pass has exactly the matrix's bytes. *)
LEMMA MatrixLength ==
    ASSUME NEW buf, NEW length \in Nat, length < MaxU64, DOMAIN buf = 0 .. length - 1,
           NEW sd, sd.rows \in Nat, sd.cols \in Nat, sd.width \in Nat, IsMatrix(buf, sd)
    PROVE  DOMAIN buf = MatrixBytes(sd.rows, sd.cols, sd.width)
<1>1. Length(buf) = length
  BY BufferLength
<1>2. length = SaturatingMul(sd.rows * sd.cols, sd.width) /\ MaxU64 \in Nat
  BY <1>1, WordAssumption DEF IsMatrix
<1>3. length = (sd.rows * sd.cols) * sd.width
  BY <1>2 DEF SaturatingMul
<1> QED
  BY <1>3 DEF MatrixBytes

(* What a call delivers is the requested tensor in its declared order, made   *)
(* of bytes of the contents its raw bytes were read from.                     *)
LEMMA DeliveredView ==
    ASSUME LoaderInv, NEW r \in Readers, Filled(r), IsShaped(r), DistinctNames,
           NEW contents, \A c \in contents : c.length \in Nat /\ c.length < MaxU64,
           \A k \in DOMAIN raw[r] : IsStoredByte(raw[r][k], contents, Start(r) + k)
    PROVE  \E t \in Candidates(r) : Store!IsView(Delivered(r), contents, t)
<1>1. /\ Busy(r) /\ ManifestInv /\ stage = "done" /\ parsed \in Contents
  BY InProgress DEF Filled, Busy, LoaderInv
<1>2. PICK i \in FromFile :
         /\ InnerRange(r) = RangeOf(tensors[i])
         /\ AsksForDerived(r) => /\ i = EmbeddingAt
                                 /\ tensors[i] = Embedding
                                 /\ derived = DerivedFrom(Embedding)
                                 /\ Len(Embedding.shape) = 2
         /\ ~AsksForDerived(r) => request[r] = tensors[i]
  BY <1>1, RangeOfFile
<1> DEFINE f == Tensor(i)
           identity == InnerRange(r).identity
<1>3. /\ IsParsedTensor(f) /\ IsEntry(Entry(f)) /\ tensors[i] = SwapSides(Entry(f))
      /\ f.ne \in Seq(Nat) /\ f \in Range(parsed.tensors)
  BY <1>1, Finished DEF Declared, IsParsedTensor, Range, FromFile, Tensor
<1>4. identity = tensors[i].name /\ tensors[i].name = Canonical(f.name)
      /\ tensors[i].offset = f.offset
  BY <1>1, <1>2, EntryLocation DEF RangeOf
<1>5. /\ tensors[i].shape = IF IsTransposedProjection(tensors[i].name) /\ Len(tensors[i].shape) = 2
                            THEN f.ne ELSE Reverse(f.ne)
  BY <1>1, EntryOrientation DEF ManifestInv, DeclaredOrientation, Tensor
<1>6. Len(tensors[i].shape) = Len(f.ne)
  BY <1>3, <1>5, ReverseType
<1>7. NeedsTranspose(r) <=> IsTransposedProjection(tensors[i].name) /\ Len(f.ne) = 2
  <2>1. DOMAIN sides = {tensors[j].name : j \in {k \in FromFile : IsSwapped(tensors[k])}}
    BY <1>1, FinishedSides DEF SidesMatchManifest
  <2>2. ASSUME NEW j \in FromFile, tensors[j].name = tensors[i].name PROVE j = i
    <3>1. tensors[j].name = Canonical(Tensor(j).name)
      BY <1>1, EntryLocation
    <3> QED
      BY <1>1, <1>4, <2>2, <3>1, EntriesApart
  <2>3. NeedsTranspose(r) <=> IsSwapped(tensors[i])
    BY <1>4, <2>1, <2>2 DEF NeedsTranspose
  <2> QED
    BY <1>6, <2>3 DEF IsSwapped
<1> DEFINE flipped == AsksForDerived(r) \/ NeedsTranspose(r)
           v == StoredAs(f, flipped)
<1>8. /\ v.width = Width[tensors[i].dtype] /\ v.width \in Nat /\ v.width # 0
      /\ v.length \in Nat /\ v.length < MaxU64
      /\ DOMAIN Converted(r) = 0 .. v.length - 1
      /\ InOrder(Converted(r), contents, v)
  BY <1>2, ConvertedInOrder
<1>9. v.ne = f.ne /\ v.flipped = flipped
  BY DEF StoredAs, StoredIn
<1> HIDE DEF f, v
<1>10. CASE AsksForDerived(r)
  <2>1. /\ i = EmbeddingAt /\ tensors[i] = Embedding /\ Embedding = Entry(f)
        /\ derived = DerivedFrom(Embedding) /\ Len(Embedding.shape) = 2
    BY <1>2, <1>10 DEF Embedding, f
  <2>2. f.name = TokenEmbd
    BY <1>1, <2>1 DEF f, ManifestInv, ConfigFollowsFile, IsEmbeddingAt
  <2>3. tensors[i].name = TOKEN_EMBEDDING
    <3>1. IsAccepted(f) /\ f.name \in Seq(STRING)
      BY <1>1, <1>3, Finished DEF f, IsParsedTensor
    <3> QED
      BY <1>4, <2>2, <3>1, GlobalNames DEF IsAccepted
  <2>4. ~NeedsTranspose(r)
    <3>1. Len(TOKEN_EMBEDDING) = 1 /\ TOKEN_EMBEDDING[1] = "token_embedding"
          /\ TOKEN_EMBEDDING # LM_HEAD
      BY DEF TOKEN_EMBEDDING, LM_HEAD
    <3> QED
      BY <1>7, <2>3, <3>1 DEF IsTransposedProjection, ProjectionFields
  <2> DEFINE n == f.ne[1]
             m == f.ne[2]
  <2>5. Embedding.shape = Reverse(f.ne) /\ Len(f.ne) = 2
    <3>1. Embedding.shape = Reverse(f.ne)
      BY <2>1 DEF Entry, Shape
    <3> QED
      BY <1>3, <2>1, <3>1, ReverseType
  <2>6. n \in Nat /\ m \in Nat /\ Embedding.shape = <<m, n>>
    BY <1>3, <2>5, ReversePair
  <2>7. derived.rows = m /\ derived.cols = n /\ derived.width = v.width
    BY <1>8, <2>1, <2>6 DEF DerivedFrom
  <2>8. Delivered(r) = Transposed(Converted(r), m, n, v.width)
    BY <1>10, <2>4, <2>7 DEF Delivered, TransposedBy
  <2>9. v \in Candidates(r)
    BY <1>3, <1>10, <2>2 DEF Candidates, TokenEmbd, v
  <2>10. IsMatrix(Converted(r), derived)
    BY <1>10 DEF IsShaped
  <2>11. v.ne[1] = n /\ v.ne[2] = m /\ v.flipped
    BY <1>9, <1>10
  <2> HIDE DEF n, m
  <2>12. DOMAIN Converted(r) = MatrixBytes(m, n, v.width)
    BY <1>8, <2>6, <2>7, <2>10, MatrixLength
  <2>13. Store!IsView(Transposed(Converted(r), m, n, v.width), contents, v)
    BY <1>8, <2>6, <2>11, <2>12, FlippedView
  <2> QED
    BY <2>8, <2>9, <2>13
<1>11. CASE ~AsksForDerived(r)
  <2>1. request[r] = tensors[i]
    BY <1>2, <1>11
  <2>2. v \in Candidates(r)
    <3>1. Canonical(f.name) = request[r].name /\ f.offset = request[r].offset
      BY <1>4, <2>1
    <3>2. v = StoredAs(f, IsTransposedProjection(request[r].name) /\ Len(f.ne) = 2)
      BY <1>7, <1>11, <2>1 DEF v
    <3> QED
      BY <1>3, <1>11, <3>1, <3>2 DEF Candidates
  <2>3. CASE NeedsTranspose(r)
    <3> DEFINE sd == sides[identity]
    <3>1. tensors[i].shape = <<sd.cols, sd.rows>> /\ sd.width = Width[tensors[i].dtype]
      BY <1>1, <1>4, <2>3, FinishedSides DEF SidesMatchManifest, NeedsTranspose
    <3>2. tensors[i].shape = f.ne /\ Len(f.ne) = 2
      BY <1>5, <1>6, <1>7, <2>3
    <3>3. f.ne[1] = sd.cols /\ f.ne[2] = sd.rows /\ sd.width = v.width
      BY <1>8, <3>1, <3>2
    <3>4. sd.cols \in Nat /\ sd.rows \in Nat
      BY <1>3, <3>2, <3>3
    <3>5. IsMatrix(Converted(r), sd)
      BY <2>3 DEF IsShaped
    <3>6. Delivered(r) = Transposed(Converted(r), sd.rows, sd.cols, v.width)
      BY <1>11, <2>3, <3>3 DEF Delivered, TransposedBy
    <3>7. v.ne[1] = sd.cols /\ v.ne[2] = sd.rows /\ v.flipped
      BY <1>9, <2>3, <3>3
    <3> HIDE DEF sd
    <3>8. DOMAIN Converted(r) = MatrixBytes(sd.rows, sd.cols, v.width)
      BY <1>8, <3>3, <3>4, <3>5, MatrixLength
    <3>9. Store!IsView(Transposed(Converted(r), sd.rows, sd.cols, v.width), contents, v)
      BY <1>8, <3>4, <3>7, <3>8, FlippedView
    <3> QED
      BY <2>2, <3>6, <3>9
  <2>4. CASE ~NeedsTranspose(r)
    <3>1. Delivered(r) = Converted(r) /\ ~v.flipped
      BY <1>9, <1>11, <2>4 DEF Delivered
    <3>2. Store!IsView(Converted(r), contents, v)
      BY <1>8, <3>1, StraightView
    <3> QED
      BY <2>2, <3>1, <3>2
  <2> QED
    BY <2>3, <2>4
<1> QED
  BY <1>10, <1>11

(* Raw bytes that pass the check against a digest are the parsed file's.      *)
LEMMA DigestOfParsed ==
    ASSUME LoaderInv, NEW r \in Readers, Filled(r), Verified(r), DistinctNames,
           InnerRange(r).digest # Absent
    PROVE  \A k \in DOMAIN raw[r] : IsStoredByte(raw[r][k], {parsed}, Start(r) + k)
<1>1. /\ Busy(r) /\ ManifestInv /\ stage = "done" /\ parsed \in Contents
  BY InProgress DEF Filled, Busy, LoaderInv
<1>2. PICK i \in FromFile : InnerRange(r) = RangeOf(tensors[i])
  BY <1>1, RangeOfFile
<1> DEFINE f == Tensor(i)
<1>3. tensors[i].digest # Absent /\ raw[r] = tensors[i].digest
  BY <1>2 DEF RangeOf, Verified
<1>4. tensors[i].digest = f.digest
  BY <1>1, <1>3, RangeWithDigest
<1>5. /\ Start(r) \in Nat /\ Start(r) = parsed.data_start + f.offset
      /\ f.size \in Nat /\ DOMAIN raw[r] = 0 .. f.size - 1
  BY <1>2, FilledRange
<1>6. f \in Range(parsed.tensors)
  BY DEF Tensor, Range, FromFile
<1>7. /\ parsed.length \in Nat /\ parsed.data_start + f.offset + f.size <= parsed.length
      /\ raw[r] = [k \in 0 .. f.size - 1 |-> Byte(parsed, parsed.data_start + f.offset + k)]
  BY <1>1, <1>3, <1>4, <1>6, BytesAssumption
<1> HIDE DEF f
<1>8. /\ Start(r) + f.size <= parsed.length
      /\ \A k \in 0 .. f.size - 1 : raw[r][k] = Byte(parsed, Start(r) + k)
  BY <1>5, <1>7
<1>9. ASSUME NEW k \in 0 .. f.size - 1
      PROVE  Start(r) + k < parsed.length
  BY <1>5, <1>7, <1>8
<1> QED
  BY <1>5, <1>8, <1>9 DEF IsStoredByte

LEMMA DeliverInvariant ==
    ASSUME LoaderInv, NEW r \in Readers, Deliver(r), UNCHANGED <<diskVars, ingestVars>>
    PROVE  LoaderInv'
<1> DEFINE answer == [error |-> Absent, bytes |-> Delivered(r)]
<1>1. /\ Busy(r) /\ Filled(r) /\ Verified(r) /\ IsShaped(r) /\ Return(r, answer)
      /\ answer.bytes = Delivered(r)
  BY DEF Deliver, Filled, Busy
<1> HIDE DEF answer
<1>2. DistinctNames /\ InnerRange(r).digest # Absent
         => \E t \in Candidates(r) : Store!IsView(answer.bytes, {parsed}, t)
  <2> SUFFICES ASSUME DistinctNames, InnerRange(r).digest # Absent
               PROVE  \E t \in Candidates(r) : Store!IsView(answer.bytes, {parsed}, t)
    OBVIOUS
  <2>1. \A k \in DOMAIN raw[r] : IsStoredByte(raw[r][k], {parsed}, Start(r) + k)
    BY <1>1, DigestOfParsed
  <2>2. \A c \in {parsed} : c.length \in Nat /\ c.length < MaxU64
    BY <1>1, InProgress, BytesAssumption
  <2> QED
    BY <1>1, <2>1, <2>2, DeliveredView
<1> QED
  BY <1>1, <1>2, ReturnInvariant

-----------------------------------------------------------------------------
LEMMA ReadStepInvariant ==
    ASSUME LoaderInv, NEW r \in Readers, CallStep(r)
    PROVE  LoaderInv'
<1>1. ReadStep(r) /\ UNCHANGED <<diskVars, ingestVars>>
  BY DEF CallStep
<1>2. CASE \/ OutOfBounds(r) \/ CannotOpen(r) \/ OffsetOverflows(r) \/ UnexpectedEnd(r)
           \/ DigestMismatch(r) \/ WrongLength(r)
  <2>1. Busy(r) /\ \E kind \in ReadErrorKinds : ReturnError(r, kind)
    BY <1>2 DEF OutOfBounds, CannotOpen, OffsetOverflows, UnexpectedEnd, DigestMismatch,
                WrongLength, Filled, Busy, ReadErrorKinds
  <2> QED
    BY <1>1, <2>1, ErrorInvariant
<1> QED
  BY <1>1, <1>2, OpenInvariant, SeekInvariant, ReadSomeInvariant, DeliverInvariant DEF ReadStep

LEMMA LoaderNextInv == LoaderInv /\ [LoaderNext]_loaderVars => LoaderInv'
<1> SUFFICES ASSUME LoaderInv, [LoaderNext]_loaderVars PROVE LoaderInv'
  OBVIOUS
<1>1. CASE IngestStep /\ UNCHANGED <<diskVars, readVars>>
  BY <1>1, IngestInvariant
<1>2. CASE DiskStep
  BY <1>2, DiskInvariant
<1>3. ASSUME NEW r \in Readers, Request(r) /\ UNCHANGED <<diskVars, ingestVars>>
      PROVE  LoaderInv'
  BY <1>3, RequestInvariant
<1>4. ASSUME NEW r \in Readers, CallStep(r) PROVE LoaderInv'
  BY <1>4, ReadStepInvariant
<1>5. CASE UNCHANGED loaderVars
  <2>1. UNCHANGED <<diskVars, ingestVars>> /\ UNCHANGED readVars
    BY <1>5 DEF loaderVars
  <2>2. ManifestInv'
    BY <2>1, LocalStep DEF LoaderInv
  <2>3. Len(files) \in Nat /\ files' = files
    BY <2>1 DEF LoaderInv, ManifestInv, Inv, TypeOK, DiskTypeOK, diskVars
  <2>4. Len(files') \in Nat /\ Len(files) <= Len(files')
    BY <2>3
  <2>5. ASSUME NEW r \in Readers PROVE ReaderInv(r)'
    BY <2>1, <2>3, <2>4, FrameReader DEF LoaderInv, readVars
  <2> QED
    BY <2>1, <2>2, <2>5 DEF LoaderInv, PerReader, readVars
<1> QED
  BY <1>1, <1>2, <1>3, <1>4, <1>5 DEF LoaderNext

LEMMA LoaderInvariant == LoaderSpec => []LoaderInv
  BY LoaderInitInv, LoaderNextInv, PTL DEF LoaderSpec

(* However many threads read at once and whatever happens to the path, the    *)
(* handle of each stays on its own file, its cursor at the start of its range *)
(* plus what it has read, and its buffer within the range.                    *)
THEOREM ReadersTypeCorrect == LoaderSpec => []ReadersTypeOK
<1>1. LoaderInv => ReadersTypeOK
  <2> SUFFICES ASSUME LoaderInv, NEW r \in Readers
               PROVE  /\ step[r] \in {"idle", "open", "seek", "read"}
                      /\ handle[r] \in 0 .. Len(files)
                      /\ (handle[r] = NoFile) <=> step[r] \in {"idle", "open"}
                      /\ cursor[r] \in Nat
                      /\ calls[r] \in 0 .. MaxRequests
                      /\ step[r] = "read" =>
                            /\ Length(raw[r]) <= RequestedLocation(r).length
                            /\ cursor[r] = Start(r) + Length(raw[r])
    BY DEF ReadersTypeOK
  <2>1. ReaderInv(r)
    BY DEF LoaderInv
  <2>2. ASSUME step[r] = "read"
        PROVE  /\ Length(raw[r]) <= RequestedLocation(r).length
               /\ cursor[r] = Start(r) + Length(raw[r])
    <3>1. PICK n \in 0 .. RequestedLocation(r).length :
             DOMAIN raw[r] = 0 .. n - 1 /\ cursor[r] = Start(r) + n
      BY <2>1, <2>2 DEF ReaderInv, Reading
    <3>2. RequestedLocation(r).length \in Nat
      BY <2>1, <2>2, InProgress DEF ReaderInv, Busy
    <3>3. n \in Nat /\ n <= RequestedLocation(r).length
      BY <3>2
    <3>4. Length(raw[r]) = n
      BY <3>1, <3>3, BufferLength
    <3> QED
      BY <3>1, <3>3, <3>4
  <2> QED
    BY <2>1, <2>2 DEF ReaderInv
<1> QED
  BY <1>1, LoaderInvariant, PTL

(* A call whose range has a digest returns the bytes of the file that was     *)
(* parsed, in the declared order, or an error, however many others read and   *)
(* whatever other programs do to the file, rewriting it in place included; if *)
(* the file tells its tensors apart by name.                                  *)
THEOREM VerifiedReadsOfFile == LoaderSpec => []VerifiedReads
<1>1. LoaderInv => VerifiedReads
  BY DEF LoaderInv, ReaderInv, VerifiedReply, VerifiedReads
<1> QED
  BY <1>1, LoaderInvariant, PTL

-----------------------------------------------------------------------------
(* The contents a call may take bytes from: the file of its handle, or, where *)
(* files are rewritten in place, all that was on the path during the call.    *)
Sources(r) == IF InPlace THEN window[r] \ {Absent} ELSE {files[handle[r]]}

(* What joins a call to the window TensorStore gives it: what it opened was   *)
(* on the path since it began, and every byte it has is from there.           *)
WindowInv(r) ==
    /\ window[r] \subseteq Contents \cup {Absent}
    /\ Busy(r) => ContentOnDisk \in window[r]
    /\ step[r] \in {"seek", "read"} => files[handle[r]] \in window[r]
    /\ step[r] = "read" =>
          \A k \in DOMAIN raw[r] : IsStoredByte(raw[r][k], Sources(r), Start(r) + k)

StoreInv ==
    /\ LoaderInv
    /\ DOMAIN window = Readers
    /\ \A r \in Readers : WindowInv(r)

LEMMA StoreInit == LoaderInit => StoreInv
  BY LoaderInitInv DEF LoaderInit, StoreInv, WindowInv, Busy

(* What is on the path is a content, and so is what a handle is open on.      *)
LEMMA OpenFiles ==
    ASSUME LoaderInv
    PROVE  /\ ContentOnDisk \in Contents \cup {Absent}
           /\ path # NoFile => ContentOnDisk = files[path] /\ files[path] \in Contents
           /\ \A r \in Readers : step[r] \in {"seek", "read"} =>
                 handle[r] \in 1 .. Len(files) /\ files[handle[r]] \in Contents
<1>1. files \in Seq(Contents) /\ path \in 0 .. Len(files) /\ Len(files) \in Nat
  BY DEF LoaderInv, ManifestInv, Inv, TypeOK, DiskTypeOK
<1>2. path # NoFile => path \in 1 .. Len(files) /\ files[path] \in Contents
  BY <1>1 DEF NoFile
<1>3. ASSUME NEW r \in Readers, step[r] \in {"seek", "read"}
      PROVE  handle[r] \in 1 .. Len(files) /\ files[handle[r]] \in Contents
  BY <1>1, <1>3 DEF LoaderInv, ReaderInv, NoFile
<1> QED
  BY <1>2, <1>3 DEF ContentOnDisk, OnDisk

(* More contents to take a byte from leave it what it was.                    *)
LEMMA MoreSources ==
    ASSUME NEW cell, NEW position, NEW A, NEW B, A \subseteq B, IsStoredByte(cell, A, position)
    PROVE  IsStoredByte(cell, B, position)
  BY DEF IsStoredByte

(* A thread that does not move keeps its part while the disk stays as it is.  *)
LEMMA FrameWindow ==
    ASSUME NEW r \in Readers, WindowInv(r), UNCHANGED <<diskVars, ingestVars>>,
           step'[r] = step[r], request'[r] = request[r], handle'[r] = handle[r],
           raw'[r] = raw[r], window'[r] = window[r]
    PROVE  WindowInv(r)'
<1>1. files' = files /\ path' = path /\ ContentOnDisk' = ContentOnDisk
  BY DEF diskVars, ContentOnDisk, OnDisk
<1>2. Start(r)' = Start(r)
  BY SameRequest
<1>3. Sources(r)' = Sources(r)
  BY <1>1 DEF Sources
<1> QED
  BY <1>1, <1>2, <1>3 DEF WindowInv, Busy

(* A change of the path reaches the windows of all calls; a handle's file is  *)
(* rewritten only as the file on the path, and only where that is done.       *)
LEMMA DiskWindow ==
    ASSUME StoreInv, DiskStep
    PROVE  StoreInv'
<1>1. LoaderInv /\ LoaderInv' /\ ChangeDisk /\ UNCHANGED ingestVars
  BY DiskInvariant DEF StoreInv, DiskStep
<1>2. /\ UNCHANGED <<step, request, handle, raw>> /\ DOMAIN window' = Readers
      /\ \A r \in Readers :
            window'[r] = IF Busy(r) THEN window[r] \cup {ContentOnDisk'} ELSE window[r]
  BY DEF DiskStep, ContentOnDisk, OnDisk
<1>3. ContentOnDisk' \in Contents \cup {Absent}
  <2>1. files' \in Seq(Contents) /\ path' \in 0 .. Len(files')
    BY <1>1 DEF LoaderInv, ManifestInv, Inv, TypeOK, DiskTypeOK
  <2>2. path' # NoFile => files'[path'] \in Contents
    BY <2>1 DEF NoFile
  <2> QED
    BY <2>2 DEF ContentOnDisk, OnDisk
<1>4. ASSUME NEW r \in Readers, step[r] \in {"seek", "read"}
      PROVE  \/ files'[handle[r]] = files[handle[r]]
             \/ InPlace /\ files'[handle[r]] = ContentOnDisk'
  <2>1. /\ handle[r] \in 1 .. Len(files) /\ files \in Seq(Contents)
        /\ path \in 0 .. Len(files)
    BY <1>1, <1>4, OpenFiles DEF LoaderInv, ManifestInv, Inv, TypeOK, DiskTypeOK
  <2>2. ASSUME NEW c \in Contents, RenameOver(c)
        PROVE  files'[handle[r]] = files[handle[r]]
    BY <2>1, <2>2 DEF RenameOver
  <2>3. ASSUME NEW c \in Contents, OverwriteInPlace(c)
        PROVE  \/ files'[handle[r]] = files[handle[r]]
               \/ InPlace /\ files'[handle[r]] = ContentOnDisk'
    <3>1. CASE handle[r] = path
      BY <2>1, <2>3, <3>1 DEF OverwriteInPlace, ContentOnDisk, OnDisk
    <3>2. CASE handle[r] # path
      BY <2>1, <2>3, <3>2 DEF OverwriteInPlace
    <3> QED
      BY <3>1, <3>2
  <2>4. CASE Unlink
    BY <2>4 DEF Unlink
  <2> QED
    BY <1>1, <2>2, <2>3, <2>4 DEF ChangeDisk
<1>5. ASSUME NEW r \in Readers, step[r] \in {"seek", "read"}, ~InPlace
      PROVE  files'[handle[r]] = files[handle[r]]
  BY <1>4, <1>5
<1>6. ASSUME NEW r \in Readers PROVE WindowInv(r)'
  <2>1. WindowInv(r) /\ (Busy(r)' <=> Busy(r)) /\ Start(r)' = Start(r)
    BY <1>1, <1>2, SameRequest DEF StoreInv, Busy
  <2>2. ASSUME step[r] \in {"seek", "read"} PROVE Sources(r) \subseteq Sources(r)'
    BY <1>2, <1>5, <2>2, <2>1 DEF Sources
  <2>3. window'[r] \subseteq Contents \cup {Absent}
    BY <1>2, <1>3, <2>1 DEF WindowInv
  <2>4. Busy(r)' => ContentOnDisk' \in window'[r]
    BY <1>2, <2>1
  <2>5. step'[r] \in {"seek", "read"} => files'[handle'[r]] \in window'[r]
    BY <1>2, <1>4, <2>1 DEF WindowInv, Busy
  <2>6. ASSUME step'[r] = "read", NEW k \in DOMAIN raw'[r]
        PROVE  IsStoredByte(raw'[r][k], Sources(r)', Start(r)' + k)
    <3>1. step[r] = "read" /\ raw'[r] = raw[r] /\ k \in DOMAIN raw[r]
      BY <1>2, <2>6
    <3>2. IsStoredByte(raw[r][k], Sources(r), Start(r) + k)
      BY <2>1, <3>1 DEF WindowInv
    <3> QED
      BY <2>1, <2>2, <3>1, <3>2, MoreSources
  <2> QED
    BY <2>3, <2>4, <2>5, <2>6 DEF WindowInv
<1> QED
  BY <1>1, <1>2, <1>6 DEF StoreInv

(* A step of one thread, seen from the windows.                               *)
LEMMA ReaderWindow ==
    ASSUME StoreInv, NEW r \in Readers, LoaderInv', UNCHANGED <<diskVars, ingestVars>>,
           OnlyReader(r), DOMAIN window' = Readers,
           \A q \in Readers \ {r} : window'[q] = window[q],
           WindowInv(r)'
    PROVE  StoreInv'
<1>1. ASSUME NEW q \in Readers, q # r PROVE WindowInv(q)'
  BY <1>1, FrameWindow DEF OnlyReader, StoreInv
<1> QED
  BY <1>1 DEF StoreInv

LEMMA RequestWindow ==
    ASSUME StoreInv, NEW r \in Readers, Request(r), UNCHANGED <<diskVars, ingestVars>>
    PROVE  StoreInv'
<1>1. LoaderInv /\ LoaderInv' /\ PerReader /\ PerReader' /\ DOMAIN window = Readers
  BY RequestInvariant DEF StoreInv, LoaderInv
<1>2. /\ step'[r] = "open" /\ window'[r] = {ContentOnDisk} /\ DOMAIN window' = Readers
      /\ \A q \in Readers \ {r} : window'[q] = window[q]
  BY <1>1 DEF PerReader, Request
<1>3. OnlyReader(r)
  BY <1>1 DEF OnlyReader, PerReader, Request
<1>4. ContentOnDisk' = ContentOnDisk /\ ContentOnDisk \in Contents \cup {Absent}
  BY <1>1, OpenFiles DEF ContentOnDisk, OnDisk, diskVars
<1>5. WindowInv(r)'
  BY <1>2, <1>4 DEF WindowInv
<1> QED
  BY <1>1, <1>2, <1>3, <1>5, ReaderWindow

LEMMA ReturnWindow ==
    ASSUME StoreInv, NEW r \in Readers, LoaderInv', NEW answer, Return(r, answer),
           UNCHANGED <<diskVars, ingestVars>>
    PROVE  StoreInv'
<1>1. PerReader /\ PerReader' /\ DOMAIN window = Readers /\ WindowInv(r)
  BY DEF StoreInv, LoaderInv
<1>2. step'[r] = "idle" /\ window' = window
  BY <1>1 DEF PerReader, Return
<1>3. OnlyReader(r)
  BY <1>1 DEF OnlyReader, PerReader, Return
<1>4. WindowInv(r)'
  BY <1>1, <1>2 DEF WindowInv, Busy
<1> QED
  BY <1>1, <1>2, <1>3, <1>4, ReaderWindow

LEMMA OpenWindow ==
    ASSUME StoreInv, NEW r \in Readers, Open(r), UNCHANGED <<diskVars, ingestVars>>
    PROVE  StoreInv'
<1>1. /\ LoaderInv /\ LoaderInv' /\ PerReader /\ PerReader' /\ DOMAIN window = Readers
      /\ WindowInv(r) /\ Busy(r)
  BY OpenInvariant DEF StoreInv, LoaderInv, Open, Busy
<1>2. step'[r] = "seek" /\ handle'[r] = path /\ window' = window /\ path # NoFile
  BY <1>1 DEF PerReader, Open
<1>3. OnlyReader(r)
  BY <1>1 DEF OnlyReader, PerReader, Open
<1>4. /\ files' = files /\ ContentOnDisk' = ContentOnDisk
      /\ files[path] = ContentOnDisk
  BY <1>1, <1>2, OpenFiles DEF ContentOnDisk, OnDisk, diskVars
<1>5. WindowInv(r)'
  BY <1>1, <1>2, <1>4 DEF WindowInv, Busy
<1> QED
  BY <1>1, <1>2, <1>3, <1>5, ReaderWindow

LEMMA SeekWindow ==
    ASSUME StoreInv, NEW r \in Readers, Seek(r), UNCHANGED <<diskVars, ingestVars>>
    PROVE  StoreInv'
<1>1. /\ LoaderInv /\ LoaderInv' /\ PerReader /\ PerReader' /\ DOMAIN window = Readers
      /\ WindowInv(r) /\ Busy(r) /\ step[r] = "seek" /\ ReaderInv(r)
  BY SeekInvariant DEF StoreInv, LoaderInv, Seek, Busy
<1>2. step'[r] = "read" /\ handle' = handle /\ window' = window /\ raw' = raw
  BY <1>1 DEF PerReader, Seek
<1>3. OnlyReader(r)
  BY <1>1 DEF OnlyReader, PerReader, Seek
<1>4. files' = files /\ ContentOnDisk' = ContentOnDisk
  BY DEF ContentOnDisk, OnDisk, diskVars
<1>5. DOMAIN raw[r] = {}
  BY <1>1 DEF ReaderInv, NoBytes
<1>6. WindowInv(r)'
  BY <1>1, <1>2, <1>4, <1>5 DEF WindowInv, Busy
<1> QED
  BY <1>1, <1>2, <1>3, <1>6, ReaderWindow

(* What a read() appends lies in the handle's file where the buffer's length  *)
(* says it does.                                                              *)
LEMMA ReadSomeWindow ==
    ASSUME StoreInv, NEW r \in Readers, ReadSome(r), UNCHANGED <<diskVars, ingestVars>>
    PROVE  StoreInv'
<1>1. /\ LoaderInv /\ LoaderInv' /\ PerReader /\ PerReader' /\ DOMAIN window = Readers
      /\ WindowInv(r) /\ Busy(r) /\ step[r] = "read" /\ ReaderInv(r)
  BY ReadSomeInvariant DEF StoreInv, LoaderInv, ReadSome, Busy
<1>2. step' = step /\ handle' = handle /\ window' = window /\ UNCHANGED request
  BY DEF ReadSome
<1>3. OnlyReader(r)
  BY <1>1 DEF OnlyReader, PerReader, ReadSome
<1>4. /\ files' = files /\ ContentOnDisk' = ContentOnDisk /\ Start(r)' = Start(r)
      /\ Sources(r)' = Sources(r)
  BY <1>2, SameRequest DEF ContentOnDisk, OnDisk, diskVars, Sources
<1> DEFINE content == files[handle[r]]
           got == Length(raw[r])
           left == content.length - cursor[r]
           n(size) == Min({size, Remaining(r), left})
<1>5. PICK size \in ReadSizes :
         raw'[r] = [k \in 0 .. got + n(size) - 1 |->
                       IF k < got THEN raw[r][k] ELSE Byte(content, cursor[r] + k - got)]
  BY <1>1 DEF PerReader, ReadSome
<1>6. /\ Start(r) \in Nat /\ got \in Nat
      /\ DOMAIN raw[r] = 0 .. got - 1 /\ cursor[r] = Start(r) + got
      /\ RequestedLocation(r).length \in Nat /\ got <= RequestedLocation(r).length
  <2>1. Start(r) \in Nat /\ RequestedLocation(r).length \in Nat
    BY <1>1, InProgress DEF ReaderInv, Reading
  <2>2. PICK k \in 0 .. RequestedLocation(r).length :
           DOMAIN raw[r] = 0 .. k - 1 /\ cursor[r] = Start(r) + k
    BY <1>1 DEF ReaderInv, Reading
  <2>3. got = k
    BY <2>1, <2>2, BufferLength
  <2> QED
    BY <2>1, <2>2, <2>3
<1>7. /\ content \in Contents /\ content \in Sources(r) /\ content.length \in Nat
  <2>1. content \in Contents /\ content \in window[r]
    BY <1>1, OpenFiles DEF WindowInv
  <2> QED
    BY <2>1, ContentsAssumption, BytesAssumption DEF Sources
<1>8. n(size) \in Nat /\ n(size) <= left
  <2>1. /\ size \in Nat /\ Remaining(r) \in Nat /\ left \in Nat
    BY <1>6, <1>7, ReadersAssumption DEF ReadSome, AtEnd, Remaining
  <2> DEFINE S == {size, Remaining(r), left}
  <2>2. \E x \in S : \A y \in S : x <= y
    BY <2>1
  <2>3. Min(S) \in S /\ \A y \in S : Min(S) <= y
    BY <2>2 DEF Min
  <2> QED
    BY <2>1, <2>3
<1> DEFINE m == n(size)
<1> HIDE DEF n, got, content
<1>9. ASSUME NEW k \in DOMAIN raw'[r]
      PROVE  IsStoredByte(raw'[r][k], Sources(r), Start(r) + k)
  <2>1. k \in 0 .. got + m - 1 /\ k \in Nat
    BY <1>5, <1>6, <1>8
  <2>2. CASE k < got
    <3>1. raw'[r][k] = raw[r][k] /\ k \in DOMAIN raw[r]
      BY <1>5, <1>6, <2>1, <2>2
    <3> QED
      BY <1>1, <3>1 DEF WindowInv
  <2>3. CASE ~(k < got)
    <3>1. raw'[r][k] = Byte(content, cursor[r] + k - got)
      BY <1>5, <2>1, <2>3
    <3>2. cursor[r] + k - got = Start(r) + k
      BY <1>6, <2>1
    <3>3. Start(r) + k < content.length
      BY <1>6, <1>7, <1>8, <2>1
    <3> QED
      BY <1>7, <3>1, <3>2, <3>3 DEF IsStoredByte
  <2> QED
    BY <2>2, <2>3
<1>10. WindowInv(r)'
  BY <1>1, <1>2, <1>4, <1>9 DEF WindowInv, Busy
<1> QED
  BY <1>1, <1>2, <1>3, <1>10, ReaderWindow

-----------------------------------------------------------------------------
(* A step of a call returns, or leaves requests and answers alone.            *)
LEMMA ReadStepWindow ==
    ASSUME StoreInv, NEW r \in Readers, CallStep(r)
    PROVE  StoreInv'
<1>1. /\ ReadStep(r) /\ UNCHANGED <<diskVars, ingestVars>> /\ LoaderInv'
  BY ReadStepInvariant DEF CallStep, StoreInv
<1>2. CASE \/ OutOfBounds(r) \/ CannotOpen(r) \/ OffsetOverflows(r) \/ UnexpectedEnd(r)
           \/ DigestMismatch(r) \/ WrongLength(r) \/ Deliver(r)
  <2>1. \E answer : Return(r, answer)
    BY <1>2 DEF OutOfBounds, CannotOpen, OffsetOverflows, UnexpectedEnd, DigestMismatch,
                WrongLength, Deliver, ReturnError
  <2> QED
    BY <1>1, <2>1, ReturnWindow
<1> QED
  BY <1>1, <1>2, OpenWindow, SeekWindow, ReadSomeWindow DEF ReadStep

LEMMA StoreNext == StoreInv /\ [LoaderNext]_loaderVars => StoreInv'
<1> SUFFICES ASSUME StoreInv, [LoaderNext]_loaderVars PROVE StoreInv'
  OBVIOUS
<1>1. LoaderInv'
  BY LoaderNextInv DEF StoreInv
<1>2. CASE UNCHANGED <<diskVars, readVars>> /\ UNCHANGED ingestVars
  <2>1. ASSUME NEW r \in Readers PROVE WindowInv(r)'
    BY <1>2, FrameWindow DEF StoreInv, readVars
  <2> QED
    BY <1>1, <1>2, <2>1 DEF StoreInv, readVars
<1>3. CASE IngestStep /\ UNCHANGED <<diskVars, readVars>>
  <2>1. stage # "done"
    BY <1>3, NoStepWhenDone
  <2>2. ASSUME NEW r \in Readers PROVE WindowInv(r)'
    <3>1. ~Busy(r) /\ WindowInv(r)
      BY <2>1 DEF StoreInv, LoaderInv, ReaderInv
    <3> QED
      BY <1>3, <3>1 DEF WindowInv, Busy, readVars
  <2> QED
    BY <1>1, <1>3, <2>2 DEF StoreInv, readVars
<1>4. CASE DiskStep
  BY <1>4, DiskWindow
<1>5. ASSUME NEW r \in Readers, Request(r) /\ UNCHANGED <<diskVars, ingestVars>>
      PROVE  StoreInv'
  BY <1>5, RequestWindow
<1>6. ASSUME NEW r \in Readers, CallStep(r) PROVE StoreInv'
  BY <1>6, ReadStepWindow
<1> QED
  BY <1>2, <1>3, <1>4, <1>5, <1>6 DEF LoaderNext, loaderVars

LEMMA StoreInvariant == LoaderSpec => []StoreInv
  BY StoreInit, StoreNext, PTL DEF LoaderSpec

(* The file tells its tensors apart by name: of those that do not, a vector   *)
(* may be as long as the matrix it shares a name with, and be transposed.     *)
NamesApart == stage = "done" => DistinctNames

(* The requests of TensorStore.                                               *)
Asked == [r \in Readers |-> IF Busy(r) THEN Candidates(r) ELSE Absent]

LEMMA AskedWhenBusy ==
    ASSUME LoaderInv, NEW r \in Readers
    PROVE  Asked[r] = Absent <=> ~Busy(r)
<1>1. ASSUME Busy(r) PROVE Candidates(r) # Absent
  <2>1. parsed \in Contents
    BY <1>1, InProgress
  <2> DEFINE All == {StoredIn(parsed, t, flipped) :
                       t \in Range(parsed.tensors), flipped \in BOOLEAN}
  <2>2. \A t \in Range(parsed.tensors), flipped \in BOOLEAN : StoredAs(t, flipped) \in All
    BY DEF StoredAs
  <2> HIDE DEF All
  <2>3. ASSUME NEW t \in Range(parsed.tensors)
        PROVE  /\ StoredAs(t, TRUE) \in All
               /\ StoredAs(t, IsTransposedProjection(request[r].name) /\ Len(t.ne) = 2) \in All
    <3> DEFINE flipped == IsTransposedProjection(request[r].name) /\ Len(t.ne) = 2
    <3>1. flipped \in BOOLEAN
      BY DEF IsTransposedProjection
    <3> HIDE DEF flipped
    <3>2. StoredAs(t, flipped) \in All
      BY <2>2, <3>1
    <3>3. StoredAs(t, TRUE) \in All
      BY <2>2
    <3> QED
      BY <3>2, <3>3 DEF flipped
  <2>4. Candidates(r) \subseteq All
    BY <2>3 DEF Candidates
  <2> QED
    BY <2>1, <2>4, StoredAssumption DEF All
<1> QED
  BY <1>1 DEF Asked

(* Bytes are delivered out of the contents on the path during the call: out   *)
(* of one of them where files are only replaced.                              *)
LEMMA DeliveredFromWindow ==
    ASSUME StoreInv, NamesApart, NEW r \in Readers, Filled(r), IsShaped(r)
    PROVE  \E v \in Store!Versions(r), t \in Candidates(r) : Store!IsView(Delivered(r), v, t)
<1>1. /\ LoaderInv /\ WindowInv(r) /\ Busy(r) /\ step[r] = "read"
      /\ files[handle[r]] \in Contents /\ DistinctNames
  BY OpenFiles, InProgress DEF StoreInv, Filled, Busy, NamesApart
<1>2. Sources(r) \subseteq Contents
  BY <1>1 DEF Sources, WindowInv
<1>3. PICK t \in Candidates(r) : Store!IsView(Delivered(r), Sources(r), t)
  <2>1. \A c \in Sources(r) : c.length \in Nat /\ c.length < MaxU64
    BY <1>2, BytesAssumption
  <2>2. \A k \in DOMAIN raw[r] : IsStoredByte(raw[r][k], Sources(r), Start(r) + k)
    BY <1>1 DEF WindowInv
  <2> QED
    BY <1>1, <2>1, <2>2, DeliveredView
<1>4. Sources(r) \in Store!Versions(r)
  BY <1>1, ContentsAssumption DEF Sources, WindowInv, Store!Versions
<1> QED
  BY <1>3, <1>4

(* A call is in progress exactly while its request is pending in TensorStore. *)
AskedInv == \A r \in Readers : Asked[r] = Absent <=> ~Busy(r)

(* The request of a thread that does not move is still pending, or still not. *)
LEMMA AskedStays ==
    ASSUME NEW r \in Readers, step'[r] = step[r], request'[r] = request[r],
           UNCHANGED ingestVars
    PROVE  Asked'[r] = Asked[r]
<1>1. Candidates(r)' = Candidates(r)
  BY SameRequest
<1> QED
  BY <1>1 DEF Asked, Busy

LEMMA AskedOfOne ==
    ASSUME NEW r \in Readers, OnlyReader(r), UNCHANGED ingestVars
    PROVE  Asked' = [Asked EXCEPT ![r] = Asked'[r]]
<1>1. \A q \in Readers \ {r} : Asked'[q] = Asked[q]
  BY AskedStays DEF OnlyReader
<1>2. DOMAIN Asked = Readers /\ DOMAIN Asked' = Readers
  BY DEF Asked
<1>3. Asked' = [q \in Readers |-> Asked'[q]]
  BY DEF Asked
<1>4. Asked = [q \in Readers |-> Asked[q]]
  BY DEF Asked
<1> HIDE DEF Asked
<1> QED
  BY <1>1, <1>2, <1>3, <1>4

LEMMA RequestAsks ==
    ASSUME StoreInv, AskedInv, AskedInv', NEW r \in Readers, Request(r),
           UNCHANGED <<diskVars, ingestVars>>
    PROVE  Store!Ask(r)
<1>1. LoaderInv /\ LoaderInv' /\ PerReader /\ PerReader'
  BY RequestInvariant DEF StoreInv, LoaderInv
<1>2. /\ step[r] = "idle" /\ step'[r] = "open"
      /\ window' = [window EXCEPT ![r] = {ContentOnDisk}]
      /\ reply' = [reply EXCEPT ![r] = Absent]
      /\ OnlyReader(r)
  BY <1>1 DEF Request, Busy, PerReader, OnlyReader
<1>3. Asked[r] = Absent /\ Asked'[r] # Absent
  BY <1>2 DEF AskedInv, Busy
<1>4. Asked' = [Asked EXCEPT ![r] = Asked'[r]]
  BY <1>2, AskedOfOne
<1>5. ContentOnDisk' = ContentOnDisk
  BY DEF ContentOnDisk, OnDisk, diskVars
<1> QED
  BY <1>2, <1>3, <1>4, <1>5 DEF Store!Ask, Asked

LEMMA ReturnAnswers ==
    ASSUME StoreInv, AskedInv, AskedInv', NEW r \in Readers, Busy(r), NEW answer,
           Return(r, answer), UNCHANGED <<diskVars, ingestVars>>,
           \/ answer.error # Absent
           \/ \E v \in Store!Versions(r), t \in Candidates(r) : Store!IsView(answer.bytes, v, t)
    PROVE  Store!Answer(r)
<1>1. PerReader
  BY DEF StoreInv, LoaderInv
<1>2. /\ step'[r] = "idle" /\ reply'[r] = answer
      /\ reply' = [reply EXCEPT ![r] = reply'[r]]
      /\ window' = window /\ OnlyReader(r)
  BY <1>1 DEF Return, PerReader, OnlyReader
<1>3. Asked[r] # Absent /\ Asked[r] = Candidates(r) /\ Asked'[r] = Absent
  BY <1>2 DEF AskedInv, Busy, Asked
<1>4. Asked' = [Asked EXCEPT ![r] = Absent]
  BY <1>2, <1>3, AskedOfOne
<1>5. ContentOnDisk' = ContentOnDisk
  BY DEF ContentOnDisk, OnDisk, diskVars
<1> QED
  BY <1>2, <1>3, <1>4, <1>5 DEF Store!Answer, Asked

(* The other steps of a call are inside it.                                   *)
LEMMA OpenSeekRead ==
    ASSUME StoreInv, NEW r \in Readers, Open(r) \/ Seek(r) \/ ReadSome(r),
           UNCHANGED <<diskVars, ingestVars>>
    PROVE  Asked' = Asked /\ window' = window /\ reply' = reply /\ ContentOnDisk' = ContentOnDisk
<1>1. PerReader
  BY DEF StoreInv, LoaderInv
<1>2. /\ Busy(r) /\ Busy(r)' /\ request' = request /\ window' = window /\ reply' = reply
      /\ OnlyReader(r)
  BY <1>1 DEF Open, Seek, ReadSome, Busy, PerReader, OnlyReader
<1>3. Asked'[r] = Asked[r]
  <2>1. Candidates(r)' = Candidates(r)
    BY <1>2, SameRequest
  <2> QED
    BY <1>2, <2>1 DEF Asked
<1>4. Asked' = [Asked EXCEPT ![r] = Asked[r]]
  BY <1>2, <1>3, AskedOfOne
<1>5. Asked' = Asked
  BY <1>4 DEF Asked
<1> QED
  BY <1>2, <1>5 DEF ContentOnDisk, OnDisk, diskVars

LEMMA ReadStepAnswers ==
    ASSUME StoreInv, AskedInv, AskedInv', NamesApart, NEW r \in Readers, CallStep(r)
    PROVE  \/ Store!Answer(r)
           \/ Asked' = Asked /\ window' = window /\ reply' = reply /\ ContentOnDisk' = ContentOnDisk
<1>1. ReadStep(r) /\ UNCHANGED <<diskVars, ingestVars>>
  BY DEF CallStep
<1>2. CASE \/ OutOfBounds(r) \/ CannotOpen(r) \/ OffsetOverflows(r) \/ UnexpectedEnd(r)
           \/ DigestMismatch(r) \/ WrongLength(r)
  <2>1. PICK kind \in ReadErrorKinds : ReturnError(r, kind)
    BY <1>2 DEF OutOfBounds, CannotOpen, OffsetOverflows, UnexpectedEnd, DigestMismatch,
                WrongLength, Filled, ReadErrorKinds
  <2>2. Busy(r)
    BY <1>2 DEF OutOfBounds, CannotOpen, OffsetOverflows, UnexpectedEnd, DigestMismatch,
                WrongLength, Filled, Busy
  <2> DEFINE answer == [error |-> kind, bytes |-> NoBytes]
  <2>3. Return(r, answer) /\ answer.error # Absent
    BY <2>1, ReadErrorAssumption DEF ReturnError
  <2> HIDE DEF answer
  <2> QED
    BY <1>1, <2>2, <2>3, ReturnAnswers
<1>3. CASE Deliver(r)
  <2> DEFINE answer == [error |-> Absent, bytes |-> Delivered(r)]
  <2>1. /\ Busy(r) /\ Filled(r) /\ IsShaped(r) /\ Return(r, answer)
        /\ answer.bytes = Delivered(r)
    BY <1>3 DEF Deliver, Filled, Busy
  <2> HIDE DEF answer
  <2>2. \E v \in Store!Versions(r), t \in Candidates(r) : Store!IsView(answer.bytes, v, t)
    BY <2>1, DeliveredFromWindow
  <2> QED
    BY <1>1, <2>1, <2>2, ReturnAnswers
<1> QED
  BY <1>1, <1>2, <1>3, OpenSeekRead DEF ReadStep

LEMMA DiskChanges ==
    ASSUME StoreInv, AskedInv, DiskStep
    PROVE  Store!Change
<1>1. /\ UNCHANGED ingestVars /\ UNCHANGED <<step, request, reply>>
      /\ window' = [r \in Readers |->
                      IF Busy(r) THEN window[r] \cup {ContentOnDisk'} ELSE window[r]]
  BY DEF DiskStep, ContentOnDisk, OnDisk
<1>2. Asked' = Asked
  <2>1. \A r \in Readers : Asked'[r] = Asked[r]
    BY <1>1, AskedStays
  <2>2. Asked = [r \in Readers |-> Asked[r]] /\ Asked' = [r \in Readers |-> Asked'[r]]
    BY DEF Asked
  <2> HIDE DEF Asked
  <2> QED
    BY <2>1, <2>2
<1>3. window' = [r \in Readers |->
                   IF Asked[r] = Absent THEN window[r] ELSE window[r] \cup {ContentOnDisk'}]
  BY <1>1 DEF AskedInv
<1> QED
  BY <1>1, <1>2, <1>3 DEF Store!Change, Asked

LEMMA StepSimulates ==
    ASSUME StoreInv, AskedInv, AskedInv', NamesApart, [LoaderNext]_loaderVars
    PROVE  \/ Store!Next
           \/ Asked' = Asked /\ window' = window /\ reply' = reply /\ ContentOnDisk' = ContentOnDisk
<1>1. CASE UNCHANGED loaderVars
  BY <1>1 DEF loaderVars, readVars, diskVars, ingestVars, Asked, Busy, Candidates, StoredAs,
              AsksForDerived, ContentOnDisk, OnDisk
<1>2. CASE IngestStep /\ UNCHANGED <<diskVars, readVars>>
  <2>1. stage # "done"
    BY <1>2, NoStepWhenDone
  <2>2. \A r \in Readers : ~Busy(r)
    BY <2>1 DEF StoreInv, LoaderInv, ReaderInv
  <2>3. step' = step /\ window' = window /\ reply' = reply /\ ContentOnDisk' = ContentOnDisk
    BY <1>2 DEF readVars, diskVars, ContentOnDisk, OnDisk
  <2>4. Asked' = Asked
    BY <2>2, <2>3 DEF Asked, Busy
  <2> QED
    BY <2>3, <2>4
<1>3. CASE DiskStep
  BY <1>3, DiskChanges DEF Store!Next
<1>4. ASSUME NEW r \in Readers, Request(r) /\ UNCHANGED <<diskVars, ingestVars>>
      PROVE  Store!Next
  BY <1>4, RequestAsks DEF Store!Next
<1>5. ASSUME NEW r \in Readers, CallStep(r)
      PROVE  \/ Store!Next
             \/ Asked' = Asked /\ window' = window /\ reply' = reply /\ ContentOnDisk' = ContentOnDisk
  BY <1>5, ReadStepAnswers DEF Store!Next
<1> QED
  BY <1>1, <1>2, <1>3, <1>4, <1>5 DEF LoaderNext

(* Concurrent calls over a file that may be replaced or rewritten under them  *)
(* are, for any number of threads and any contents that name their tensors    *)
(* apart, a store of tensors: each is answered with an error or with the      *)
(* requested tensor in its declared order, out of one content of the file     *)
(* that was on the path meanwhile, or out of several if files are rewritten.  *)
THEOREM LoaderImplementsStore == LoaderSpec /\ []NamesApart => ImplementsTensorStore
<1>1. LoaderInit => Store!Init
  BY DEF LoaderInit, Busy, Store!Init
<1>2. StoreInv => AskedInv
  BY AskedWhenBusy DEF StoreInv, AskedInv
<1>3. StoreInv /\ AskedInv /\ AskedInv' /\ NamesApart /\ [LoaderNext]_loaderVars
         => [Store!Next]_(Store!vars)
  BY StepSimulates DEF Store!vars, Asked
<1> QED
  BY <1>1, <1>2, <1>3, StoreInvariant, PTL DEF LoaderSpec, ImplementsTensorStore, Store!Spec

-----------------------------------------------------------------------------
(* The number of elements of a matrix: the fold over its two sides unrolled.  *)
LEMMA CountOfMatrix ==
    ASSUME NEW ne \in Seq(Nat), Len(ne) = 2
    PROVE  element_count(ne) = CheckedMul(CheckedMul(1, ne[1]), ne[2])
<1> DEFINE Unfolded(g) ==
             [s \in SUBSET (DOMAIN ne) |->
                IF s = {} THEN 1 ELSE CheckedMul(g[s \ {Max(s)}], ne[Max(s)])]
           fold == CHOOSE g : g = Unfolded(g)
           a == CheckedMul(1, ne[1])
           b == CheckedMul(1, ne[2])
           c == CheckedMul(a, ne[2])
           counts == [s \in SUBSET (DOMAIN ne) |->
                        IF s = {} THEN 1 ELSE IF s = {1} THEN a ELSE IF s = {2} THEN b ELSE c]
<1>1. DOMAIN ne = {1, 2} /\ 1 # 2
  OBVIOUS
<1>2. Max({1}) = 1 /\ Max({2}) = 2 /\ Max({1, 2}) = 2
  <2>1. ASSUME NEW S, NEW m \in S, S \subseteq Nat, \A y \in S : m >= y
        PROVE  Max(S) = m
    <3>1. \E x \in S : \A y \in S : x >= y
      BY <2>1
    <3>2. Max(S) \in S /\ \A y \in S : Max(S) >= y
      BY <3>1 DEF Max
    <3>3. Max(S) >= m /\ m >= Max(S)
      BY <2>1, <3>2
    <3>4. Max(S) \in Nat /\ m \in Nat
      BY <2>1, <3>2
    <3> QED
      BY <3>3, <3>4
  <2>2. {1} \subseteq Nat /\ {2} \subseteq Nat /\ {1, 2} \subseteq Nat
    OBVIOUS
  <2>3. /\ 1 \in {1} /\ \A y \in {1} : 1 >= y
        /\ 2 \in {2} /\ \A y \in {2} : 2 >= y
        /\ 2 \in {1, 2} /\ \A y \in {1, 2} : 2 >= y
    OBVIOUS
  <2>4. Max({1}) = 1
    <3>1. \A x \in {1} : x = 1
      OBVIOUS
    <3>2. (CHOOSE x \in {1} : \A y \in {1} : x >= y) \in {1}
      BY <2>3
    <3> QED
      BY <3>1, <3>2 DEF Max
  <2>5. Max({2}) = 2
    BY <2>1, <2>2, <2>3
  <2>6. Max({1, 2}) = 2
    BY <2>1, <2>2, <2>3
  <2> QED
    BY <2>4, <2>5, <2>6
<1>3. SUBSET (DOMAIN ne) = {{}, {1}, {2}, {1, 2}}
  BY <1>1
<1>4. /\ {1} \ {1} = {} /\ {2} \ {2} = {} /\ {1, 2} \ {2} = {1}
      /\ {1} # {} /\ {2} # {} /\ {1, 2} # {} /\ {1, 2} # {1} /\ {1, 2} # {2} /\ {1} # {2}
  BY <1>1
<1> HIDE DEF a, b, c
<1>5. /\ counts[{}] = 1 /\ counts[{1}] = a /\ counts[{2}] = b /\ counts[{1, 2}] = c
  BY <1>3, <1>4
<1>6. counts = Unfolded(counts)
  <2>1. ASSUME NEW s \in SUBSET (DOMAIN ne)
        PROVE  counts[s] = IF s = {} THEN 1 ELSE CheckedMul(counts[s \ {Max(s)}], ne[Max(s)])
    <3> HIDE DEF counts
    <3>1. CASE s = {}
      BY <1>5, <3>1
    <3>2. CASE s = {1}
      BY <1>2, <1>4, <1>5, <3>2 DEF a
    <3>3. CASE s = {2}
      BY <1>2, <1>4, <1>5, <3>3 DEF b
    <3>4. CASE s = {1, 2}
      BY <1>2, <1>4, <1>5, <3>4 DEF c
    <3> QED
      BY <1>3, <3>1, <3>2, <3>3, <3>4
  <2>2. counts = [s \in SUBSET (DOMAIN ne) |-> counts[s]]
    OBVIOUS
  <2> HIDE DEF counts
  <2> QED
    BY <2>1, <2>2
<1> HIDE DEF counts
<1>7. fold = Unfolded(fold)
  BY <1>6
<1>8. element_count(ne) = fold[DOMAIN ne]
  BY DEF element_count, FoldLeft, MapThenFoldSet
<1> HIDE DEF fold
<1>9. fold[{}] = 1
  BY <1>3, <1>7
<1>10. fold[{1}] = a
  <2>1. fold[{1}] = CheckedMul(fold[{1} \ {Max({1})}], ne[Max({1})])
    BY <1>3, <1>4, <1>7
  <2> QED
    BY <1>2, <1>4, <1>9, <2>1 DEF a
<1>11. fold[{1, 2}] = c
  <2>1. fold[{1, 2}] = CheckedMul(fold[{1, 2} \ {Max({1, 2})}], ne[Max({1, 2})])
    BY <1>3, <1>4, <1>7
  <2> QED
    BY <1>2, <1>4, <1>10, <2>1 DEF c
<1> QED
  BY <1>1, <1>8, <1>11 DEF a, c

(* A matrix of a well-formed file is as long as its sides say, however it is  *)
(* stored; also with the sides exchanged.                                     *)
LEMMA MatrixOfFile ==
    ASSUME NEW f, IsParsedTensor(f), IsAccepted(f), Len(f.ne) = 2, f.size \in Nat,
           element_count(f.ne) # Absent,
           f.size = IF f.dtype \in Quantized
                    THEN (element_count(f.ne) \div BlockElements[f.dtype]) * BlockBytes[f.dtype]
                    ELSE element_count(f.ne) * Width[f.dtype]
    PROVE  /\ f.ne[1] \in Nat /\ f.ne[2] \in Nat /\ f.ne[1] * f.ne[2] <= MaxU64
           /\ HeldElementBytes(f) = (f.ne[1] * f.ne[2]) * ElementWidth(f)
<1> DEFINE n == f.ne[1]
           m == f.ne[2]
           count == n * m
<1>1. f.ne \in Seq(Nat) /\ n \in Nat /\ m \in Nat /\ MaxU64 \in Nat /\ count \in Nat
  BY WordAssumption DEF IsParsedTensor
<1>2. element_count(f.ne) = CheckedMul(CheckedMul(1, n), m)
  BY <1>1, CountOfMatrix
<1>3. element_count(f.ne) = count /\ count <= MaxU64
  BY <1>1, <1>2, AbsentAssumption DEF CheckedMul
<1>4. CASE f.dtype \notin Quantized
  BY <1>1, <1>3, <1>4 DEF HeldElementBytes, ElementWidth
<1>5. CASE f.dtype \in Quantized
  <2> DEFINE be == BlockElements[f.dtype]
             bb == BlockBytes[f.dtype]
             blocks == count \div be
             w == Width["F32"]
  <2>1. be \in Nat \ {0} /\ bb \in Nat \ {0} /\ w \in Nat
    BY <1>5, UnitsAssumption, WidthAssumption
  <2>2. Shape(f) = <<m, n>>
    BY <1>1, ReversePair DEF Shape
  <2>3. element_count(Shape(f)) = CheckedMul(CheckedMul(1, m), n)
    <3>1. <<m, n>> \in Seq(Nat) /\ Len(<<m, n>>) = 2 /\ <<m, n>>[1] = m /\ <<m, n>>[2] = n
      BY <1>1
    <3> QED
      BY <2>2, <3>1, CountOfMatrix
  <2>4. element_count(Shape(f)) # Absent /\ element_count(Shape(f)) % be = 0
    BY <1>5 DEF IsAccepted, BadBlocks
  <2>5. element_count(Shape(f)) = count
    <3>1. m * n = n * m
      BY <1>1
    <3> QED
      BY <1>1, <2>3, <2>4, <3>1, AbsentAssumption DEF CheckedMul
  <2> HIDE DEF count, be, bb, n, m, w
  <2>6. blocks \in Nat /\ blocks * be = count
    <3>1. /\ count \div be \in Nat /\ count % be \in Nat
          /\ (count \div be) * be + (count % be) = count
      BY <1>1, <2>1, JoinIndex
    <3>2. count % be = 0
      BY <2>4, <2>5
    <3> QED
      BY <3>1, <3>2, <2>1
  <2> HIDE DEF blocks
  <2>7. f.size = blocks * bb
    BY <1>3, <1>5 DEF blocks, be, bb
  <2>8. (blocks * bb + 0) \div bb = blocks
    <3>1. 0 \in 0 .. bb - 1
      BY <2>1
    <3> QED
      BY <2>1, <2>6, <3>1, SplitIndex
  <2>9. f.size \div bb = blocks
    BY <2>1, <2>6, <2>7, <2>8
  <2>10. HeldElementBytes(f) = blocks * be * w /\ ElementWidth(f) = w
    BY <1>5, <2>9 DEF HeldElementBytes, ElementWidth, be, bb, w
  <2> QED
    BY <1>1, <1>3, <2>6, <2>10 DEF count, n, m
<1> QED
  BY <1>4, <1>5

(* As long as nobody touches the path, it holds what was parsed, every handle *)
(* is open on that, and no call of a well-formed file has failed.             *)
Untouched(r) ==
    /\ handle[r] \in {NoFile, path}
    /\ window[r] \subseteq {ContentOnDisk}
    /\ raw[r] = [k \in DOMAIN raw[r] |-> raw[r][k]]
    /\ reply[r] # Absent /\ WellFormed => reply[r].error = Absent

UntouchedInv ==
    changes = 0 =>
        /\ parsed # Absent => path # NoFile /\ files[path] = parsed
        /\ \A r \in Readers : Untouched(r)

LEMMA UntouchedInit == LoaderInit => UntouchedInv
  BY DEF LoaderInit, Init, IngestInit, UntouchedInv, Untouched, NoBytes

(* What a pending call of a well-formed, untouched file is about.             *)
LEMMA UntouchedCall ==
    ASSUME StoreInv, UntouchedInv, changes = 0, WellFormed, NEW r \in Readers, Busy(r)
    PROVE  \E i \in FromFile :
              /\ InnerRange(r) = RangeOf(tensors[i])
              /\ AsksForDerived(r) => /\ i = EmbeddingAt
                                      /\ tensors[i] = Embedding
                                      /\ derived = DerivedFrom(Embedding)
                                      /\ Len(Embedding.shape) = 2
              /\ ~AsksForDerived(r) => request[r] = tensors[i]
              /\ Addressable(InnerRange(r))
              /\ IsParsedTensor(Tensor(i)) /\ IsAccepted(Tensor(i))
              /\ Tensor(i) \in Range(parsed.tensors)
              /\ Tensor(i).offset \in Nat /\ Tensor(i).size \in Nat
              /\ RequestedLocation(r) = Location(Tensor(i))
              /\ Start(r) = parsed.data_start + Tensor(i).offset /\ Start(r) \in Nat
              /\ parsed.length \in Nat
              /\ Start(r) + Tensor(i).size <= parsed.length
              /\ path # NoFile /\ files[path] = parsed
              /\ stage = "done" /\ DistinctNames
<1>1. /\ LoaderInv /\ ManifestInv /\ stage = "done" /\ parsed \in Contents
      /\ DistinctNames
  BY InProgress DEF StoreInv, LoaderInv, WellFormed
<1>2. PICK i \in FromFile :
         /\ InnerRange(r) = RangeOf(tensors[i])
         /\ AsksForDerived(r) => /\ i = EmbeddingAt
                                 /\ tensors[i] = Embedding
                                 /\ derived = DerivedFrom(Embedding)
                                 /\ Len(Embedding.shape) = 2
         /\ ~AsksForDerived(r) => request[r] = tensors[i]
  BY <1>1, RangeOfFile
<1> DEFINE f == Tensor(i)
<1>3. /\ IsParsedTensor(f) /\ IsAccepted(f) /\ f \in Range(parsed.tensors)
  BY <1>1, Finished DEF Tensor, Range, FromFile
<1>4. f.offset \in Nat /\ f.size \in Nat
  BY <1>3 DEF IsParsedTensor, IsAccepted, MissingRange
<1>5. /\ tensors[i].offset = f.offset /\ tensors[i].size = DeclaredLength(f)
      /\ tensors[i].name \in DOMAIN locations /\ locations[tensors[i].name] = Location(f)
  BY <1>1, EntryLocation
<1>6. Addressable(InnerRange(r)) /\ RequestedLocation(r) = Location(f)
  BY <1>2, <1>5 DEF Addressable, RangeOf, Location, RequestedLocation
<1>7. /\ parsed.length \in Nat /\ parsed.length < MaxU64 /\ parsed.data_start \in Nat
      /\ MaxU64 \in Nat
  BY <1>1, BytesAssumption, WordAssumption
<1>8. parsed.data_start + f.offset + f.size <= parsed.length
  BY <1>3 DEF WellFormed
<1>9. Start(r) = CheckedAdd(parsed.data_start, f.offset)
  BY <1>6 DEF Start, Location
<1> HIDE DEF f
<1>10. Start(r) = parsed.data_start + f.offset
  BY <1>4, <1>7, <1>8, <1>9 DEF CheckedAdd
<1>11. path # NoFile /\ files[path] = parsed
  BY <1>1, ContentsAssumption DEF UntouchedInv
<1> QED
  BY <1>1, <1>2, <1>3, <1>4, <1>6, <1>7, <1>8, <1>10, <1>11 DEF f

(* Nothing such a call meets makes it fail.                                   *)
LEMMA UntouchedSucceeds ==
    ASSUME StoreInv, UntouchedInv, changes = 0, WellFormed, NEW r \in Readers
    PROVE  ~(\/ OutOfBounds(r) \/ CannotOpen(r) \/ OffsetOverflows(r) \/ UnexpectedEnd(r)
             \/ DigestMismatch(r) \/ WrongLength(r))
<1> SUFFICES ASSUME \/ OutOfBounds(r) \/ CannotOpen(r) \/ OffsetOverflows(r) \/ UnexpectedEnd(r)
                    \/ DigestMismatch(r) \/ WrongLength(r)
             PROVE  FALSE
  OBVIOUS
<1>1. /\ Busy(r) /\ LoaderInv /\ ReaderInv(r) /\ WindowInv(r) /\ Untouched(r)
  BY DEF StoreInv, LoaderInv, UntouchedInv, OutOfBounds, CannotOpen, OffsetOverflows,
         UnexpectedEnd, DigestMismatch, WrongLength, Filled, Busy
<1>2. PICK i \in FromFile :
              /\ InnerRange(r) = RangeOf(tensors[i])
              /\ AsksForDerived(r) => /\ i = EmbeddingAt
                                      /\ tensors[i] = Embedding
                                      /\ derived = DerivedFrom(Embedding)
                                      /\ Len(Embedding.shape) = 2
              /\ ~AsksForDerived(r) => request[r] = tensors[i]
              /\ Addressable(InnerRange(r))
              /\ IsParsedTensor(Tensor(i)) /\ IsAccepted(Tensor(i))
              /\ Tensor(i) \in Range(parsed.tensors)
              /\ Tensor(i).offset \in Nat /\ Tensor(i).size \in Nat
              /\ RequestedLocation(r) = Location(Tensor(i))
              /\ Start(r) = parsed.data_start + Tensor(i).offset /\ Start(r) \in Nat
              /\ parsed.length \in Nat
              /\ Start(r) + Tensor(i).size <= parsed.length
              /\ path # NoFile /\ files[path] = parsed
              /\ stage = "done" /\ DistinctNames
  BY <1>1, UntouchedCall
<1> DEFINE f == Tensor(i)
<1>3. CASE OutOfBounds(r) \/ CannotOpen(r) \/ OffsetOverflows(r)
  BY <1>2, <1>3, AbsentAssumption DEF OutOfBounds, CannotOpen, OffsetOverflows
<1>4. CASE UnexpectedEnd(r)
  <2>1. step[r] = "read" /\ Remaining(r) > 0 /\ AtEnd(r)
    BY <1>4 DEF UnexpectedEnd
  <2>2. files[handle[r]] = parsed
    BY <1>1, <1>2, <2>1 DEF ReaderInv, Untouched
  <2>3. RequestedLocation(r).length = f.size
    BY <1>2 DEF Location
  <2>4. PICK k \in 0 .. f.size : DOMAIN raw[r] = 0 .. k - 1 /\ cursor[r] = Start(r) + k
    BY <1>1, <2>1, <2>3 DEF ReaderInv, Reading
  <2>5. k \in Nat /\ Length(raw[r]) = k
    BY <1>2, <2>4, BufferLength
  <2>6. f.size - k > 0 /\ Start(r) + k >= parsed.length
    BY <2>1, <2>2, <2>3, <2>4, <2>5 DEF Remaining, AtEnd
  <2> HIDE DEF f
  <2> QED
    BY <1>2, <2>5, <2>6 DEF f
<1>5. ASSUME Filled(r)
      PROVE  /\ DOMAIN raw[r] = 0 .. f.size - 1
             /\ \A k \in DOMAIN raw[r] : IsStoredByte(raw[r][k], {parsed}, Start(r) + k)
  <2>1. step[r] = "read" /\ DOMAIN raw[r] = 0 .. f.size - 1
    BY <1>1, <1>2, <1>5, FilledRange DEF Filled
  <2>2. Sources(r) \subseteq {parsed}
    <3>1. files[handle[r]] = parsed
      BY <1>1, <1>2, <2>1 DEF ReaderInv, Untouched
    <3>2. window[r] \subseteq {parsed}
      BY <1>1, <1>2 DEF Untouched, ContentOnDisk, OnDisk
    <3> QED
      BY <3>1, <3>2 DEF Sources
  <2>3. \A k \in DOMAIN raw[r] : IsStoredByte(raw[r][k], {parsed}, Start(r) + k)
    BY <1>1, <2>1, <2>2, MoreSources DEF WindowInv
  <2> QED
    BY <2>1, <2>3
<1>6. CASE DigestMismatch(r)
  <2>1. Filled(r) /\ InnerRange(r).digest # Absent /\ InnerRange(r).digest # raw[r]
    BY <1>6 DEF DigestMismatch, Verified
  <2>2. tensors[i].digest = InnerRange(r).digest
    BY <1>2 DEF RangeOf
  <2>3. f.digest = InnerRange(r).digest
    BY <1>1, <1>2, <2>1, <2>2, RangeWithDigest DEF LoaderInv
  <2>4. parsed \in Contents
    BY <1>1, InProgress
  <2>5. f.digest = [k \in 0 .. f.size - 1 |-> Byte(parsed, parsed.data_start + f.offset + k)]
    BY <1>2, <2>1, <2>3, <2>4, BytesAssumption
  <2>6. \A k \in DOMAIN raw[r] : raw[r][k] = Byte(parsed, Start(r) + k)
    BY <1>5, <2>1 DEF IsStoredByte
  <2>7. raw[r] = [k \in DOMAIN raw[r] |-> raw[r][k]]
    BY <1>1 DEF Untouched
  <2>8. DOMAIN raw[r] = 0 .. f.size - 1
    BY <1>5, <2>1
  <2>9. raw[r] = [k \in 0 .. f.size - 1 |-> Byte(parsed, Start(r) + k)]
    BY <2>6, <2>7, <2>8
  <2> QED
    BY <1>2, <2>1, <2>3, <2>5, <2>9
<1>7. CASE WrongLength(r)
  <2>1. Filled(r) /\ ~IsShaped(r)
    BY <1>7 DEF WrongLength
  <2> DEFINE t == StoredAs(f, FALSE)
  <2>2. \A c \in {parsed} : c.length \in Nat /\ c.length < MaxU64
    BY <1>1, InProgress, BytesAssumption
  <2>3. /\ t.width = Width[tensors[i].dtype] /\ t.width \in Nat /\ t.width # 0
        /\ t.length \in Nat /\ t.length < MaxU64
        /\ DOMAIN Converted(r) = 0 .. t.length - 1
    <3>1. t = StoredAs(Tensor(i), FALSE)
      OBVIOUS
    <3>2. \A k \in DOMAIN raw[r] : IsStoredByte(raw[r][k], {parsed}, Start(r) + k)
      BY <1>5, <2>1
    <3> HIDE DEF t
    <3>3. /\ LoaderInv /\ Filled(r) /\ DistinctNames
          /\ InnerRange(r) = RangeOf(tensors[i])
      BY <1>1, <1>2, <2>1
    <3> DEFINE contents == {parsed}
    <3>4. /\ \A c \in contents : c.length \in Nat /\ c.length < MaxU64
          /\ \A k \in DOMAIN raw[r] : IsStoredByte(raw[r][k], contents, Start(r) + k)
      BY <2>2, <3>2
    <3> HIDE DEF contents
    <3> QED
      BY <3>1, <3>3, <3>4, ConvertedInOrder
  <2>4. t.length = HeldElementBytes(f) /\ t.width = ElementWidth(f)
    BY DEF StoredAs, StoredIn
  <2> DEFINE n == f.ne[1]
             m == f.ne[2]
  <2>5. ASSUME Len(f.ne) = 2
        PROVE  /\ n \in Nat /\ m \in Nat /\ n * m <= MaxU64
               /\ t.length = (n * m) * t.width
    <3>1. /\ element_count(f.ne) # Absent
          /\ f.size = IF f.dtype \in Quantized
                      THEN (element_count(f.ne) \div BlockElements[f.dtype]) * BlockBytes[f.dtype]
                      ELSE element_count(f.ne) * Width[f.dtype]
      BY <1>2 DEF WellFormed
    <3> QED
      BY <1>2, <2>4, <2>5, <3>1, MatrixOfFile
  <2>6. ASSUME NEW sd, Len(f.ne) = 2, sd.cols = n, sd.rows = m, sd.width = t.width
        PROVE  IsMatrix(Converted(r), sd)
    <3>1. /\ n \in Nat /\ m \in Nat /\ n * m <= MaxU64
          /\ t.length = (n * m) * t.width
      BY <2>5, <2>6
    <3>2. Length(Converted(r)) = t.length
      BY <2>3, BufferLength
    <3> HIDE DEF n, m, t
    <3>3. m * n = n * m
      BY <3>1
    <3>4. CheckedMul(sd.rows, sd.cols) # Absent
      BY <2>6, <3>1, <3>3, WordAssumption, AbsentAssumption DEF CheckedMul
    <3>5. Length(Converted(r)) = SaturatingMul(sd.rows * sd.cols, sd.width)
      BY <2>3, <2>6, <3>1, <3>2, <3>3, WordAssumption DEF SaturatingMul
    <3> QED
      BY <3>4, <3>5 DEF IsMatrix
  <2>7. ManifestInv /\ IsEntry(Entry(f)) /\ tensors[i] = SwapSides(Entry(f)) /\ f.ne \in Seq(Nat)
    BY <1>1, <1>2, Finished DEF LoaderInv, Declared, IsParsedTensor
  <2>8. ASSUME NeedsTranspose(r)
        PROVE  IsMatrix(Converted(r), sides[InnerRange(r).identity])
    <3> DEFINE sd == sides[InnerRange(r).identity]
    <3>1. InnerRange(r).identity = tensors[i].name
      BY <1>2 DEF RangeOf
    <3>2. tensors[i].shape = <<sd.cols, sd.rows>> /\ sd.width = Width[tensors[i].dtype]
      BY <1>2, <2>7, <2>8, <3>1, FinishedSides DEF SidesMatchManifest, NeedsTranspose
    <3>3. IsSwapped(tensors[i])
      <4>1. DOMAIN sides = {tensors[j].name : j \in {k \in FromFile : IsSwapped(tensors[k])}}
        BY <1>2, <2>7, FinishedSides DEF SidesMatchManifest
      <4>2. PICK j \in FromFile : IsSwapped(tensors[j]) /\ tensors[j].name = tensors[i].name
        BY <2>8, <3>1, <4>1 DEF NeedsTranspose
      <4>3. Canonical(f.name) = Canonical(Tensor(j).name)
        BY <1>2, <2>7, <4>2, EntryLocation
      <4>4. j = i
        BY <1>2, <2>7, <4>3, EntriesApart
      <4> QED
        BY <4>2, <4>4
    <3>4. tensors[i].shape = f.ne
      BY <1>2, <2>7, <3>3, EntryOrientation DEF ManifestInv, DeclaredOrientation, Tensor, IsSwapped
    <3>5. Len(f.ne) = 2 /\ sd.cols = n /\ sd.rows = m /\ sd.width = t.width
      <4>1. sd.width = t.width
        BY <2>3, <3>2
      <4>2. f.ne = <<sd.cols, sd.rows>>
        BY <3>2, <3>4
      <4> HIDE DEF sd, t
      <4> QED
        BY <4>1, <4>2
    <3> HIDE DEF sd, t, n, m
    <3>6. IsMatrix(Converted(r), sd)
      BY <2>6, <3>5
    <3> QED
      BY <3>6 DEF sd
  <2>9. ASSUME AsksForDerived(r)
        PROVE  IsMatrix(Converted(r), derived)
    <3>1. /\ tensors[i] = Embedding /\ Embedding = Entry(f)
          /\ derived = DerivedFrom(Embedding) /\ Len(Embedding.shape) = 2
      BY <1>2, <2>9 DEF Embedding
    <3>2. Embedding.shape = Reverse(f.ne) /\ Len(f.ne) = 2
      <4>1. Embedding.shape = Reverse(f.ne)
        BY <3>1 DEF Entry, Shape
      <4> QED
        BY <2>7, <3>1, <4>1, ReverseType
    <3>3. Embedding.shape = <<m, n>>
      BY <2>7, <3>2, ReversePair
    <3> HIDE DEF t, n, m
    <3>4. derived.rows = m /\ derived.cols = n /\ derived.width = t.width
      <4>1. derived.width = Width[tensors[i].dtype]
        BY <3>1 DEF DerivedFrom
      <4>2. derived.rows = Embedding.shape[1] /\ derived.cols = Embedding.shape[2]
        BY <3>1 DEF DerivedFrom
      <4> QED
        BY <2>3, <3>3, <4>1, <4>2
    <3> QED
      BY <2>6, <3>2, <3>4
  <2> QED
    BY <2>1, <2>8, <2>9 DEF IsShaped
<1> QED
  BY <1>3, <1>4, <1>6, <1>7

(* While ingest runs, it parses what is on the path, and nobody has an answer.*)
LEMMA UntouchedIngest ==
    ASSUME StoreInv, UntouchedInv, IngestStep, UNCHANGED <<diskVars, readVars>>
    PROVE  UntouchedInv'
<1>1. stage # "done"
  BY NoStepWhenDone
<1>2. \A r \in Readers : reply[r] = Absent
  BY <1>1 DEF StoreInv, LoaderInv, ReaderInv
<1>3. /\ changes' = changes /\ path' = path /\ files' = files
      /\ ContentOnDisk' = ContentOnDisk
      /\ UNCHANGED <<handle, window, raw, reply>>
  BY DEF diskVars, readVars, ContentOnDisk, OnDisk
<1>4. parsed' = parsed \/ (path # NoFile /\ parsed' = files[path])
  BY DEF IngestStep, FileMissing, FileMalformed, ParseFile, RefuseTensor, DiscoverTensor,
         NoVocabulary, RefuseConfig, Configure, WrapAndSwap, DeriveLmHead,
         DigestUnreadable, BuildManifest, RefuseName, Fail, OnDisk
<1> QED
  BY <1>2, <1>3, <1>4 DEF UntouchedInv, Untouched

(* A step of one thread.                                                      *)
LEMMA UntouchedReader ==
    ASSUME StoreInv, UntouchedInv, NEW r \in Readers, OnlyReader(r),
           \A q \in Readers \ {r} : window'[q] = window[q],
           UNCHANGED <<diskVars, ingestVars>>, changes = 0 => Untouched(r)'
    PROVE  UntouchedInv'
<1>1. /\ changes' = changes /\ path' = path /\ files' = files /\ parsed' = parsed
      /\ ContentOnDisk' = ContentOnDisk
  BY DEF diskVars, ingestVars, ContentOnDisk, OnDisk
<1>2. WellFormed' = WellFormed
  BY <1>1 DEF WellFormed, DistinctNames, FromFile
<1>3. ASSUME changes = 0, NEW q \in Readers PROVE Untouched(q)'
  <2>1. CASE q = r
    BY <1>3, <2>1
  <2>2. CASE q # r
    <3>1. Untouched(q)
      BY <1>3 DEF UntouchedInv
    <3>2. /\ handle'[q] = handle[q] /\ raw'[q] = raw[q] /\ reply'[q] = reply[q]
          /\ window'[q] = window[q]
      BY <2>2 DEF OnlyReader
    <3> QED
      BY <1>1, <1>2, <3>1, <3>2 DEF Untouched
  <2> QED
    BY <2>1, <2>2
<1> QED
  BY <1>1, <1>3 DEF UntouchedInv

LEMMA UntouchedCallStep ==
    ASSUME StoreInv, UntouchedInv, NEW r \in Readers, CallStep(r)
    PROVE  UntouchedInv'
<1>1. /\ ReadStep(r) /\ UNCHANGED <<diskVars, ingestVars>> /\ PerReader
  BY DEF CallStep, StoreInv, LoaderInv
<1>2. /\ OnlyReader(r) /\ window' = window
  BY <1>1 DEF ReadStep, OutOfBounds, CannotOpen, OffsetOverflows, UnexpectedEnd,
              DigestMismatch, WrongLength, Deliver, ReturnError, Return, Open, Seek, ReadSome,
              OnlyReader, PerReader
<1>3. ContentOnDisk' = ContentOnDisk /\ path' = path /\ WellFormed' = WellFormed
  BY <1>1 DEF diskVars, ingestVars, ContentOnDisk, OnDisk, WellFormed, DistinctNames, FromFile
<1> SUFFICES ASSUME changes = 0 PROVE Untouched(r)'
  BY <1>1, <1>2, UntouchedReader
<1>4. Untouched(r)
  BY DEF UntouchedInv
<1>5. CASE Open(r) \/ Seek(r) \/ ReadSome(r)
  <2>1. /\ reply'[r] = reply[r] /\ handle'[r] \in {handle[r], path}
    BY <1>1, <1>5 DEF Open, Seek, ReadSome, PerReader
  <2>2. raw'[r] = [k \in DOMAIN raw'[r] |-> raw'[r][k]]
    <3>1. CASE Open(r) \/ Seek(r)
      BY <1>4, <3>1 DEF Open, Seek, Untouched
    <3>2. CASE ReadSome(r)
      BY <1>1, <3>2 DEF ReadSome, PerReader
    <3> QED
      BY <1>5, <3>1, <3>2
  <2> QED
    BY <1>2, <1>3, <1>4, <2>1, <2>2 DEF Untouched
<1>6. CASE \/ OutOfBounds(r) \/ CannotOpen(r) \/ OffsetOverflows(r) \/ UnexpectedEnd(r)
           \/ DigestMismatch(r) \/ WrongLength(r)
  <2>1. ~WellFormed
    BY <1>6, UntouchedSucceeds
  <2>2. PICK kind : ReturnError(r, kind)
    BY <1>6 DEF OutOfBounds, CannotOpen, OffsetOverflows, UnexpectedEnd, DigestMismatch,
                WrongLength
  <2>3. handle'[r] = NoFile /\ raw'[r] = NoBytes
    BY <1>1, <2>2 DEF ReturnError, Return, PerReader
  <2> QED
    BY <1>2, <1>3, <1>4, <2>1, <2>3 DEF Untouched, NoBytes
<1>7. CASE Deliver(r)
  <2>1. handle'[r] = NoFile /\ raw'[r] = NoBytes /\ reply'[r].error = Absent
    BY <1>1, <1>7 DEF Deliver, Return, PerReader
  <2> QED
    BY <1>2, <1>3, <1>4, <2>1 DEF Untouched, NoBytes
<1> QED
  BY <1>1, <1>5, <1>6, <1>7 DEF ReadStep

LEMMA UntouchedNext == StoreInv /\ UntouchedInv /\ [LoaderNext]_loaderVars => UntouchedInv'
<1> SUFFICES ASSUME StoreInv, UntouchedInv, [LoaderNext]_loaderVars PROVE UntouchedInv'
  OBVIOUS
<1>1. CASE IngestStep /\ UNCHANGED <<diskVars, readVars>>
  BY <1>1, UntouchedIngest
<1>2. CASE DiskStep
  <2>1. changes \in Nat /\ changes' = changes + 1
    BY <1>2 DEF StoreInv, LoaderInv, ManifestInv, Inv, TypeOK, DiskTypeOK, DiskStep, ChangeDisk
  <2> QED
    BY <2>1 DEF UntouchedInv
<1>3. ASSUME NEW r \in Readers, Request(r) /\ UNCHANGED <<diskVars, ingestVars>>
      PROVE  UntouchedInv'
  <2>1. PerReader /\ DOMAIN window = Readers
    BY DEF StoreInv, LoaderInv
  <2>2. /\ OnlyReader(r) /\ \A q \in Readers \ {r} : window'[q] = window[q]
        /\ handle' = handle /\ raw' = raw /\ reply'[r] = Absent
        /\ window'[r] = {ContentOnDisk}
    BY <1>3, <2>1 DEF Request, OnlyReader, PerReader
  <2>3. ContentOnDisk' = ContentOnDisk /\ path' = path
    BY <1>3 DEF diskVars, ContentOnDisk, OnDisk
  <2>4. changes = 0 => Untouched(r)'
    BY <2>2, <2>3 DEF UntouchedInv, Untouched
  <2> QED
    BY <1>3, <2>2, <2>4, UntouchedReader
<1>4. ASSUME NEW r \in Readers, CallStep(r) PROVE UntouchedInv'
  BY <1>4, UntouchedCallStep
<1>5. CASE UNCHANGED loaderVars
  BY <1>5 DEF loaderVars, readVars, diskVars, ingestVars, UntouchedInv, Untouched, WellFormed,
              DistinctNames, FromFile, ContentOnDisk, OnDisk
<1> QED
  BY <1>1, <1>2, <1>3, <1>4, <1>5 DEF LoaderNext

(* Everything the manifest of a well-formed file lists can be read as long as *)
(* nobody touches the file: for any number of threads, no range is refused,   *)
(* no read ends early, no digest and no length disagrees, derived heads and   *)
(* quantized projections included.                                            *)
THEOREM ManifestCanBeRead == LoaderSpec => []ManifestReadable
<1>1. UntouchedInv => ManifestReadable
  BY DEF UntouchedInv, Untouched, ManifestReadable
<1> QED
  BY <1>1, UntouchedInit, UntouchedNext, StoreInvariant, PTL DEF LoaderSpec

-----------------------------------------------------------------------------
(* What a call has ahead is a number, and changes with its own steps only.    *)
LEMMA StepsLeftType ==
    ASSUME LoaderInv, NEW r \in Readers
    PROVE  StepsLeft(r) \in Nat
<1>1. step[r] \in {"idle", "open", "seek", "read"} /\ ReaderInv(r)
  BY DEF LoaderInv, ReaderInv
<1>2. ASSUME step[r] # "idle", Addressable(InnerRange(r)) PROVE RequestedLocation(r).length \in Nat
  BY <1>2, InProgress DEF Busy
<1>3. CASE step[r] = "read"
  <2>1. Addressable(InnerRange(r)) /\ RequestedLocation(r).length \in Nat
    BY <1>1, <1>2, <1>3 DEF ReaderInv
  <2>2. PICK n \in 0 .. RequestedLocation(r).length : DOMAIN raw[r] = 0 .. n - 1
    BY <1>1, <1>3 DEF ReaderInv, Reading
  <2>3. n \in Nat /\ Length(raw[r]) = n
    BY <2>1, <2>2, BufferLength
  <2> QED
    BY <1>3, <2>1, <2>2, <2>3 DEF StepsLeft, Remaining
<1>4. CASE step[r] = "open"
  BY <1>2, <1>4 DEF StepsLeft
<1>5. CASE step[r] = "seek"
  BY <1>1, <1>2, <1>5 DEF StepsLeft, ReaderInv
<1>6. CASE step[r] = "idle"
  BY <1>6 DEF StepsLeft
<1> QED
  BY <1>1, <1>3, <1>4, <1>5, <1>6

LEMMA StepsLeftKept ==
    ASSUME NEW r \in Readers, UNCHANGED ingestVars, request'[r] = request[r],
           step'[r] = step[r], raw'[r] = raw[r]
    PROVE  StepsLeft(r)' = StepsLeft(r)
<1>1. /\ RequestedLocation(r)' = RequestedLocation(r)
      /\ Addressable(InnerRange(r))' = Addressable(InnerRange(r))
  BY SameRequest
<1>2. Remaining(r)' = Remaining(r)
  BY <1>1 DEF Remaining
<1> QED
  BY <1>1, <1>2 DEF StepsLeft

(* Every step of a call brings it closer to its end.                          *)
LEMMA CallStepAdvances ==
    ASSUME LoaderInv, NEW r \in Readers, CallStep(r)
    PROVE  StepsLeft(r)' < StepsLeft(r)
<1>1. ReadStep(r) /\ UNCHANGED ingestVars /\ PerReader /\ ReaderInv(r)
  BY DEF CallStep, LoaderInv
<1>2. StepsLeft(r) \in Nat
  BY StepsLeftType
<1>3. CASE Open(r)
  <2>1. /\ step[r] = "open" /\ Addressable(InnerRange(r)) /\ step'[r] = "seek"
        /\ request' = request
    BY <1>1, <1>3 DEF Open, PerReader
  <2>2. RequestedLocation(r).length \in Nat
    BY <2>1, InProgress DEF Busy
  <2>3. StepsLeft(r) = RequestedLocation(r).length + 3
    BY <2>1 DEF StepsLeft
  <2>4. StepsLeft(r)' = RequestedLocation(r).length + 2
    BY <1>1, <2>1, SameRequest DEF StepsLeft
  <2> QED
    BY <2>2, <2>3, <2>4
<1>4. CASE Seek(r)
  <2>1. /\ step[r] = "seek" /\ step'[r] = "read" /\ request' = request /\ raw'[r] = NoBytes
    BY <1>1, <1>4 DEF Seek, PerReader, ReaderInv
  <2>2. Addressable(InnerRange(r)) /\ RequestedLocation(r).length \in Nat
    BY <1>1, <2>1, InProgress DEF Busy, ReaderInv
  <2>3. StepsLeft(r) = RequestedLocation(r).length + 2
    BY <2>1 DEF StepsLeft
  <2>4. Length(raw'[r]) = 0
    <3>1. DOMAIN raw'[r] = 0 .. 0 - 1
      BY <2>1 DEF NoBytes
    <3> QED
      BY <3>1, BufferLength
  <2>5. StepsLeft(r)' = RequestedLocation(r).length - 0 + 1
    BY <1>1, <2>1, <2>4, SameRequest DEF StepsLeft, Remaining
  <2> QED
    BY <2>2, <2>3, <2>5
<1>5. CASE ReadSome(r)
  <2>1. step[r] = "read" /\ step' = step /\ request' = request
    BY <1>5 DEF ReadSome
  <2>2. RequestedLocation(r).length \in Nat
    BY <1>5, ReadSomeAmount
  <2>3. PICK k \in Nat, n \in Nat \ {0} : DOMAIN raw[r] = 0 .. k - 1 /\ DOMAIN raw'[r] = 0 .. k + n - 1
    BY <1>5, ReadSomeAmount
  <2>4. Length(raw[r]) = k /\ Length(raw'[r]) = k + n
    <3> DEFINE m == k + n
    <3>1. m \in Nat /\ DOMAIN raw'[r] = 0 .. m - 1
      BY <2>3
    <3> HIDE DEF m
    <3>2. Length(raw'[r]) = m
      BY <3>1, BufferLength
    <3> QED
      BY <2>3, <3>2, BufferLength DEF m
  <2>5. StepsLeft(r) = RequestedLocation(r).length - k + 1
    BY <2>1, <2>4 DEF StepsLeft, Remaining
  <2>6. StepsLeft(r)' = RequestedLocation(r).length - (k + n) + 1
    BY <1>1, <2>1, <2>4, SameRequest DEF StepsLeft, Remaining
  <2> QED
    BY <2>2, <2>3, <2>5, <2>6
<1>6. CASE \/ OutOfBounds(r) \/ CannotOpen(r) \/ OffsetOverflows(r) \/ UnexpectedEnd(r)
           \/ DigestMismatch(r) \/ WrongLength(r) \/ Deliver(r)
  <2>1. step[r] # "idle" /\ \E answer : Return(r, answer)
    BY <1>6 DEF OutOfBounds, CannotOpen, OffsetOverflows, UnexpectedEnd, DigestMismatch,
                WrongLength, Deliver, Filled, ReturnError
  <2>2. StepsLeft(r)' = 0
    BY <1>1, <2>1 DEF Return, PerReader, StepsLeft
  <2>3. StepsLeft(r) > 0
    <3>1. CASE step[r] = "open"
      <4>1. Addressable(InnerRange(r)) => RequestedLocation(r).length \in Nat
        BY <3>1, InProgress DEF Busy
      <4> QED
        BY <3>1, <4>1 DEF StepsLeft
    <3>2. CASE step[r] = "seek"
      <4>1. RequestedLocation(r).length \in Nat
        BY <1>1, <3>2, InProgress DEF Busy, ReaderInv
      <4> QED
        BY <3>2, <4>1 DEF StepsLeft
    <3>3. CASE step[r] = "read"
      <4>1. RequestedLocation(r).length \in Nat
        BY <1>1, <3>3, InProgress DEF Busy, ReaderInv
      <4>2. PICK n \in 0 .. RequestedLocation(r).length : DOMAIN raw[r] = 0 .. n - 1
        BY <1>1, <3>3 DEF ReaderInv, Reading
      <4>3. n \in Nat /\ Length(raw[r]) = n
        BY <4>1, <4>2, BufferLength
      <4> QED
        BY <3>3, <4>1, <4>2, <4>3 DEF StepsLeft, Remaining
    <3> QED
      BY <1>1, <2>1, <3>1, <3>2, <3>3 DEF ReaderInv
  <2> QED
    BY <2>2, <2>3
<1> QED
  BY <1>1, <1>3, <1>4, <1>5, <1>6 DEF ReadStep

(* What other threads, ingest and other programs do leaves a call where it is.*)
LEMMA OthersLeaveCall ==
    ASSUME LoaderInv, [LoaderNext]_loaderVars, NEW r \in Readers, Busy(r), ~CallStep(r)
    PROVE  StepsLeft(r)' = StepsLeft(r)
<1>1. stage = "done" /\ PerReader
  BY InProgress DEF LoaderInv
<1>2. CASE IngestStep /\ UNCHANGED <<diskVars, readVars>>
  BY <1>1, <1>2, NoStepWhenDone
<1>3. CASE DiskStep
  BY <1>3, StepsLeftKept DEF DiskStep
<1>4. ASSUME NEW q \in Readers, Request(q) /\ UNCHANGED <<diskVars, ingestVars>>
      PROVE  StepsLeft(r)' = StepsLeft(r)
  <2>1. q # r
    BY <1>4 DEF Request
  <2>2. request'[r] = request[r] /\ step'[r] = step[r] /\ raw'[r] = raw[r]
    BY <1>1, <1>4, <2>1 DEF Request, PerReader
  <2> QED
    BY <1>4, <2>2, StepsLeftKept
<1>5. ASSUME NEW q \in Readers, CallStep(q)
      PROVE  StepsLeft(r)' = StepsLeft(r)
  <2>1. q # r /\ ReadStep(q) /\ UNCHANGED ingestVars
    BY <1>5 DEF CallStep
  <2>2. request'[r] = request[r] /\ step'[r] = step[r] /\ raw'[r] = raw[r]
    BY <1>1, <2>1 DEF ReadStep, OutOfBounds, CannotOpen, OffsetOverflows, UnexpectedEnd,
                      DigestMismatch, WrongLength, Deliver, ReturnError, Return, Open, Seek,
                      ReadSome, PerReader
  <2> QED
    BY <2>1, <2>2, StepsLeftKept
<1>6. CASE UNCHANGED loaderVars
  BY <1>6, StepsLeftKept DEF loaderVars, readVars
<1> QED
  BY <1>2, <1>3, <1>4, <1>5, <1>6 DEF LoaderNext

(* However many threads read, however little a read gives and whatever is     *)
(* done to the file meanwhile, a call makes no more steps than its range has  *)
(* bytes, and three: the part of CallsReturn that needs no fairness.          *)
THEOREM CallsEndInTime == LoaderSpec => CallsAdvance
<1> DEFINE Counts == \A r \in Readers : StepsLeft(r) \in Nat
<1>1. LoaderInv => Counts
  BY StepsLeftType
<1>2. LoaderInv /\ Counts /\ Counts' /\ [LoaderNext]_loaderVars
      => [\A r \in Readers :
            /\ Busy(r) => StepsLeft(r)' \in Nat /\ StepsLeft(r)' <= StepsLeft(r)
            /\ CallStep(r) => StepsLeft(r)' < StepsLeft(r)]_loaderVars
  <2> SUFFICES ASSUME LoaderInv, Counts, Counts', [LoaderNext]_loaderVars, NEW r \in Readers
               PROVE  /\ Busy(r) => StepsLeft(r)' \in Nat /\ StepsLeft(r)' <= StepsLeft(r)
                      /\ CallStep(r) => StepsLeft(r)' < StepsLeft(r)
    OBVIOUS
  <2>1. StepsLeft(r) \in Nat /\ StepsLeft(r)' \in Nat
    OBVIOUS
  <2>2. CallStep(r) => StepsLeft(r)' < StepsLeft(r)
    BY CallStepAdvances
  <2>3. Busy(r) /\ ~CallStep(r) => StepsLeft(r)' = StepsLeft(r)
    BY OthersLeaveCall
  <2> QED
    BY <2>1, <2>2, <2>3
<1> HIDE DEF Counts
<1> QED
  BY <1>1, <1>2, LoaderInvariant, PTL DEF LoaderSpec, CallsAdvance
=============================================================================
