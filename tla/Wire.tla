-------------------------------- MODULE Wire --------------------------------
(***************************************************************************)
(* How a message of the generated protobuf code travels: it is written as  *)
(* bytes (binary.js, varint.js, utf8.js), something may happen to the      *)
(* bytes on their way, and they are read back.  The writer may be newer    *)
(* than the reader and know a field more in every message; two encodings   *)
(* may be joined, which protobuf reads as one message; and the answer may  *)
(* be cut short.                                                           *)
(*                                                                         *)
(* A message is a function from field numbers to values.  Text is a        *)
(* sequence of UTF-16 code units, as in JavaScript; a nested message that  *)
(* is absent (undefined) is the empty sequence and one that is there a     *)
(* sequence of one message.                                                *)
(***************************************************************************)
EXTENDS Integers, SequencesExt

CONSTANTS
  Bits32,        \* bits of the code's 32-bit numbers
  Bits64,        \* bits of its 64-bit numbers
  ChunkUnits,    \* code units utf8Read collects before it joins them (8192)
  Messages,      \* the messages written, by type: [fields, newer], newer the
                 \* fields only the writer knows, as written: [wire, bytes]
  Seconds        \* the messages joined behind another, by type

ASSUME WireAssumption ==
  /\ {Bits32, Bits64, ChunkUnits} \subseteq Nat \ {0}
  /\ Bits32 < Bits64

VARIABLES
  sent,   \* the messages written, joined in this order
  newer,  \* the field only the writer knows: none, or one
  wire,   \* the bytes
  cut,    \* whether the end of the bytes was lost
  read    \* what was read: nothing yet, or [ok, value, pos]

vars == <<sent, newer, wire, cut, read>>

------------------------------------------------------------------------------
(* The messages of the generated protobuf code: which fields each message  *)
(* has.  A message's encode, decode, fromPartial and createBase functions  *)
(* all follow from the numbers and kinds of its fields: encode writes them *)
(* in this order, decode reads them by number, and a field left out has    *)
(* its kind's default.  A field whose kind is a message's name is nested.  *)

\* Fields of one value, of a list of values, and of a list of numbers packed
\* into one length-delimited field.
One(kind, nums) == {[num |-> n, kind |-> kind, label |-> "one"] : n \in nums}
Many(kind, nums) == {[num |-> n, kind |-> kind, label |-> "many"] : n \in nums}
Packed(kind, nums) ==
  {[num |-> n, kind |-> kind, label |-> "packed"] : n \in nums}

------------------------------------------------------------------------------
(* tx.js: the transactions and their answers.                              *)

MsgDeposit == One("string", {1, 2}) \cup One("bytes", 3 .. 5)
MsgWithdraw ==
  One("string", 7 .. 9 \cup {1}) \cup One("bytes", 2 .. 4)
  \cup One("int64", {10})
MsgTransfer ==
  One("string", {1}) \cup One("bytes", 10 .. 16 \cup {2, 3, 8})
  \cup Many("bytes", 4 .. 6 \cup {17}) \cup One("uint32", {7})
  \cup One("int32", {9}) \cup One("int64", {18})
MsgBatchTransfer ==
  One("string", {1, 6}) \cup One("bytes", {2, 3, 8}) \cup Many("bytes", {4})
  \cup Many("BatchTransferOutput", {5}) \cup One("uint64", {7})
  \cup One("int64", {9})
BatchTransferOutput ==
  One("bytes", 1 .. 3 \cup 6 .. 11) \cup One("uint32", {4})
  \cup One("int32", {5})
MsgDepositResponse == {}
MsgWithdrawResponse == {}
MsgTransferResponse == {}
MsgBatchTransferResponse == {}

------------------------------------------------------------------------------
(* query.js: the queries and their answers.                                *)

QueryCheckNullifierRequest == One("string", {1})
QueryCheckNullifierResponse == One("bool", {1})
QueryCheckNullifiersRequest == Many("string", {1})
QueryNullifierStatus == One("string", {1}) \cup One("bool", {2})
QueryCheckNullifiersResponse == Many("QueryNullifierStatus", {1})
QueryTreeStateRequest == {}
QueryTreeStateResponse ==
  One("string", {1}) \cup One("uint64", {2, 5, 6}) \cup One("uint32", {3})
  \cup One("bool", {4})
QueryCommitmentInfoRequest == One("string", {1})
QueryCommitmentInfoResponse == One("bool", {1}) \cup One("uint64", {2})
QueryPrivacyEventsRequest ==
  One("int64", {1}) \cup One("uint64", {2, 3}) \cup Many("string", {4})
QueryPrivacyEventAttribute == One("string", {1, 2})
QueryPrivacyEvent ==
  One("uint64", {1}) \cup One("int64", {2}) \cup One("string", {3, 4})
  \cup Many("QueryPrivacyEventAttribute", {5})
QueryPrivacyEventsResponse ==
  Many("QueryPrivacyEvent", {1}) \cup One("uint64", {2, 3})
  \cup One("bool", {4})
QueryScanEventsRequest ==
  One("int64", {1}) \cup One("uint64", {2, 3}) \cup Many("string", {4})
QueryScanOutput ==
  One("uint32", {1}) \cup One("string", 2 .. 5) \cup One("bool", {6})
  \cup One("uint64", {7})
QueryScanEvent ==
  One("uint64", {1}) \cup One("int64", {2}) \cup One("string", {3, 4})
  \cup Many("QueryScanOutput", {5}) \cup Many("string", {6})
QueryScanEventsResponse ==
  Many("QueryScanEvent", {1}) \cup One("int64", {2})
  \cup One("uint64", {3, 4}) \cup One("bool", {5}) \cup One("uint32", {6, 7})
QueryMerklePathRequest == One("string", {1})
QueryMerklePathResponse ==
  Many("string", {1}) \cup Packed("uint32", {2}) \cup One("string", {3})
QueryAuditConfigRequest == {}
QueryAuditConfigResponse == One("string", {1, 2}) \cup One("uint64", {3})
QueryDisclosureConfigRequest == {}
QueryDisclosureConfigResponse ==
  One("string", {1}) \cup One("bool", {2}) \cup Many("string", {3, 4})
QueryCircuitConfigRequest == {}
QueryCircuitArtifact == One("string", 1 .. 5)
QueryCircuitConfigResponse ==
  One("string", 1 .. 4 \cup {6, 7}) \cup One("bool", {5})
  \cup Many("QueryCircuitArtifact", {8}) \cup One("CircuitSetIdentity", {9})
QueryReserveRequest == One("string", {1})
QueryReserveResponse == One("string", 1 .. 5) \cup One("bool", {6})
QueryAssetByDenomRequest == One("string", {1})
QueryAssetByDenomResponse ==
  One("AssetRegistryEntryV1", {1}) \cup One("string", {2})
QueryAssetByIDRequest == One("string", {1})
QueryAssetByIDResponse ==
  One("AssetRegistryEntryV1", {1}) \cup One("string", {2})
QueryPrivacyScanRequest ==
  One("PrivacyScanCursorV1", {1}) \cup One("uint32", {2, 3})
  \cup One("uint64", {4}) \cup Many("string", {5})
QueryPrivacyScanResponse ==
  Many("PrivacyScanSummaryV2", {1}) \cup Many("PrivacyScanOutputV2", {2})
  \cup One("PrivacyScanCursorV1", {3}) \cup One("bool", {4})
  \cup One("uint32", {5, 6, 8}) \cup One("uint64", {7, 9})
  \cup One("string", {10})
QueryCommitmentPathsAtRootRequest ==
  Many("string", {1}) \cup One("string", {2}) \cup One("int64", {3})
QueryCommitmentPathAtRoot ==
  One("string", {1}) \cup One("uint64", {2}) \cup Many("string", {3})
  \cup Packed("uint32", {4})
QueryCommitmentPathsAtRootResponse ==
  One("string", {1}) \cup One("int64", {2}) \cup One("uint64", {3})
  \cup Many("QueryCommitmentPathAtRoot", {4})

------------------------------------------------------------------------------
(* genesis.js: the genesis state, and the records the queries share with it.*)

GenesisState ==
  Many("bytes", 1 .. 3) \cup One("bytes", {4})
  \cup One("CircuitSetIdentity", {5}) \cup Many("AssetRegistryEntryV1", {6})
  \cup One("uint64", {7, 15}) \cup Many("PrivacyEventRecordV1", {8})
  \cup Many("PrivacyScanSummaryV2", {9})
  \cup Many("PrivacyScanOutputV2", {10})
  \cup Many("MerkleRootSnapshotV1", {11}) \cup Many("ReserveBalanceV1", {12})
  \cup One("uint32", {13}) \cup One("string", {14})
AssetRegistryEntryV1 == One("string", {1}) \cup One("bytes", {2})
PrivacyScanCursorV1 ==
  One("int64", {1}) \cup One("uint64", {2}) \cup One("uint32", {3})
PrivacyEventAttributeV1 == One("string", {1, 2})
PrivacyEventRecordV1 ==
  One("uint64", {1}) \cup One("int64", {2}) \cup One("bytes", {3})
  \cup One("string", {4}) \cup Many("PrivacyEventAttributeV1", {5})
PrivacyScanSummaryV2 ==
  One("uint64", {1, 11}) \cup One("int64", {2}) \cup One("bytes", {3, 12, 13})
  \cup One("string", 7 .. 10 \cup {4}) \cup Many("bytes", {5})
  \cup One("uint32", {6})
PrivacyScanOutputV2 ==
  One("uint64", {1, 9, 23}) \cup One("int64", {2}) \cup One("uint32", {3, 11})
  \cup One("bytes", 4 .. 8 \cup 13 .. 18 \cup {24, 25}) \cup One("bool", {10})
  \cup One("string", 19 .. 22 \cup {12, 26})
MerkleRootSnapshotV1 ==
  One("bytes", {1}) \cup One("uint64", {2}) \cup One("int64", {3})
ReserveBalanceV1 == One("string", 1 .. 3)
CircuitIdentity == One("string", 1 .. 3)
CircuitSetIdentity == One("string", 1 .. 3) \cup Many("CircuitIdentity", {4})

------------------------------------------------------------------------------
(* batch_feasibility.js: the prototypes of the batch transfer.             *)

BatchTransferWirePrototypeV1 ==
  One("string", {1, 6}) \cup One("bytes", {2, 3, 8}) \cup Many("bytes", {4})
  \cup Many("BatchTransferOutputWirePrototypeV1", {5}) \cup One("uint64", {7})
  \cup One("int64", {9})
BatchTransferOutputWirePrototypeV1 ==
  One("bytes", 1 .. 3 \cup 6 .. 11) \cup One("uint32", {4})
  \cup One("int32", {5})
BatchMinimalEventWirePrototypeV1 ==
  One("bytes", 5 .. 8 \cup {1}) \cup One("string", {2})
  \cup One("uint32", {3, 4}) \cup One("int64", {9})

------------------------------------------------------------------------------
(* Every message by its name.                                             *)

Schema ==
  [MsgDeposit |-> MsgDeposit, MsgWithdraw |-> MsgWithdraw,
   MsgTransfer |-> MsgTransfer, MsgBatchTransfer |-> MsgBatchTransfer,
   BatchTransferOutput |-> BatchTransferOutput,
   MsgDepositResponse |-> MsgDepositResponse,
   MsgWithdrawResponse |-> MsgWithdrawResponse,
   MsgTransferResponse |-> MsgTransferResponse,
   MsgBatchTransferResponse |-> MsgBatchTransferResponse,
   QueryCheckNullifierRequest |-> QueryCheckNullifierRequest,
   QueryCheckNullifierResponse |-> QueryCheckNullifierResponse,
   QueryCheckNullifiersRequest |-> QueryCheckNullifiersRequest,
   QueryNullifierStatus |-> QueryNullifierStatus,
   QueryCheckNullifiersResponse |-> QueryCheckNullifiersResponse,
   QueryTreeStateRequest |-> QueryTreeStateRequest,
   QueryTreeStateResponse |-> QueryTreeStateResponse,
   QueryCommitmentInfoRequest |-> QueryCommitmentInfoRequest,
   QueryCommitmentInfoResponse |-> QueryCommitmentInfoResponse,
   QueryPrivacyEventsRequest |-> QueryPrivacyEventsRequest,
   QueryPrivacyEventAttribute |-> QueryPrivacyEventAttribute,
   QueryPrivacyEvent |-> QueryPrivacyEvent,
   QueryPrivacyEventsResponse |-> QueryPrivacyEventsResponse,
   QueryScanEventsRequest |-> QueryScanEventsRequest,
   QueryScanOutput |-> QueryScanOutput, QueryScanEvent |-> QueryScanEvent,
   QueryScanEventsResponse |-> QueryScanEventsResponse,
   QueryMerklePathRequest |-> QueryMerklePathRequest,
   QueryMerklePathResponse |-> QueryMerklePathResponse,
   QueryAuditConfigRequest |-> QueryAuditConfigRequest,
   QueryAuditConfigResponse |-> QueryAuditConfigResponse,
   QueryDisclosureConfigRequest |-> QueryDisclosureConfigRequest,
   QueryDisclosureConfigResponse |-> QueryDisclosureConfigResponse,
   QueryCircuitConfigRequest |-> QueryCircuitConfigRequest,
   QueryCircuitArtifact |-> QueryCircuitArtifact,
   QueryCircuitConfigResponse |-> QueryCircuitConfigResponse,
   QueryReserveRequest |-> QueryReserveRequest,
   QueryReserveResponse |-> QueryReserveResponse,
   QueryAssetByDenomRequest |-> QueryAssetByDenomRequest,
   QueryAssetByDenomResponse |-> QueryAssetByDenomResponse,
   QueryAssetByIDRequest |-> QueryAssetByIDRequest,
   QueryAssetByIDResponse |-> QueryAssetByIDResponse,
   QueryPrivacyScanRequest |-> QueryPrivacyScanRequest,
   QueryPrivacyScanResponse |-> QueryPrivacyScanResponse,
   QueryCommitmentPathsAtRootRequest |-> QueryCommitmentPathsAtRootRequest,
   QueryCommitmentPathAtRoot |-> QueryCommitmentPathAtRoot,
   QueryCommitmentPathsAtRootResponse |-> QueryCommitmentPathsAtRootResponse,
   GenesisState |-> GenesisState,
   AssetRegistryEntryV1 |-> AssetRegistryEntryV1,
   PrivacyScanCursorV1 |-> PrivacyScanCursorV1,
   PrivacyEventAttributeV1 |-> PrivacyEventAttributeV1,
   PrivacyEventRecordV1 |-> PrivacyEventRecordV1,
   PrivacyScanSummaryV2 |-> PrivacyScanSummaryV2,
   PrivacyScanOutputV2 |-> PrivacyScanOutputV2,
   MerkleRootSnapshotV1 |-> MerkleRootSnapshotV1,
   ReserveBalanceV1 |-> ReserveBalanceV1,
   CircuitIdentity |-> CircuitIdentity,
   CircuitSetIdentity |-> CircuitSetIdentity,
   BatchTransferWirePrototypeV1 |-> BatchTransferWirePrototypeV1,
   BatchTransferOutputWirePrototypeV1 |-> BatchTransferOutputWirePrototypeV1,
   BatchMinimalEventWirePrototypeV1 |-> BatchMinimalEventWirePrototypeV1]

------------------------------------------------------------------------------
(* The writer.                                                             *)

\* Bytes written into the room reserved for them.
Put(length, bytes) ==
  [i \in 1 .. length |-> IF i <= Len(bytes) THEN bytes[i] ELSE 0]

GroupsOf(bits) == (bits + 6) \div 7

\* int64Length, and the thresholds of BinaryWriter.uint32.
VarintLength(n) ==
  1 + Cardinality({k \in 1 .. GroupsOf(Bits64) - 1 : n >= 128 ^ k})

\* writeVarint32 and writeVarint64.
RECURSIVE Varint(_)
Varint(n) ==
  IF n < 128 THEN <<n>> ELSE <<(n % 128) + 128>> \o Varint(n \div 128)

WriteVarint(n) == Put(VarintLength(n), Varint(n))

High(unit) == unit \in 55296 .. 56319
Low(unit) == unit \in 56320 .. 57343
PairAt(text, i) == High(text[i]) /\ i < Len(text) /\ Low(text[i + 1])

RECURSIVE Utf8Length(_, _)
Utf8Length(text, i) ==
  IF i > Len(text) THEN 0
  ELSE IF PairAt(text, i) THEN 4 + Utf8Length(text, i + 2)
  ELSE Utf8Length(text, i + 1) + (IF text[i] < 128 THEN 1
                                  ELSE IF text[i] < 2048 THEN 2 ELSE 3)

\* The n-th group of six bits from the right, as a continuation byte.
Continuation(c, n) == 128 + ((c \div 64 ^ n) % 64)

RECURSIVE Utf8Write(_, _)
Utf8Write(text, i) ==
  IF i > Len(text) THEN <<>>
  ELSE LET c == text[i] IN
    IF c < 128 THEN <<c>> \o Utf8Write(text, i + 1)
    ELSE IF c < 2048
    THEN <<192 + c \div 64, Continuation(c, 0)>> \o Utf8Write(text, i + 1)
    ELSE IF PairAt(text, i)
    THEN LET p == 65536 + (c % 1024) * 1024 + (text[i + 1] % 1024) IN
         <<240 + p \div 64 ^ 3, Continuation(p, 2), Continuation(p, 1),
           Continuation(p, 0)>> \o Utf8Write(text, i + 2)
    ELSE <<224 + c \div 64 ^ 2, Continuation(c, 1), Continuation(c, 0)>>
         \o Utf8Write(text, i + 1)

Numbers == {"uint32", "int32", "uint64", "int64", "bool"}

\* What createBase gives a field.
Default(f) ==
  IF f.label # "one" \/ f.kind \notin Numbers THEN <<>>
  ELSE IF f.kind = "bool" THEN FALSE ELSE 0

\* Whether a field holds a message.
Nested(f) == f.kind \notin Numbers \cup {"string", "bytes"}

WireType(f) == IF f.kind \in Numbers /\ f.label # "packed" THEN 0 ELSE 2

WriteTag(num, type) == WriteVarint((num * 8 + type) % 2 ^ Bits32)

Delimited(bytes) == WriteVarint(Len(bytes)) \o bytes

WriteNumber(kind, v) ==
  CASE kind = "bool" -> IF v THEN <<1>> ELSE <<0>>
    [] kind \in {"uint64", "int64"} \/ (kind = "int32" /\ v < 0) ->
         WriteVarint(v % 2 ^ Bits64)
    [] OTHER -> WriteVarint(v % 2 ^ Bits32)

WriteText(v) ==
  LET length == Utf8Length(v, 1)
  IN  WriteVarint(length) \o Put(length, Utf8Write(v, 1))

\* The fields of a message in the order encode writes them.
FieldOrder ==
  [t \in DOMAIN Schema |->
     [i \in 1 .. Cardinality(Schema[t]) |->
        CHOOSE f \in Schema[t] :
          Cardinality({g \in Schema[t] : g.num < f.num}) = i - 1]]

\* The number a field added to a message would get.
NewNumber(type) ==
  IF Schema[type] = {} THEN 1 ELSE Last(FieldOrder[type]).num + 1

RECURSIVE Encode(_, _, _)
\* A field's encoding: nothing for a default; fork and ldelim for a message.
EncodeField(f, v, more) ==
  LET tag == WriteTag(f.num, WireType(f))
      Value(x) == IF f.kind \in Numbers THEN WriteNumber(f.kind, x)
                  ELSE IF f.kind = "string" THEN WriteText(x)
                  ELSE IF f.kind = "bytes" THEN Delimited(x)
                  ELSE Delimited(Encode(f.kind, x, more))
      Each(s) == [i \in 1 .. Len(s) |-> tag \o Value(s[i])]
  IN  CASE f.label = "packed" ->
             tag \o Delimited(FlattenSeq([i \in 1 .. Len(v) |-> Value(v[i])]))
        [] f.label = "many" \/ Nested(f) -> FlattenSeq(Each(v))
        [] OTHER -> IF v = Default(f) THEN <<>> ELSE tag \o Value(v)

\* encode, by a writer that knows the fields `more` besides.
Encode(type, m, more) ==
  LET order == FieldOrder[type]
  IN  FlattenSeq([i \in 1 .. Len(order) |->
                    EncodeField(order[i], m[order[i].num], more)])
      \o FlattenSeq([i \in 1 .. Len(more) |->
                       WriteTag(NewNumber(type), more[i].wire)
                       \o more[i].bytes])

------------------------------------------------------------------------------
(* The reader: the value read and the place of the next byte.              *)

ReadAs(v, pos) == [ok |-> TRUE, value |-> v, pos |-> pos]
Failed == [ok |-> FALSE, value |-> <<>>, pos |-> 0]

\* Reading goes on behind what was read, unless that failed.
Then(r, Go(_, _)) == IF r.ok THEN Go(r.value, r.pos) ELSE Failed

\* A byte beyond the buffer is undefined, which the bit operations take as 0.
ByteAt(b, i) == IF i <= Len(b) THEN b[i] ELSE 0

\* varint32read and varint64read: at most as many bytes as a 64-bit number
\* takes, the bits beyond the width dropped, the bounds checked at the end.
ReadVarint(b, pos, bits) ==
  LET ends == {k \in 1 .. GroupsOf(Bits64) : ByteAt(b, pos + k - 1) < 128}
      n == Min(ends)
      Group(k) == (b[pos + k - 1] % 128) * 128 ^ (k - 1)
      sum == FoldFunction(+, 0, [k \in 1 .. Min({n, GroupsOf(bits)}) |-> Group(k)])
  IN  IF ends = {} \/ pos + n - 1 > Len(b) THEN Failed
      ELSE ReadAs(sum % 2 ^ bits, pos + n)

Signed(v, bits) == IF v >= 2 ^ (bits - 1) THEN v - 2 ^ bits ELSE v

BitsOf(kind) == IF kind \in {"uint32", "int32"} THEN Bits32 ELSE Bits64

NumberOf(kind, v) ==
  CASE kind = "bool" -> v # 0
    [] kind \in {"int32", "int64"} -> Signed(v, BitsOf(kind))
    [] OTHER -> v

ReadNumber(kind, b, pos) ==
  Then(ReadVarint(b, pos, BitsOf(kind)), LAMBDA v, next : ReadAs(NumberOf(kind, v), next))

ReadBytes(b, pos) ==
  Then(ReadVarint(b, pos, Bits32),
       LAMBDA n, at : IF at + n - 1 > Len(b) THEN Failed
                      ELSE ReadAs(SubSeq(b, at, at + n - 1), at + n))

\* The code units of the character at i, and the bytes it takes.
Character(b, i) ==
  LET t == b[i]
      Six(k) == ByteAt(b, i + k) % 64
      p == (t % 8) * 64 ^ 3 + Six(1) * 64 ^ 2 + Six(2) * 64 + Six(3) - 65536
  IN  IF t < 128 THEN [units |-> <<t>>, width |-> 1]
      ELSE IF t \in 192 .. 223
      THEN [units |-> <<(t % 32) * 64 + Six(1)>>, width |-> 2]
      ELSE IF t >= 240
      THEN [units |-> <<55296 + p \div 1024, 56320 + (p % 1024)>>, width |-> 4]
      ELSE [units |-> <<(t % 16) * 64 ^ 2 + Six(1) * 64 + Six(2)>>, width |-> 3]

\* chunk[i++] = ... over what an earlier chunk left there.
Overwrite(chunk, n, units) ==
  SubSeq(chunk, 1, n) \o units
  \o SubSeq(chunk, n + Len(units) + 1, Len(chunk))

\* utf8Read: n units of the chunk are set; a full chunk is joined to the text.
RECURSIVE Utf8Read(_, _, _, _, _)
Utf8Read(b, i, chunk, n, text) ==
  IF i > Len(b) THEN text \o SubSeq(chunk, 1, n)
  ELSE LET c == Character(b, i)
           next == Overwrite(chunk, n, c.units)
           m == n + Len(c.units)
       IN  IF m >= ChunkUnits
           THEN Utf8Read(b, i + c.width, next, 0, text \o next)
           ELSE Utf8Read(b, i + c.width, next, m, text)

\* BinaryReader.skip without and with a length.
SkipVarint(b, pos) ==
  LET ends == {i \in pos .. Len(b) : b[i] < 128}
  IN  IF ends = {} THEN Failed ELSE ReadAs(<<>>, Min(ends) + 1)

(* mutation: the skip ends at the last byte instead of behind it *)
SkipBytesShort(b, pos, n) ==
  IF pos + n - 1 > Len(b) THEN Failed ELSE ReadAs(<<>>, pos + n - 1)

SkipBytes(b, pos, n) ==
  IF pos + n - 1 > Len(b) THEN Failed ELSE ReadAs(<<>>, pos + n)

RECURSIVE SkipType(_, _, _), SkipGroup(_, _)
SkipType(b, pos, type) ==
  CASE type = 0 -> SkipVarint(b, pos)
    [] type = 1 -> SkipBytes(b, pos, 8)
    [] type = 2 -> Then(ReadVarint(b, pos, Bits32), LAMBDA n, at : SkipBytes(b, at, n))
    [] type = 3 -> SkipGroup(b, pos)
    [] type = 5 -> SkipBytes(b, pos, 4)
    [] OTHER -> Failed
SkipGroup(b, pos) ==
  Then(ReadVarint(b, pos, Bits32),
       LAMBDA tag, at :
         IF tag % 8 = 4 THEN ReadAs(<<>>, at)
         ELSE Then(SkipType(b, at, tag % 8), LAMBDA v, next : SkipGroup(b, next)))

RECURSIVE ReadPacked(_, _, _, _)
ReadPacked(b, pos, end, s) ==
  IF pos > end THEN ReadAs(s, pos)
  ELSE Then(ReadVarint(b, pos, Bits32),
            LAMBDA v, next : ReadPacked(b, next, end, Append(s, v)))

\* createBase: a message with nothing set.
Empty(type) ==
  [n \in {f.num : f \in Schema[type]} |->
     Default(CHOOSE f \in Schema[type] : f.num = n)]

RECURSIVE Decode(_, _, _, _, _)
ReadValue(kind, b, pos) ==
  CASE kind \in Numbers -> ReadNumber(kind, b, pos)
    [] kind = "bytes" -> ReadBytes(b, pos)
    [] kind = "string" ->
         Then(ReadBytes(b, pos),
              LAMBDA bytes, next : ReadAs(Utf8Read(bytes, 1, <<>>, 0, <<>>), next))
    [] OTHER ->
         Then(ReadVarint(b, pos, Bits32),
              LAMBDA n, at : Decode(kind, b, at, at + n - 1, Empty(kind)))

\* One value replaces, a value of a list is appended.
Kept(f, old, v) ==
  IF f.label # "one" THEN Append(old, v) ELSE IF Nested(f) THEN <<v>> ELSE v

\* A known field, and what the message then is.
ReadField(f, b, pos, type, m) ==
  IF f.label = "packed" /\ type = 2
  THEN Then(ReadVarint(b, pos, Bits32),
            LAMBDA n, at : Then(ReadPacked(b, at, at + n - 1, m[f.num]),
                                LAMBDA s, next : ReadAs([m EXCEPT ![f.num] = s], next)))
  ELSE Then(ReadValue(f.kind, b, pos),
            LAMBDA v, next : ReadAs([m EXCEPT ![f.num] = Kept(f, @, v)], next))

SkipField(b, pos, type, m) ==
  Then(SkipType(b, pos, type), LAMBDA v, next : ReadAs(m, next))

\* decode: fields are told apart by their number alone; others are skipped.
Decode(type, b, pos, end, m) ==
  IF pos > end THEN ReadAs(m, pos)
  ELSE Then(ReadVarint(b, pos, Bits32),
            LAMBDA tag, at :
              Then(IF \E f \in Schema[type] : f.num = tag \div 8
                   THEN ReadField(CHOOSE f \in Schema[type] : f.num = tag \div 8,
                                  b, at, tag % 8, m)
                   ELSE SkipField(b, at, tag % 8, m),
                   LAMBDA known, next : Decode(type, b, next, end, known)))

------------------------------------------------------------------------------
(* A message on its way.                                                   *)

Nothing == [ok |-> FALSE, value |-> <<>>, pos |-> -1]

Init ==
  /\ sent = <<>> /\ newer = <<>> /\ wire = <<>> /\ cut = FALSE
  /\ read = Nothing

Write(type, m, more) ==
  /\ sent = <<>>
  /\ sent' = <<[type |-> type, fields |-> m]>>
  /\ newer' = more
  /\ wire' = Encode(type, m, more)
  /\ UNCHANGED <<cut, read>>

\* Another encoding of the same message behind the first.
Join(m) ==
  /\ Len(sent) = 1 /\ read = Nothing /\ ~cut /\ newer = <<>>
  /\ sent' = Append(sent, [sent[1] EXCEPT !.fields = m])
  /\ wire' = wire \o Encode(sent[1].type, m, <<>>)
  /\ UNCHANGED <<newer, cut, read>>

\* The bytes behind the n-th are lost.
Cut(n) ==
  /\ Len(sent) = 1 /\ read = Nothing /\ ~cut /\ n < Len(wire)
  /\ wire' = SubSeq(wire, 1, n)
  /\ cut' = TRUE
  /\ UNCHANGED <<sent, newer, read>>

Read ==
  /\ sent # <<>> /\ read = Nothing
  /\ read' = LET type == sent[1].type
             IN  Decode(type, wire, 1, Len(wire), Empty(type))
  /\ UNCHANGED <<sent, newer, wire, cut>>

Next ==
  \/ \E type \in DOMAIN Messages :
       \E m \in Messages[type] : Write(type, m.fields, m.newer)
  \/ Len(sent) = 1 /\ \E m \in Seconds[sent[1].type] : Join(m)
  \/ \E n \in 0 .. Len(wire) - 1 : Cut(n)
  \/ Read

Spec == Init /\ [][Next]_vars

------------------------------------------------------------------------------
(* Properties.                                                             *)

Done == read # Nothing

\* What is written is what is read, whatever field a newer writer adds to
\* the message and to the messages inside it: lengths reserved and bytes
\* written agree, and numbers and text keep their value.
WrittenIsRead ==
  Done /\ ~cut /\ Len(sent) = 1
    => read.ok /\ read.value = sent[1].fields

\* Of two encodings joined, lists are joined and the later value of every
\* other field counts.
LaterWins ==
  Done /\ Len(sent) = 2
    => /\ read.ok
       /\ \A f \in Schema[sent[1].type] :
            LET first == sent[1].fields[f.num]
                second == sent[2].fields[f.num]
            IN  read.value[f.num] =
                  IF f.label # "one" THEN first \o second
                  ELSE IF second = Default(f) THEN first ELSE second

\* A cut answer is refused, or it was cut between two fields: what is read
\* then are the first fields written and nothing else.
CutIsBetweenFields ==
  Done /\ cut /\ read.ok
    => \A f, g \in Schema[sent[1].type] :
         LET Same(h) == read.value[h.num] = sent[1].fields[h.num]
             Shorter(h) == h.label = "many"
                           /\ IsPrefix(read.value[h.num], sent[1].fields[h.num])
         IN  /\ Same(f) \/ Shorter(f) \/ read.value[f.num] = Default(f)
             /\ ~Same(f) /\ g.num > f.num => read.value[g.num] = Default(g)

\* What was sent is what is understood.
WireKeepsMeaning == WrittenIsRead /\ LaterWins /\ CutIsBetweenFields
==============================================================================
