------------------------------- MODULE PbCodec -------------------------------
(***************************************************************************)
(* The gogo-protobuf codec generated in src/msg/pb/pb.pb.go for the       *)
(* messages Label, Point, Series, LabelValuesResponse and GeneralResponse, *)
(* and in src/msg/pb/admin.pb.go for AdminCmdRequest (a oneof of the empty *)
(* messages Info and JoinCluster).  Each file has its own copy of the      *)
(* varint, skip and error definitions (ErrIntOverflowPb and                *)
(* ErrIntOverflowAdmin, ...); the copies are identical and one error name  *)
(* stands for both.                                                        *)
(*                                                                         *)
(* Marshal, MarshalTo, Size, encodeVarintPb, sovPb, sozPb, every           *)
(* Unmarshal and skipPb are operators over byte sequences.  Go's uint64    *)
(* and int (int64 on the 64-bit build) are words of W bits and int32 is a  *)
(* word of H bits; every addition, shift and conversion of the code wraps  *)
(* at those widths.  The varint loops stop at "shift >= W", so at W = 15   *)
(* the last varint byte carries one bit, as the tenth one does at W = 64.  *)
(* A float64 field is the 8 little-endian bytes Float64bits gives it.      *)
(*                                                                         *)
(* An index is 0-based like iNdEx: dAtA[i] is d[i + 1].  A result is a     *)
(* record whose err is "none" or the error returned; "panic" is a run-time *)
(* panic of the Go code (a negative index or an inverted slice).           *)
(*                                                                         *)
(* The state machine feeds the decoders: data grows one fragment from      *)
(* Chunks at a time, and the properties decode every prefix as each type.  *)
(***************************************************************************)
EXTENDS Integers, Sequences, SequencesExt

CONSTANTS
    W,          \* bits of uint64 and int
    H,          \* bits of int32 (StatusCode, fieldNum)
    Chunks,     \* byte strings the input is built from
    MaxChunks,  \* bound on the fragments of one input
    UnknownFields \* well-formed fields of numbers no message has

ASSUME /\ W \in 8..30 /\ H \in 4..W
       /\ MaxChunks \in Nat

VARIABLES data, fed
vars == <<data, fed>>

Byte == 0..255
Word == 2^W

\* uint64(x): the low W bits.
UInt(x) == x % Word

\* The two's-complement reading of the low n bits of x.
Signed(x, n) == LET u == x % 2^n IN IF u >= 2^(n - 1) THEN u - 2^n ELSE u

GoInt(x) == Signed(x, W)
GoInt32(x) == Signed(x, H)

\* a + b on Go ints, wrapping at W bits.
AddInt(a, b) == GoInt(a + b)

Fail(e) == [err |-> e]
Ok(r) == r.err = "none"

AdminTypes == {"AdminCmdRequest", "Info", "JoinCluster"}

Types == {"Label", "Point", "Series", "LabelValuesResponse", "GeneralResponse"} \cup AdminTypes

Zero64 == <<0, 0, 0, 0, 0, 0, 0, 0>>

\* m.V != 0 is false for +0.0 and -0.0, the bit patterns with only the
\* sign bit (bit 63, the top bit of the last byte) possibly set.
IsZero64(v) == v = Zero64 \/ v = [Zero64 EXCEPT ![8] = 128]

Empty == [Label |-> [Name |-> <<>>, Value |-> <<>>],
          Point |-> [T |-> 0, V |-> Zero64],
          Series |-> [Labels |-> <<>>, Points |-> <<>>],
          LabelValuesResponse |-> [Values |-> <<>>, Status |-> 0, ErrorMsg |-> <<>>],
          GeneralResponse |-> [Status |-> 0, Message |-> <<>>],
          AdminCmdRequest |-> [Command |-> "nil"],
          Info |-> <<>>,           \* struct{}
          JoinCluster |-> <<>>]

-----------------------------------------------------------------------------
(* Encoding *)

\* Mutant: the loop condition v > 1<<7 leaves 128 as a single byte with
\* the continuation bit set.
RECURSIVE encodeVarintPbOffByOne(_)
encodeVarintPbOffByOne(v) ==
    IF v > 128 THEN <<(v % 128) + 128>> \o encodeVarintPbOffByOne(v \div 128) ELSE <<v>>

RECURSIVE encodeVarintPb(_)
encodeVarintPb(v) ==
    IF v >= 128 THEN <<(v % 128) + 128>> \o encodeVarintPb(v \div 128) ELSE <<v>>

RECURSIVE sovPb(_)
sovPb(x) == IF x \div 128 = 0 THEN 1 ELSE 1 + sovPb(x \div 128)

\* (uint64(t) << 1) ^ uint64(t >> 63): the xor with all ones for t < 0.
ZigZag(t) == IF t < 0 THEN Word - 1 - UInt(2 * t) ELSE UInt(2 * t)

sozPb(x) == sovPb(ZigZag(x))

\* n += 1 + l + sovPb(uint64(l)) for a length-delimited field of length l.
FieldSize(l) == 1 + l + sovPb(l)

\* A string field written only when it is not empty.
StringBytes(tag, s) ==
    IF Len(s) > 0 THEN <<tag>> \o encodeVarintPb(Len(s)) \o s ELSE <<>>

SizeLabel(m) ==
    (IF Len(m.Name) > 0 THEN FieldSize(Len(m.Name)) ELSE 0)
  + (IF Len(m.Value) > 0 THEN FieldSize(Len(m.Value)) ELSE 0)

SizePoint(m) ==
    (IF m.T # 0 THEN 1 + sozPb(m.T) ELSE 0)
  + (IF ~IsZero64(m.V) THEN 9 ELSE 0)

SizeSeries(m) ==
    FoldLeft(LAMBDA n, e : n + FieldSize(SizeLabel(e)), 0, m.Labels)
  + FoldLeft(LAMBDA n, e : n + FieldSize(SizePoint(e)), 0, m.Points)

SizeLabelValuesResponse(m) ==
    FoldLeft(LAMBDA n, s : n + FieldSize(Len(s)), 0, m.Values)
  + (IF m.Status # 0 THEN 1 + sovPb(UInt(m.Status)) ELSE 0)
  + (IF Len(m.ErrorMsg) > 0 THEN FieldSize(Len(m.ErrorMsg)) ELSE 0)

SizeGeneralResponse(m) ==
    (IF m.Status # 0 THEN 1 + sovPb(UInt(m.Status)) ELSE 0)
  + (IF Len(m.Message) > 0 THEN FieldSize(Len(m.Message)) ELSE 0)

MarshalToLabel(m) == StringBytes(10, m.Name) \o StringBytes(18, m.Value)

MarshalToPoint(m) ==
    (IF m.T # 0 THEN <<8>> \o encodeVarintPb(ZigZag(m.T)) ELSE <<>>)
 \o (IF ~IsZero64(m.V) THEN <<17>> \o m.V ELSE <<>>)

\* Each element: its tag, msg.Size() as the length prefix, then the bytes
\* msg.MarshalTo actually wrote (i += n).
MarshalToSeries(m) ==
    FoldLeft(LAMBDA b, e : b \o <<10>> \o encodeVarintPb(SizeLabel(e)) \o MarshalToLabel(e),
             <<>>, m.Labels)
 \o FoldLeft(LAMBDA b, e : b \o <<18>> \o encodeVarintPb(SizePoint(e)) \o MarshalToPoint(e),
             <<>>, m.Points)

\* Every element of Values is written, the empty string included; the
\* varint loop is inlined in the code and does what encodeVarintPb does.
MarshalToLabelValuesResponse(m) ==
    FoldLeft(LAMBDA b, s : b \o <<10>> \o encodeVarintPb(Len(s)) \o s, <<>>, m.Values)
 \o (IF m.Status # 0 THEN <<16>> \o encodeVarintPb(UInt(m.Status)) ELSE <<>>)
 \o StringBytes(26, m.ErrorMsg)

MarshalToGeneralResponse(m) ==
    (IF m.Status # 0 THEN <<8>> \o encodeVarintPb(UInt(m.Status)) ELSE <<>>)
 \o StringBytes(18, m.Message)

\* Info and JoinCluster have no fields: Size 0, MarshalTo writes nothing.
encodeVarintAdmin(v) == encodeVarintPb(v)
sovAdmin(x) == sovPb(x)

\* The oneof: the Size of AdminCmdRequest_Info or _JoinCluster, whose
\* pointer is never nil in a decoded message.
SizeAdminCmdRequest(m) == IF m.Command # "nil" THEN 1 + 0 + sovAdmin(0) ELSE 0

MarshalToAdminCmdRequest(m) ==
    CASE m.Command = "Info" -> <<10>> \o encodeVarintAdmin(0)
      [] m.Command = "JoinCluster" -> <<18>> \o encodeVarintAdmin(0)
      [] OTHER -> <<>>

Size(T, m) ==
    CASE T = "Label" -> SizeLabel(m)
      [] T = "Point" -> SizePoint(m)
      [] T = "Series" -> SizeSeries(m)
      [] T = "LabelValuesResponse" -> SizeLabelValuesResponse(m)
      [] T = "GeneralResponse" -> SizeGeneralResponse(m)
      [] T = "AdminCmdRequest" -> SizeAdminCmdRequest(m)
      [] T \in {"Info", "JoinCluster"} -> 0

\* Marshal allocates m.Size() bytes and returns dAtA[:n]; MarshalTo
\* writing past the allocation panics.
AllocMarshal(b, size) ==
    IF Len(b) > size THEN Fail("panic") ELSE [err |-> "none", val |-> b]

MarshalLabel(m) == AllocMarshal(MarshalToLabel(m), SizeLabel(m))
MarshalPoint(m) == AllocMarshal(MarshalToPoint(m), SizePoint(m))
MarshalSeries(m) == AllocMarshal(MarshalToSeries(m), SizeSeries(m))
MarshalLabelValuesResponse(m) ==
    AllocMarshal(MarshalToLabelValuesResponse(m), SizeLabelValuesResponse(m))
MarshalGeneralResponse(m) == AllocMarshal(MarshalToGeneralResponse(m), SizeGeneralResponse(m))
MarshalAdminCmdRequest(m) == AllocMarshal(MarshalToAdminCmdRequest(m), SizeAdminCmdRequest(m))
MarshalEmpty(m) == AllocMarshal(<<>>, 0)

Marshal(T, m) ==
    CASE T = "Label" -> MarshalLabel(m)
      [] T = "Point" -> MarshalPoint(m)
      [] T = "Series" -> MarshalSeries(m)
      [] T = "LabelValuesResponse" -> MarshalLabelValuesResponse(m)
      [] T = "GeneralResponse" -> MarshalGeneralResponse(m)
      [] T = "AdminCmdRequest" -> MarshalAdminCmdRequest(m)
      [] T \in {"Info", "JoinCluster"} -> MarshalEmpty(m)

-----------------------------------------------------------------------------
(* Decoding *)

\* The varint loop every Unmarshal and skipPb repeats: overflow once shift
\* reaches the word, EOF at the end of the data, bits shifted out dropped.
\* A negative iNdEx makes dAtA[iNdEx] panic.
RECURSIVE VarintLoop(_, _, _, _)
VarintLoop(d, i, shift, acc) ==
    IF shift >= W THEN Fail("ErrIntOverflow")
    ELSE IF i >= Len(d) THEN Fail("ErrUnexpectedEOF")
    ELSE IF i < 0 THEN Fail("panic")
    ELSE LET b == d[i + 1]
             v == UInt(acc + (b % 128) * 2^shift)
         IN  IF b < 128 THEN [err |-> "none", val |-> v, next |-> i + 1]
             ELSE VarintLoop(d, i + 1, shift + 7, v)

Varint(d, i) == VarintLoop(d, i, 0, 0)

\* A length-delimited field: the length as an int, rejected when negative,
\* postIndex := iNdEx + length with int wraparound and only the check
\* postIndex > l; dAtA[iNdEx:postIndex] panics when postIndex < iNdEx.
Delimited(d, n) ==
    LET length == GoInt(n.val)
        postIndex == AddInt(n.next, length)
    IN  CASE ~Ok(n) -> n
          [] length < 0 -> Fail("ErrInvalidLength")
          [] postIndex > Len(d) -> Fail("ErrUnexpectedEOF")
          [] postIndex < n.next -> Fail("panic")
          [] OTHER -> [err |-> "none", val |-> SubSeq(d, n.next + 1, postIndex),
                       next |-> postIndex]

LengthDelimited(d, i) == Delimited(d, Varint(d, i))

\* (v >> 1) ^ uint64((int64(v&1) << 63) >> 63), then m.T = int64(v).
UnZigZag(v) == GoInt(IF v % 2 = 1 THEN Word - 1 - v \div 2 ELSE v \div 2)

RECURSIVE skipPb(_)
RECURSIVE SkipGroup(_, _)

\* Mutant: the group case returns after its first inner field instead of
\* looping to the end group tag.
SkipGroupNoLoop(d, start) ==
    LET inner == Varint(d, start)
        next == skipPb(SubSeq(d, start + 1, Len(d)))
    IN  CASE ~Ok(inner) -> inner
          [] inner.val % 8 = 4 -> [err |-> "none", val |-> inner.next]
          [] ~Ok(next) -> next
          [] OTHER -> [err |-> "none", val |-> AddInt(start, next.val)]

\* skipPb(dAtA) returns the length of the field at the start of dAtA.  Its
\* callers never pass an empty slice, so panic("unreachable") is omitted.
skipPb(d) ==
    LET key == Varint(d, 0)
        i == key.next
        wireType == key.val % 8
        v == Varint(d, i)
        length == GoInt(v.val)
    IN  CASE ~Ok(key) -> key
          [] wireType = 0 -> IF Ok(v) THEN [err |-> "none", val |-> v.next] ELSE v
          [] wireType = 1 -> [err |-> "none", val |-> AddInt(i, 8)]
          [] wireType = 2 -> CASE ~Ok(v) -> v
                               [] length < 0 -> Fail("ErrInvalidLength")
                               [] OTHER -> [err |-> "none", val |-> AddInt(v.next, length)]
          [] wireType = 3 -> SkipGroup(d, i)
          [] wireType = 4 -> [err |-> "none", val |-> i]
          [] wireType = 5 -> [err |-> "none", val |-> AddInt(i, 4)]
          [] OTHER -> Fail("illegalWireType")

\* The group loop of skipPb: skip inner fields, from start, until an end
\* group tag; iNdEx = start + next wraps like any int.
SkipGroup(d, start) ==
    LET inner == Varint(d, start)
        next == skipPb(SubSeq(d, start + 1, Len(d)))
    IN  CASE ~Ok(inner) -> inner
          [] inner.val % 8 = 4 -> [err |-> "none", val |-> inner.next]
          [] ~Ok(next) -> next
          [] OTHER -> SkipGroup(d, AddInt(start, next.val))

\* skipAdmin is skipPb copied line for line.
skipAdmin(d) == skipPb(d)

\* The default case of every Unmarshal of type T: skip an unknown field at
\* preIndex with the skip function of T's file.
Skipped(d, preIndex, skippy) ==
    CASE ~Ok(skippy) -> skippy
      [] skippy.val < 0 -> Fail("ErrInvalidLength")
      [] AddInt(preIndex, skippy.val) > Len(d) -> Fail("ErrUnexpectedEOF")
      [] OTHER -> [err |-> "none", next |-> AddInt(preIndex, skippy.val)]

SkipField(T, d, preIndex) ==
    Skipped(d, preIndex, IF T \in AdminTypes THEN skipAdmin(SubSeq(d, preIndex + 1, Len(d)))
                         ELSE skipPb(SubSeq(d, preIndex + 1, Len(d))))

\* Field fld of m set to x; a repeated field (Values, Labels, Points) gets
\* x appended, as m.Values = append(m.Values, ...) does.
Repeated == {"Values", "Labels", "Points"}

Put(m, fld, x) ==
    IF fld \in Repeated THEN [m EXCEPT ![fld] = Append(@, x)] ELSE [m EXCEPT ![fld] = x]

\* A field decoded into field fld of m, or the error on the way.
Decoded(r, m, fld) ==
    IF Ok(r) THEN [err |-> "none", msg |-> Put(m, fld, r.val), next |-> r.next] ELSE r

StringField(wireType, d, i, m, fld) ==
    IF wireType # 2 THEN Fail("wrongWireType") ELSE Decoded(LengthDelimited(d, i), m, fld)

\* A varint field of type int32 (StatusCode): m.Status = 0, then the low H
\* bits of the varint accumulated with int32 shifts.
Int32Field(wireType, d, i, m, fld) ==
    LET v == Varint(d, i) IN
    IF wireType # 0 THEN Fail("wrongWireType")
    ELSE Decoded(IF Ok(v) THEN [v EXCEPT !.val = GoInt32(v.val)] ELSE v, m, fld)

LabelField(fieldNum, wireType, d, i, m) ==
    CASE fieldNum = 1 -> StringField(wireType, d, i, m, "Name")
      [] fieldNum = 2 -> StringField(wireType, d, i, m, "Value")
      [] OTHER -> Fail("unknownField")

PointField(fieldNum, wireType, d, i, m) ==
    LET v == Varint(d, i) IN
    CASE fieldNum = 1 /\ wireType # 0 -> Fail("wrongWireType")
      [] fieldNum = 1 -> Decoded(IF Ok(v) THEN [v EXCEPT !.val = UnZigZag(v.val)] ELSE v, m, "T")
      [] fieldNum = 2 /\ wireType # 1 -> Fail("wrongWireType")
      [] fieldNum = 2 /\ i + 8 > Len(d) -> Fail("ErrUnexpectedEOF")
      [] fieldNum = 2 -> [err |-> "none", msg |-> [m EXCEPT !.V = SubSeq(d, i + 1, i + 8)],
                          next |-> i + 8]
      [] OTHER -> Fail("unknownField")

LabelValuesResponseField(fieldNum, wireType, d, i, m) ==
    CASE fieldNum = 1 -> StringField(wireType, d, i, m, "Values")
      [] fieldNum = 2 -> Int32Field(wireType, d, i, m, "Status")
      [] fieldNum = 3 -> StringField(wireType, d, i, m, "ErrorMsg")
      [] OTHER -> Fail("unknownField")

GeneralResponseField(fieldNum, wireType, d, i, m) ==
    CASE fieldNum = 1 -> Int32Field(wireType, d, i, m, "Status")
      [] fieldNum = 2 -> StringField(wireType, d, i, m, "Message")
      [] OTHER -> Fail("unknownField")

\* The switch on the field number of a message of type T.
RECURSIVE FieldOf(_, _, _, _, _, _)

\* The loop of every Unmarshal, split at its reads: at preIndex = i,
\* stop at the end (iNdEx > l after the loop is EOF), read the key, reject
\* an end group and a field number <= 0 (int32(wire >> 3)), decode a known
\* field through the switch of T, skip an unknown one, and loop.
RECURSIVE UnmarshalFrom(_, _, _, _), AfterKey(_, _, _, _, _), AfterField(_, _, _, _, _),
          AfterSkip(_, _, _, _)
UnmarshalFrom(T, d, i, m) ==
    CASE i > Len(d) -> Fail("ErrUnexpectedEOF")
      [] i = Len(d) -> [err |-> "none", msg |-> m]
      [] OTHER -> AfterKey(T, d, i, m, Varint(d, i))

AfterKey(T, d, i, m, key) ==
    CASE ~Ok(key) -> key
      [] key.val % 8 = 4 -> Fail("endGroup")
      [] GoInt32(key.val \div 8) <= 0 -> Fail("illegalTag")
      [] OTHER -> AfterField(T, d, i, m,
                      FieldOf(T, GoInt32(key.val \div 8), key.val % 8, d, key.next, m))

AfterField(T, d, i, m, f) ==
    CASE f.err = "unknownField" -> AfterSkip(T, d, m, SkipField(T, d, i))
      [] Ok(f) -> UnmarshalFrom(T, d, f.next, f.msg)
      [] OTHER -> f

AfterSkip(T, d, m, skip) == IF Ok(skip) THEN UnmarshalFrom(T, d, skip.next, m) ELSE skip

\* Each Unmarshal starts at iNdEx = 0 on the zero message.
UnmarshalLabel(d) == UnmarshalFrom("Label", d, 0, Empty.Label)
UnmarshalPoint(d) == UnmarshalFrom("Point", d, 0, Empty.Point)
UnmarshalLabelValuesResponse(d) ==
    UnmarshalFrom("LabelValuesResponse", d, 0, Empty.LabelValuesResponse)
UnmarshalGeneralResponse(d) == UnmarshalFrom("GeneralResponse", d, 0, Empty.GeneralResponse)
UnmarshalInfo(d) == UnmarshalFrom("Info", d, 0, Empty.Info)
UnmarshalJoinCluster(d) == UnmarshalFrom("JoinCluster", d, 0, Empty.JoinCluster)

\* An embedded Label or Point (type E): append the zero value, then
\* Unmarshal the bytes dAtA[iNdEx:postIndex] into it; its error is the
\* caller's.
\* The sub-message sub decoded from the slice s into field fld of m.
Nested(m, fld, s, sub) ==
    IF Ok(sub) THEN [err |-> "none", msg |-> Put(m, fld, sub.msg), next |-> s.next] ELSE sub

EmbeddedSlice(E, m, fld, s) ==
    IF ~Ok(s) THEN s
    ELSE Nested(m, fld, s, IF E = "Label" THEN UnmarshalLabel(s.val) ELSE UnmarshalPoint(s.val))

EmbeddedField(E, wireType, d, i, m, fld) ==
    IF wireType # 2 THEN Fail("wrongWireType") ELSE EmbeddedSlice(E, m, fld, LengthDelimited(d, i))

SeriesField(fieldNum, wireType, d, i, m) ==
    CASE fieldNum = 1 -> EmbeddedField("Label", wireType, d, i, m, "Labels")
      [] fieldNum = 2 -> EmbeddedField("Point", wireType, d, i, m, "Points")
      [] OTHER -> Fail("unknownField")

\* A oneof case V of AdminCmdRequest: v := &V{}, v.Unmarshal of the bytes,
\* then m.Command = &AdminCmdRequest_V{v}, replacing an earlier case.
OneofSet(V, m, s, sub) ==
    IF Ok(sub) THEN [err |-> "none", msg |-> [m EXCEPT !.Command = V], next |-> s.next] ELSE sub

OneofSlice(V, m, s) ==
    IF ~Ok(s) THEN s
    ELSE OneofSet(V, m, s, IF V = "Info" THEN UnmarshalInfo(s.val) ELSE UnmarshalJoinCluster(s.val))

OneofField(V, wireType, d, i, m) ==
    IF wireType # 2 THEN Fail("wrongWireType") ELSE OneofSlice(V, m, LengthDelimited(d, i))

AdminCmdRequestField(fieldNum, wireType, d, i, m) ==
    CASE fieldNum = 1 -> OneofField("Info", wireType, d, i, m)
      [] fieldNum = 2 -> OneofField("JoinCluster", wireType, d, i, m)
      [] OTHER -> Fail("unknownField")

\* Info and JoinCluster: a switch with only the default case.
EmptyField(fieldNum, wireType, d, i, m) == Fail("unknownField")

FieldOf(T, fieldNum, wireType, d, i, m) ==
    CASE T = "Label" -> LabelField(fieldNum, wireType, d, i, m)
      [] T = "Point" -> PointField(fieldNum, wireType, d, i, m)
      [] T = "Series" -> SeriesField(fieldNum, wireType, d, i, m)
      [] T = "LabelValuesResponse" -> LabelValuesResponseField(fieldNum, wireType, d, i, m)
      [] T = "GeneralResponse" -> GeneralResponseField(fieldNum, wireType, d, i, m)
      [] T = "AdminCmdRequest" -> AdminCmdRequestField(fieldNum, wireType, d, i, m)
      [] T \in {"Info", "JoinCluster"} -> EmptyField(fieldNum, wireType, d, i, m)

UnmarshalSeries(d) == UnmarshalFrom("Series", d, 0, Empty.Series)
UnmarshalAdminCmdRequest(d) == UnmarshalFrom("AdminCmdRequest", d, 0, Empty.AdminCmdRequest)

Unmarshal(T, d) ==
    CASE T = "Label" -> UnmarshalLabel(d)
      [] T = "Point" -> UnmarshalPoint(d)
      [] T = "Series" -> UnmarshalSeries(d)
      [] T = "LabelValuesResponse" -> UnmarshalLabelValuesResponse(d)
      [] T = "GeneralResponse" -> UnmarshalGeneralResponse(d)
      [] T = "AdminCmdRequest" -> UnmarshalAdminCmdRequest(d)
      [] T = "Info" -> UnmarshalInfo(d)
      [] T = "JoinCluster" -> UnmarshalJoinCluster(d)

-----------------------------------------------------------------------------
(* The input: fragments from Chunks arrive one at a time. *)

Init == data = <<>> /\ fed = 0

Feed(c) ==
    /\ fed < MaxChunks
    /\ data' = data \o c
    /\ fed' = fed + 1

Next == \E c \in Chunks : Feed(c)

Spec == Init /\ [][Next]_vars

-----------------------------------------------------------------------------
(* Properties *)

\* m.V != 0 does not write -0.0, which therefore reads back as +0.0.
CanonicalPoint(p) == IF IsZero64(p.V) THEN [p EXCEPT !.V = Zero64] ELSE p

Canonical(T, m) ==
    CASE T = "Point" -> CanonicalPoint(m)
      [] T = "Series" -> [m EXCEPT !.Points = [k \in DOMAIN m.Points |-> CanonicalPoint(m.Points[k])]]
      [] OTHER -> m

\* A message Unmarshal accepted is written by Marshal without overrunning
\* the m.Size() bytes it allocated and in exactly that many, and Unmarshal
\* reads those bytes back as the same message: Size, the length prefixes
\* of Series, the varint and zigzag encoders and the decoders agree.
Reencoded(T, m, b) ==
    /\ Ok(b)
    /\ Len(b.val) = Size(T, m)
    /\ Unmarshal(T, b.val) = [err |-> "none", msg |-> Canonical(T, m)]

RoundTrips(T, r) == Ok(r) => Reencoded(T, r.msg, Marshal(T, r.msg))

DecodedReencodes == \A T \in Types : RoundTrips(T, Unmarshal(T, data))

\* A well-formed field of a number the message does not know (a varint,
\* fixed64, bytes, fixed32 or group field), appended to a message Unmarshal
\* accepts, is skipped by skipPb and leaves the result unchanged.
SkipsUnknown(T, r) == Ok(r) => \A u \in UnknownFields : Unmarshal(T, data \o u) = r

UnknownSkipped == \A T \in Types : SkipsUnknown(T, Unmarshal(T, data))

\* No input makes Unmarshal panic: every malformed input is rejected with
\* an error, as the length checks after each varint are meant to ensure.
NoPanic == \A T \in Types : Unmarshal(T, data).err # "panic"

=============================================================================
