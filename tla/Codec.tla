-------------------------------- MODULE Codec --------------------------------
(***************************************************************************)
(* How a message becomes bytes and comes back: the presence maps and       *)
(* repeating blocks of the HKEX binary encoding (binary/types.py,          *)
(* binary/layout.py), the offset tables and bitfields of NSE's NNF         *)
(* (nnf/types.py, nnf/layout.py) with the check a transcribed table must   *)
(* pass, and the dictionary a message is validated against once it is read *)
(* (fix/dictionary.py).                                                    *)
(*                                                                         *)
(* Bytes are numbers below 256.  A message maps each tag to the values it  *)
(* carries, in order; a value is a text, which is a sequence of character  *)
(* codes, or a numeral.                                                    *)
(***************************************************************************)
EXTENDS Integers, Sequences, SequencesExt, FiniteSets, FiniteSetsExt

CONSTANTS Tags,
          Layouts,       \* the tables a codec may be built with
          Dictionary,    \* what each tag may contain
          Messages(_),   \* the messages a sender may compose for a layout
          MapBytes,      \* PRESENCE_MAP_BYTES
          BlockMapBytes  \* BLOCK_MAP_BYTES

ASSUME CodecAssumption == MapBytes \in Nat \ {0} /\ BlockMapBytes \in Nat \ {0}

VARIABLES stage, layout, message, raw, read

vars == <<stage, layout, message, raw, read>>

Nul == 0
Blank == 32

Text(s) == [text |-> s]
Number(n) == [number |-> n]
Yes == Text(<<89>>)
No == Text(<<78>>)
IsNumber(v) == "number" \in DOMAIN v

-----------------------------------------------------------------------------
(* Message: set replaces the first value of a tag, append adds one.        *)

NoFields == [t \in Tags |-> <<>>]
set(m, t, v) == [m EXCEPT ![t] = IF @ = <<>> THEN <<v>> ELSE [@ EXCEPT ![1] = v]]
append(m, t, v) == [m EXCEPT ![t] = Append(@, v)]
has(m, t) == m[t] # <<>>

-----------------------------------------------------------------------------
(* The bytes of one value.                                                 *)

Absent == [is |-> "absent", bytes |-> <<>>]
Fault == [is |-> "fault", bytes |-> <<>>]
Packed(bytes) == [is |-> "bytes", bytes |-> bytes]

Unpacked(v, offset) == [ok |-> TRUE, value |-> v, offset |-> offset]
MidField == [ok |-> FALSE, value |-> Number(0), offset |-> 0]

(* The bytes of a number, lowest first; of a negative one, its complement. *)
LittleEndian(width, n) == [i \in 1 .. width |-> (n \div 256 ^ (i - 1)) % 256]
Unsigned(bytes) == FoldLeftDomain(LAMBDA sum, i : sum + bytes[i] * 256 ^ (i - 1), 0, bytes)
Signed(bytes) ==
    LET n == Unsigned(Reverse(bytes))
    IN  IF n < 256 ^ Len(bytes) \div 2 THEN n ELSE n - 256 ^ Len(bytes)

Padding(byte, n) == [i \in 1 .. n |-> byte]
Truncated(s, n) == SubSeq(s, 1, IF Len(s) < n THEN Len(s) ELSE n)

(* Everything up to the first NUL, or all of it.                           *)
Terminated(s) ==
    LET end == SelectInSeq(s, LAMBDA b : b = Nul) IN IF end = 0 THEN s ELSE SubSeq(s, 1, end - 1)

Stripped(s) ==
    LET first == SelectInSeq(s, LAMBDA b : b # Blank)
        last == SelectLastInSeq(s, LAMBDA b : b # Blank)
    IN  IF first = 0 THEN <<>> ELSE SubSeq(s, first, last)

need(bytes, offset, count) == offset + count <= Len(bytes)
Chunk(bytes, offset, count) == SubSeq(bytes, offset + 1, offset + count)

packUnsigned(width, v) ==
    IF v.number \in 0 .. 256 ^ width - 1 THEN Packed(LittleEndian(width, v.number)) ELSE Fault

unpackUnsigned(width, bytes, offset) ==
    IF need(bytes, offset, width)
    THEN Unpacked(Number(Unsigned(Chunk(bytes, offset, width))), offset + width)
    ELSE MidField

(* AlphaFixed: the terminator counts towards the width.                    *)
packFixed(width, v) ==
    LET data == Truncated(v.text, width - 1)
    IN  Packed(data \o Padding(Nul, width - Len(data)))

unpackFixed(width, bytes, offset) ==
    IF need(bytes, offset, width)
    THEN Unpacked(Text(Terminated(Chunk(bytes, offset, width))), offset + width)
    ELSE MidField

(* AlphaVariable: a length that counts the terminator, then the text.      *)
packVariable(width, v) ==
    LET data == Truncated(v.text, width)
    IN  Packed(LittleEndian(2, Len(data) + 1) \o data \o <<Nul>>)

unpackVariable(width, bytes, offset) ==
    IF ~need(bytes, offset, 2) THEN MidField
    ELSE LET length == Unsigned(Chunk(bytes, offset, 2))
         IN  IF need(bytes, offset + 2, length)
             THEN Unpacked(Text(Terminated(Chunk(bytes, offset + 2, length))), offset + 2 + length)
             ELSE MidField

-----------------------------------------------------------------------------
(* Presence maps: position 0 is the highest bit of the first byte.         *)

BitOf(bytes, offset, p) == (bytes[offset + (p \div 8) + 1] \div 2 ^ (7 - (p % 8))) % 2

presence_bits(bytes, offset, width) ==
    SetToSortSeq({p \in 0 .. width * 8 - 1 : BitOf(bytes, offset, p) = 1}, LAMBDA p, q : p < q)

pack_presence(positions, width) ==
    [i \in 1 .. width |->
        MapThenSumSet(LAMBDA p : 2 ^ (7 - (p % 8)), {p \in positions : p \div 8 = i - 1})]

-----------------------------------------------------------------------------
(* The binary layout: the fields whose bits are set, lowest bit first.     *)

fieldsByBit(fields) == SetToSortSeq(fields, LAMBDA f, g : f.bit < g.bit)

(* Mutant: a zero is taken for nothing.                                    *)
readTruthy(f, m, index) ==
    IF index > Len(m[f.tag]) THEN {} ELSE {m[f.tag][index]} \ {Text(<<>>), Number(0)}

(* Field.read: the occurrence of its tag, if there is one with a value.    *)
fieldRead(f, m, index) ==
    IF index > Len(m[f.tag]) THEN {} ELSE {m[f.tag][index]} \ {Text(<<>>)}

(* Several entries of a block that itself holds blocks cannot be told      *)
(* apart in a flat message.                                                *)
ambiguous(f, m, count) ==
    count > 1 /\ \E g \in f.fields : g.type = "block" /\ has(m, g.tag)

Joined(parts) ==
    IF \E i \in DOMAIN parts : parts[i].is = "fault" THEN Fault
    ELSE Packed(FlattenSeq([i \in DOMAIN parts |-> parts[i].bytes]))

RECURSIVE packEntry(_, _, _, _), packField(_, _, _)

(* The presence map of some fields, and the bytes of those there are.      *)
packEntry(fields, m, index, width) ==
    LET order == fieldsByBit(fields)
        parts == [i \in DOMAIN order |-> packField(order[i], m, index)]
        there == {order[i].bit : i \in {j \in DOMAIN order : parts[j].is # "absent"}}
    IN  Joined(<<Packed(pack_presence(there, width))>> \o parts)

packField(f, m, index) ==
    IF f.type = "block"
    THEN LET count == IF index > Len(m[f.tag]) THEN 0 ELSE m[f.tag][index].number
         IN  IF index > Len(m[f.tag]) THEN Absent
             ELSE IF ambiguous(f, m, count) THEN Fault
             ELSE Joined(<<Packed(LittleEndian(2, count))>>
                         \o [e \in 1 .. count |-> packEntry(f.fields, m, e, BlockMapBytes)])
    ELSE IF fieldRead(f, m, index) = {} THEN Absent
    ELSE LET v == m[f.tag][index]
         IN  CASE f.type = "unsigned" -> packUnsigned(f.width, v)
               [] f.type = "fixed" -> packFixed(f.width, v)
               [] OTHER -> packVariable(f.width, v)

encode_body(l, m) == packEntry(l.fields, m, 1, MapBytes)

-----------------------------------------------------------------------------
(* Reading: what has been read so far, the offset, and whether it parses.  *)

Reading(ok, m, offset) == [ok |-> ok, message |-> m, offset |-> offset]
Unreadable == Reading(FALSE, NoFields, 0)

RECURSIVE unpackEntry(_, _, _, _, _), unpackField(_, _, _, _)

(* The width of a field nobody defined is not known: the rest is lost.     *)
unpackEntry(fields, bytes, r, width, repeating) ==
    IF ~r.ok \/ ~need(bytes, r.offset, width) THEN Unreadable
    ELSE FoldLeft(LAMBDA sofar, p :
                    IF sofar.ok /\ \E f \in fields : f.bit = p
                    THEN unpackField(CHOOSE f \in fields : f.bit = p, bytes, sofar, repeating)
                    ELSE Unreadable,
                  Reading(TRUE, r.message, r.offset + width), presence_bits(bytes, r.offset, width))

unpackField(f, bytes, r, repeating) ==
    LET u == CASE f.type = "unsigned" -> unpackUnsigned(f.width, bytes, r.offset)
               [] f.type = "block" -> unpackUnsigned(2, bytes, r.offset)
               [] f.type = "fixed" -> unpackFixed(f.width, bytes, r.offset)
               [] OTHER -> unpackVariable(f.width, bytes, r.offset)
        m == IF repeating THEN append(r.message, f.tag, u.value) ELSE set(r.message, f.tag, u.value)
    IN  IF ~u.ok THEN Unreadable
        ELSE IF f.type # "block" THEN Reading(TRUE, m, u.offset)
        ELSE FoldLeftDomain(LAMBDA sofar, e : unpackEntry(f.fields, bytes, sofar, BlockMapBytes, TRUE),
                            Reading(TRUE, m, u.offset), Padding(0, u.value.number))

decode_body(l, bytes) ==
    LET r == unpackEntry(l.fields, bytes, Reading(TRUE, NoFields, 0), MapBytes, FALSE)
    IN  IF r.ok /\ r.offset = Len(bytes) THEN r ELSE Unreadable

-----------------------------------------------------------------------------
(* NNF: every field at its offset, on every message.                       *)

endOf(f) == f.offset + f.width
bytesOf(f) == f.offset .. endOf(f) - 1

(* Flags: one bit of the run for each tag, the highest bit first; those in *)
(* between are reserved.                                                   *)
packFlags(f, m) ==
    [i \in 1 .. f.width |->
        MapThenSumSet(LAMBDA p : IF m[f.bits[p]] = <<Yes>> THEN 2 ^ (7 - ((p - 1) % 8)) ELSE 0,
                      {p \in DOMAIN f.bits : (p - 1) \div 8 = i - 1})]

unpackFlags(f, bytes, m) ==
    LET BitSet(t) == \E p \in DOMAIN f.bits : f.bits[p] = t /\ BitOf(bytes, f.offset, p - 1) = 1
    IN  [t \in Tags |-> IF t \in Range(f.bits) THEN <<IF BitSet(t) THEN Yes ELSE No>> ELSE m[t]]

packSigned(width, n) ==
    IF n \in -(256 ^ width \div 2) .. 256 ^ width \div 2 - 1
    THEN Packed(Reverse(LittleEndian(width, n))) ELSE Fault
packChar(width, text) ==
    Packed(Truncated(text, width) \o Padding(Blank, width - Len(Truncated(text, width))))
packRaw(width, text) == Packed(Truncated(text \o Padding(Nul, width), width))

(* What a field travels as: zero or blanks when nobody set it.             *)
nnfPack(f, m) ==
    LET text == IF has(m, f.tag) THEN m[f.tag][1].text ELSE <<>>
    IN  CASE f.type = "signed" -> packSigned(f.width, IF has(m, f.tag) THEN m[f.tag][1].number ELSE 0)
          [] f.type = "char" -> packChar(f.width, text)
          [] f.type = "raw" -> packRaw(f.width, text)
          [] f.type = "flags" -> Packed(packFlags(f, m))
          [] OTHER -> Packed(Padding(Nul, f.width))

(* A blank text says nothing; a zero is a value.                           *)
nnfUnpack(f, bytes, m) ==
    LET chunk == Chunk(bytes, f.offset, f.width)
        text == Stripped(Terminated(chunk))
    IN  CASE f.type = "signed" -> set(m, f.tag, Number(Signed(chunk)))
          [] f.type = "char" -> IF text = <<>> THEN m ELSE set(m, f.tag, Text(text))
          [] f.type = "raw" -> set(m, f.tag, Text(chunk))
          [] f.type = "flags" -> unpackFlags(f, bytes, m)
          [] OTHER -> m

Overwrite(buffer, offset, bytes) ==
    Truncated(buffer, offset) \o bytes
        \o SubSeq(buffer, offset + Len(bytes) + 1, Len(buffer))

nnfEncodeFields(fields, size, m) ==
    IF \E i \in DOMAIN fields : nnfPack(fields[i], m).is = "fault" THEN Fault
    ELSE Packed(FoldLeft(LAMBDA buffer, f : Overwrite(buffer, f.offset, nnfPack(f, m).bytes),
                         Padding(Nul, size), fields))

nnfDecodeFields(fields, bytes) ==
    IF \E i \in DOMAIN fields : ~need(bytes, fields[i].offset, fields[i].width) THEN Unreadable
    ELSE Reading(TRUE, FoldLeft(LAMBDA m, f : nnfUnpack(f, bytes, m), NoFields, fields), Len(bytes))

(* Layout.encode and decode.  The length is the table's own.               *)
nnfEncode(l, m) == nnfEncodeFields(l.header \o l.body, l.size, set(m, "Length", Number(l.size)))

nnfDecode(l, bytes) ==
    IF Len(bytes) # l.size THEN Unreadable ELSE nnfDecodeFields(l.header \o l.body, bytes)

HeaderSize(l) == Max({0} \cup {endOf(l.header[i]) : i \in DOMAIN l.header})
BodySize(l) == Max({HeaderSize(l)} \cup {endOf(l.body[i]) : i \in DOMAIN l.body})

(* Mutant: only where the last field ends.                                 *)
checkSize(l) == BodySize(l) = l.size

(* Layout.check: the fields reach the published size, none overlaps        *)
(* another, and no byte of the body belongs to nobody.                     *)
check(l) ==
    /\ BodySize(l) = l.size
    /\ \A i, j \in DOMAIN l.body : i # j => bytesOf(l.body[i]) \cap bytesOf(l.body[j]) = {}
    /\ HeaderSize(l) .. BodySize(l) - 1 \subseteq UNION {bytesOf(l.body[i]) : i \in DOMAIN l.body}

(* RecordLayout: a header around another whole message, as a download      *)
(* answers; the length is that of both.                                    *)
recordEncode(l, m) ==
    LET payload == nnfEncode(l, m)
        size == HeaderSize(l)
    IN  IF payload.is = "fault" THEN Fault
        ELSE Packed(nnfEncodeFields(l.header, size, set(m, "Length", Number(size + Len(payload.bytes)))).bytes
                    \o payload.bytes)

recordDecode(l, bytes) ==
    IF Len(bytes) < HeaderSize(l) THEN Unreadable
    ELSE nnfDecode(l, SubSeq(bytes, HeaderSize(l) + 1, Len(bytes)))

-----------------------------------------------------------------------------
(* The dictionary, once a message has been read.                           *)

(* FieldDef.validate: a value, of the type, not too long, permitted.       *)
validValue(t, v) ==
    LET def == Dictionary.fields[t]
    IN  /\ v # Text(<<>>)
        /\ IsNumber(v) <=> def.type = "int"
        /\ ~IsNumber(v) => Len(v.text) <= def.max
        /\ def.values # {} => v \in def.values

(* Dictionary.validate: every tag defined for the message and valid, and   *)
(* every one it requires there.  Which of several is named is left out.    *)
validate(l, m) ==
    /\ l.name \in DOMAIN Dictionary.messages
    /\ LET def == Dictionary.messages[l.name]
       IN  /\ def.inbound
           /\ \A t \in Tags : has(m, t) => /\ t \in DOMAIN Dictionary.fields
                                           /\ t \in def.required \cup def.optional
                                           /\ \A i \in DOMAIN m[t] : validValue(t, m[t][i])
           /\ \A t \in def.required : has(m, t)

-----------------------------------------------------------------------------
(* One message through a codec.                                            *)

encode(l, m) ==
    CASE l.wire = "nnf" -> nnfEncode(l, m)
      [] l.wire = "record" -> recordEncode(l, m)
      [] OTHER -> encode_body(l, m)

decode(l, bytes) ==
    CASE l.wire = "nnf" -> nnfDecode(l, bytes)
      [] l.wire = "record" -> recordDecode(l, bytes)
      [] OTHER -> decode_body(l, bytes)

Init ==
    /\ stage = "new" /\ layout \in Layouts /\ message = NoFields
    /\ raw = <<>> /\ read = Unreadable

Compose ==
    /\ stage = "new"
    /\ message' \in Messages(layout)
    /\ stage' = "composed"
    /\ UNCHANGED <<layout, raw, read>>

Encode ==
    /\ stage = "composed"
    /\ raw' = encode(layout, message).bytes
    /\ stage' = IF encode(layout, message).is = "fault" THEN "refused" ELSE "sent"
    /\ UNCHANGED <<layout, message, read>>

(* A sender with another table: a frame cut short, or with more than it    *)
(* should have.                                                            *)
Resize ==
    /\ stage = "sent" /\ raw # <<>>
    /\ raw' \in {Front(raw), Append(raw, Nul), Append(raw, Blank)}
    /\ stage' = "resized"
    /\ UNCHANGED <<layout, message, read>>

Decode ==
    /\ stage \in {"sent", "resized"}
    /\ read' = decode(layout, raw)
    /\ stage' = IF stage = "sent" THEN "read" ELSE "misread"
    /\ UNCHANGED <<layout, message, raw>>

Next == Compose \/ Encode \/ Resize \/ Decode

Spec == Init /\ [][Next]_vars

-----------------------------------------------------------------------------
(* Properties.                                                             *)

(* What a field can carry of the value it was given: the reference the     *)
(* bytes are compared with.                                                *)
Carried(l, t) ==
    LET all == l.header \o l.body
        Of(type) == {f \in Range(all) : f.type = type}
        cut(f, s) == Stripped(Truncated(s, f.width))
    IN  CASE t = "Length" -> <<Number(l.size)>>
          [] t # "Length" /\ \E f \in Of("signed") : f.tag = t -> IF has(message, t) THEN message[t] ELSE <<Number(0)>>
          [] \E f \in Of("flags") : t \in Range(f.bits) ->
               IF message[t] = <<Yes>> THEN message[t] ELSE <<No>>
          [] \E f \in Of("char") : f.tag = t ->
               LET f == CHOOSE g \in Of("char") : g.tag = t
               IN  IF ~has(message, t) \/ cut(f, message[t][1].text) = <<>> THEN <<>>
                   ELSE <<Text(cut(f, message[t][1].text))>>
          [] OTHER -> message[t]

RoundTrips == read.ok /\ \A t \in Tags : read.message[t] = Carried(layout, t)

(* The check compares the fields of the body with one another, not with    *)
(* those of the header.                                                    *)
ClearOfHeader(l) ==
    \A i \in DOMAIN l.header, j \in DOMAIN l.body : bytesOf(l.header[i]) \cap bytesOf(l.body[j]) = {}

(* A table that passes its check, and does not reach into the header,      *)
(* loses nothing and mixes nothing up: every field is read back as what it *)
(* can carry of the value it was given, also out of the record of a        *)
(* download.                                                               *)
CheckedTablesRoundTrip ==
    (stage = "read" /\ layout.wire # "binary" /\ check(layout) /\ ClearOfHeader(layout)) => RoundTrips

(* "No two fields of a structure overlap" (tests/test_nse_dictionary.py),  *)
(* which the check is the test of: a table that passes it loses nothing.   *)
(* False of one with a field of the body that begins inside the header.    *)
CheckIsEnough ==
    (stage = "read" /\ layout.wire # "binary" /\ check(layout)) => RoundTrips

(* A message the dictionary accepts, in the words of the sender, arrives   *)
(* in the binary encoding as the same message: blocks, absent fields and   *)
(* numbers of zero included; and in either encoding a frame that is        *)
(* shorter or longer than its fields is never read as a message.           *)
ReadingIsSound ==
    /\ (stage = "read" /\ layout.wire = "binary" /\ validate(layout, message)) =>
           read.ok /\ read.message = message
    /\ stage = "misread" => ~read.ok
=============================================================================
