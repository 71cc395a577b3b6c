------------------------------- MODULE EavCodec -------------------------------
(***************************************************************************)
(* The packets of the Java client: EavTask.setRequestData writes a list of *)
(* entities with their attributes, EavTask.createFromArray reads it.       *)
(*                                                                         *)
(* Numbers, lengths and values take as many bytes as they need, and the    *)
(* lengths of the fields are packed into header bytes:                     *)
(*                                                                         *)
(*   packet     head crc crc command  packetID  size  entities             *)
(*   entity     head  num type  attributes                                 *)
(*   attribute  head  num type  value type  [length of] length  value      *)
(*                                                                         *)
(* A byte is a number 0..255 (a Java byte read back is masked everywhere). *)
(* The CRC16 is taken to tell any two inputs apart, and so is represented  *)
(* by the bytes it was computed from.  A Java object that can be a value is *)
(* its class and the bytes ByteBuffer.put has for it, the highest first.   *)
(***************************************************************************)
EXTENDS Integers, Sequences, SequencesExt

CONSTANTS
  EntityLists,  \* what create is called with: sequences of EntityL
  PacketIDs,    \* what getIncrementID returns
  Commands,     \* ordinals of commands
  CrcLimit      \* 0xFFFF: the CRC covers no more than this

VARIABLES
  request,  \* the entities, packet id and command of the task that is sent
  packet,   \* its requestData
  length,   \* how much of the packet createFromArray was given
  task      \* what it returned

vars == <<request, packet, length, task>>

-----------------------------------------------------------------------------
(* AttributeValue, Attribute and EntityL.                                  *)

\* The ints of Java.
MaxInt == 2147483647
Ints == (-MaxInt - 1)..MaxInt

ValueTypes == <<"i8", "i16", "i32", "i64", "f4", "f8", "s", "b">>
Classes == <<"Byte", "Short", "Integer", "Long", "Float", "Double", "String", "ByteBuffer">>
Width == <<1, 2, 4, 8, 4, 8>>

\* What AttributeValue can be made of: an object of one of the classes.
Object ==
  {x \in [class : Range(Classes), bytes : Seq(0..255)] :
     /\ \A i \in DOMAIN Width : x.class = Classes[i] => Len(x.bytes) = Width[i]
     /\ Len(x.bytes) <= MaxInt}

Attribute == [num : Ints, type : Ints, of : Object]
EntityL == [num : Ints, type : Ints, attributes : Seq(Attribute)]

Ordinal(vt) == (CHOOSE i \in DOMAIN ValueTypes : ValueTypes[i] = vt) - 1

\* The test for Double is written as a second one for Float: a Double ends where
\* any unknown class does, in an Integer that is 0.
SetValue(x) ==
  IF x.class # "Double"
  THEN [type |-> ValueTypes[CHOOSE i \in DOMAIN Classes : Classes[i] = x.class],
        value |-> x.bytes]
  ELSE [type |-> "i32", value |-> <<0, 0, 0, 0>>]

GetValue(v) == [class |-> Classes[Ordinal(v.type) + 1], bytes |-> v.value]

-----------------------------------------------------------------------------
(* Variable-length fields.                                                 *)

Power == <<1, 256, 65536, 16777216>>

LengthOf_m1(v) ==
  IF v < 0 THEN 4
  ELSE CHOOSE k \in 0..4 :
         /\ k = 4 \/ v <= Power[k + 1]
         /\ \A j \in 1..k : v > Power[j]

\* bytes(v): how many of the four bytes of an int are needed.
LengthOf(v) ==
  IF v < 0 THEN 4
  ELSE CHOOSE k \in 0..4 :
         /\ k = 4 \/ v < Power[k + 1]
         /\ \A j \in 1..k : v >= Power[j]

\* array(v): the lowest byte first, two's complement.
Array(v) == [i \in 1..4 |-> (v \div Power[i]) % 256]

Field(v) == SubSeq(Array(v), 1, LengthOf(v))

\* bs, the lowest byte first, filled with zeros up to n bytes.
Padded(bs, n) == [i \in 1..n |-> IF i <= Len(bs) THEN bs[i] ELSE 0]

\* getInt of a field of up to four bytes.
GetInt(bs) ==
  LET b == Padded(bs, 4)
  IN b[1] + Power[2] * b[2] + Power[3] * b[3]
       + Power[4] * (IF b[4] < 128 THEN b[4] ELSE b[4] - 256)

\* optimizeData: leading zeros cut off, but for the last byte, and turned round.
OptimizeData(bs) ==
  LET first == CHOOSE i \in 1..Len(bs) :
                 /\ i = Len(bs) \/ bs[i] # 0
                 /\ \A j \in 1..(i - 1) : bs[j] = 0
  IN Reverse(SubSeq(bs, first, Len(bs)))

-----------------------------------------------------------------------------
(* setRequestData.                                                         *)

IsAttribute == 64
OneByteLength == 128

Written(v) == IF Ordinal(v.type) < Ordinal("f4") THEN OptimizeData(v.value) ELSE v.value

Value(a) == SetValue(a.of)

FieldLengths_m1(num, type) == LengthOf(num) + 16 * LengthOf(type)

FieldLengths(num, type) == LengthOf(num) + 8 * LengthOf(type)

\* The part of the size that the first loop adds up for an attribute.
AttributeSize_m1(a) ==
  LET len == Len(Written(Value(a)))
  IN 1 + LengthOf(a.num) + LengthOf(a.type) + 2 + len

AttributeSize(a) ==
  LET len == Len(Written(Value(a)))
  IN 1 + LengthOf(a.num) + LengthOf(a.type)
       + IF len < 256 THEN 2 + len ELSE 2 + LengthOf(len) + len

\* The sum of a sequence of numbers.
Total(ns) ==
  LET sum[n \in 0..Len(ns)] == IF n = 0 THEN 0 ELSE sum[n - 1] + ns[n]
  IN sum[Len(ns)]

EntitySize(e) ==
  1 + LengthOf(e.num) + LengthOf(e.type)
    + Total([i \in DOMAIN e.attributes |-> AttributeSize(e.attributes[i])])

Size(es) == Total([i \in DOMAIN es |-> EntitySize(es[i])])

HeaderSize == 4

\* What getIncrementID returns: up to 65534 to a thread that draws ids alone, and races can
\* leave the counter above that, but not beyond three bytes: each of the threads that
\* race adds one.
Ids == {id \in Nat : id > 0 /\ id < Power[4]}

\* Fields are ints, and a packet with its header, id (three bytes) and size (four) is
\* an array.
ASSUME CodecAssumption ==
  /\ EntityLists \subseteq Seq(EntityL)
  /\ \A es \in EntityLists : HeaderSize + 3 + 4 + Size(es) <= MaxInt
  /\ PacketIDs \subseteq Ids
  /\ Commands \subseteq 0..127
  /\ CrcLimit \in Nat \ {0}

\* The second loop.
AttributeBytes(a) ==
  LET data == Written(Value(a))
      lengthOfLength == IF data = <<>> THEN 1 ELSE LengthOf(Len(data))
  IN <<FieldLengths(a.num, a.type) + IsAttribute
         + IF lengthOfLength < 2 THEN OneByteLength ELSE 0>>
     \o Field(a.num) \o Field(a.type) \o <<Ordinal(Value(a).type)>>
     \o (IF lengthOfLength > 1 THEN <<lengthOfLength>> ELSE <<>>)
     \o SubSeq(Array(Len(data)), 1, lengthOfLength) \o data

EntityBytes(e) ==
  <<FieldLengths(e.num, e.type)>> \o Field(e.num) \o Field(e.type)
  \o FlattenSeq([i \in DOMAIN e.attributes |-> AttributeBytes(e.attributes[i])])

Body(es) == FlattenSeq([i \in DOMAIN es |-> EntityBytes(es[i])])

\* What the CRC of a body of n bytes covers.
Covered(body, n) == SubSeq(body, 1, IF n > CrcLimit THEN CrcLimit ELSE n)

\* A body of another length than size would not fit, or leave zeros.
SetRequestData(es, id, command) ==
  LET size == Size(es)
      body == Padded(Body(es), size)
  IN [crc |-> Covered(body, size),
      bytes |-> <<LengthOf(id) + 4 * LengthOf(size), 0, 0, command>>
                \o Field(id) \o Field(size) \o body]

-----------------------------------------------------------------------------
(* createFromArray.  Positions count from 0, as in the code.               *)

\* Of head, the bits from the one that counts unit, as a number below span.
Bits(head, unit, span) == (head \div unit) % span
At(data, pos) == data[pos + 1]
Slice(data, pos, n) == SubSeq(data, pos + 1, pos + n)

\* The value of an attribute: floats are read in the buffer's byte order, which
\* createFromArray has set to the lowest byte first; setValue writes the highest
\* first.  A double is read and then lost by setValue.
ReadValue(vt, bs) ==
  CASE Ordinal(vt) < Ordinal("f4") ->
         [type |-> vt, value |-> Reverse(Padded(bs, Width[Ordinal(vt) + 1]))]
    [] vt = "f4" -> [type |-> vt, value |-> Reverse(bs)]
    [] OTHER -> SetValue([class |-> Classes[Ordinal(vt) + 1], bytes |-> bs])

\* a - b does not fit into 32 bits.
Wraps(a, b) ==
  \/ a >= 0 /\ b < 0 /\ a > MaxInt + b
  \/ a < 0 /\ b >= 0 /\ a < b - MaxInt - 1

\* a - b in 32 bits: where it wraps, a number with the sign of what is left.
Minus(a, b) ==
  IF ~Wraps(a, b) THEN a - b ELSE IF a >= 0 THEN -1 ELSE 1

\* DualKey.compareTo.
CompareTo(key, o) ==
  IF key.type = o.type THEN Minus(key.num, o.num) ELSE Minus(key.type, o.type)

\* attributes.put: the last value of a key stays.  (A TreeMap finds a key if
\* CompareTo orders its keys; among keys whose difference wraps it may miss one, and
\* RoundTrip claims nothing of them.)
Put(attributes, num, type, v) ==
  LET new == [num |-> num, type |-> type, value |-> v]
  IN {a \in attributes : CompareTo(a, new) # 0} \cup {new}

PutLast(es, num, type, v) ==
  [es EXCEPT ![Len(es)].attributes = Put(@, num, type, v)]

Thrown == [result |-> "exception"]

\* What a header at pos says of what follows it: the lengths of num and type, and
\* where they end.
NumLength(data, pos) == Bits(At(data, pos), 1, 8)
TypeLength(data, pos) == Bits(At(data, pos), 8, 8)
FieldsEnd(data, pos) == pos + 1 + NumLength(data, pos) + TypeLength(data, pos)

Num(data, pos) == GetInt(Slice(data, pos + 1, NumLength(data, pos)))
Type(data, pos) ==
  GetInt(Slice(data, pos + 1 + NumLength(data, pos), TypeLength(data, pos)))

\* Of an attribute whose fields end at next: where its value starts, how long it is.
OneByte(data, pos) == At(data, pos) >= OneByteLength
ValueAt(data, pos, next) ==
  next + 2 + IF OneByte(data, pos) THEN 0 ELSE At(data, next + 1)
ValueLength(data, pos, next) ==
  IF OneByte(data, pos)
  THEN At(data, next + 1)
  ELSE GetInt(Slice(data, next + 2, At(data, next + 1)))

\* One round of the loop over entities and attributes.  It is left (pos is at the
\* end) where something does not fit, and by an exception when nothing is left to
\* read a header from.  (A value type beyond the last throws, too; setRequestData
\* writes none.)
Entry(data, end, reader) ==
  LET pos == reader.pos
      es == reader.task.entities
      next == FieldsEnd(data, pos)
      valueAt == ValueAt(data, pos, next)
      len == ValueLength(data, pos, next)
      vt == ValueTypes[At(data, next) + 1]
      Left(result) == [pos |-> end, task |-> result]
      Reads(to, entities) ==
        [pos |-> to, task |-> [reader.task EXCEPT !.entities = entities]]
  IN IF pos + 1 > end
     THEN reader
     ELSE IF pos + 1 > Len(data)
     THEN Left(Thrown)
     ELSE IF next > Len(data)
     THEN Left(reader.task)
     ELSE IF Bits(At(data, pos), IsAttribute, 2) = 0
     THEN Reads(next, Append(es, [num |-> Num(data, pos), type |-> Type(data, pos),
                                  attributes |-> {}]))
     ELSE IF es = <<>> \/ next + 2 > Len(data) \/ valueAt > Len(data)
             \/ valueAt + len > Len(data)
     THEN Left(reader.task)
     ELSE Reads(valueAt + len,
            PutLast(es, Num(data, pos), Type(data, pos),
                    ReadValue(vt, Slice(data, valueAt, len))))

\* Every round but the last one reads a byte or more.
Entities(data, start, end, obtained) ==
  LET loop[n \in 0..Len(data)] ==
        IF n = 0 THEN [pos |-> start, task |-> obtained]
        ELSE Entry(data, end, loop[n - 1])
  IN loop[Len(data)].task

Obtained(id, command) ==
  [result |-> "obtained", entities |-> <<>>, id |-> id, command |-> command]

CreateFromArray_m1(crc, data) ==
  LET idLength == Bits(At(data, 0), 1, 4)
      sizeLength == Bits(At(data, 0), 4, 8)
      bodyAt == HeaderSize + idLength + sizeLength
      size == GetInt(Slice(data, HeaderSize + idLength, sizeLength))
      covered == IF size > CrcLimit THEN CrcLimit ELSE size
  IN IF Len(data) < HeaderSize \/ Len(data) < bodyAt
        \/ ~IsPrefix(SubSeq(data, bodyAt + 1, Len(data)), crc)
     THEN Thrown
     ELSE Entities(data, bodyAt, bodyAt + size,
            Obtained(GetInt(Slice(data, HeaderSize, idLength)), At(data, 3)))

\* Reading beyond the end of the buffer throws, for the header as for the CRC; so
\* does another CRC.
CreateFromArray(crc, data) ==
  LET idLength == Bits(At(data, 0), 1, 4)
      sizeLength == Bits(At(data, 0), 4, 8)
      bodyAt == HeaderSize + idLength + sizeLength
      size == GetInt(Slice(data, HeaderSize + idLength, sizeLength))
      covered == IF size > CrcLimit THEN CrcLimit ELSE size
  IN IF Len(data) < HeaderSize \/ Len(data) < bodyAt
        \/ Len(data) < bodyAt + covered \/ Slice(data, bodyAt, covered) # crc
     THEN Thrown
     ELSE Entities(data, bodyAt, bodyAt + size,
            Obtained(GetInt(Slice(data, HeaderSize, idLength)), At(data, 3)))

-----------------------------------------------------------------------------
NoPacket == [crc |-> <<>>, bytes |-> <<>>]
NoTask == [result |-> "none"]

Init ==
  /\ request = [entities |-> <<>>, id |-> 0, command |-> 0]
  /\ packet = NoPacket
  /\ length = 0
  /\ task = NoTask

Create(es, id, command) ==
  /\ packet = NoPacket
  /\ request' = [entities |-> es, id |-> id, command |-> command]
  /\ packet' = SetRequestData(es, id, command)
  /\ UNCHANGED <<length, task>>

\* The reader has the packet, or the first n bytes of it.
Obtain(n) ==
  /\ packet # NoPacket /\ task = NoTask
  /\ length' = n
  /\ task' = CreateFromArray(packet.crc, SubSeq(packet.bytes, 1, n))
  /\ UNCHANGED <<request, packet>>

Next ==
  \/ \E es \in EntityLists, id \in PacketIDs, command \in Commands :
       Create(es, id, command)
  \/ \E n \in 0..Len(packet.bytes) : Obtain(n)

Spec == Init /\ [][Next]_vars

-----------------------------------------------------------------------------
(* Properties.                                                             *)

\* What is put into one byte fits into it: headers with their packed lengths,
\* lengths, types.
PacketBytesFit == \A i \in DOMAIN packet.bytes : packet.bytes[i] \in 0..255

\* The loop that adds up the size and the loop that writes agree: the buffer is
\* filled exactly.
SizeExact == packet # NoPacket => Size(request.entities) = Len(Body(request.entities))

Complete == task # NoTask /\ length = Len(packet.bytes)

\* The value that stays for a key: the last one that was added.
IsLast(attributes, i) ==
  \A j \in (i + 1)..Len(attributes) :
    attributes[j].num # attributes[i].num \/ attributes[j].type # attributes[i].type

\* What comes out of a packet for an object that went in: a Float with its bytes
\* turned round, for a Double an Integer that is 0, and any other object itself.
ReadAs(x) ==
  CASE x.class = "Float" -> [class |-> "Float", bytes |-> Reverse(x.bytes)]
    [] x.class = "Double" -> [class |-> "Integer", bytes |-> <<0, 0, 0, 0>>]
    [] OTHER -> x

\* The reader's entity got has e's key, and the attributes of e.
SameEntity(e, got) ==
  LET last == {i \in DOMAIN e.attributes : IsLast(e.attributes, i)}
  IN /\ got.num = e.num /\ got.type = e.type
     /\ {<<a.num, a.type>> : a \in got.attributes}
          = {<<e.attributes[i].num, e.attributes[i].type>> : i \in last}
     /\ \A i \in last : \E a \in got.attributes :
          /\ a.num = e.attributes[i].num /\ a.type = e.attributes[i].type
          /\ GetValue(a.value) = ReadAs(e.attributes[i].of)

SameRequest ==
  /\ task.result = "obtained"
  /\ task.id = request.id /\ task.command = request.command
  /\ Len(task.entities) = Len(request.entities)
  /\ \A i \in DOMAIN task.entities :
       SameEntity(request.entities[i], task.entities[i])

\* The keys of e's attributes are close enough for CompareTo to order them.
Comparable(e) ==
  \A i, j \in DOMAIN e.attributes :
    /\ ~Wraps(e.attributes[i].num, e.attributes[j].num)
    /\ ~Wraps(e.attributes[i].type, e.attributes[j].type)

\* What createFromArray reads is what create was given: id, command, every entity
\* with its attributes and, but for what becomes of a Float and of a Double, their
\* values, at all the lengths fields and values can have, where CompareTo orders the
\* keys.
RoundTrip ==
  Complete /\ (\A i \in DOMAIN request.entities : Comparable(request.entities[i]))
    => SameRequest

\* A packet that lost its end is rejected, not read as one with fewer entities, as
\* long as the CRC covers it to its end.
TruncatedRejected ==
  task # NoTask /\ length < Len(packet.bytes) /\ Size(request.entities) <= CrcLimit
    => task = Thrown
=============================================================================
