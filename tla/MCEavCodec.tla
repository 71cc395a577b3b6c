------------------------------ MODULE MCEavCodec ------------------------------
(* Instances of EavCodec for TLC. *)
EXTENDS EavCodec

\* Numbers below, at and above the limits of one to four bytes, and a negative one.
Numbers == {0, 1, 255, 256, 65535, 65536, 16777216, -1}

\* Keys close to each other and as far apart as ints are.
FarNumbers == {0, 1, 2, -1, -2147483647, 2147483647}
MCKeys == {<<n, t>> : n \in FarNumbers, t \in FarNumbers}

Bytes(n) == [i \in 1..n |-> 7 * i % 128]

Objects(class, values) == {[class |-> class, bytes |-> v] : v \in values}

MCObjects ==
  UNION {
    Objects("Byte", {<<0>>, <<127>>, <<255>>}),
    Objects("Short", {<<0, 0>>, <<0, 255>>, <<1, 0>>, <<255, 254>>}),
    Objects("Integer", {<<0, 0, 0, 0>>, <<0, 0, 1, 0>>, <<0, 128, 0, 0>>, <<128, 0, 0, 0>>}),
    Objects("Long", {<<0, 0, 0, 0, 0, 0, 0, 1>>, <<0, 0, 0, 200, 0, 0, 0, 0>>,
                     <<255, 255, 255, 255, 255, 255, 255, 254>>}),
    Objects("Float", {<<63, 128, 0, 0>>}),
    Objects("Double", {<<63, 240, 0, 0, 0, 0, 0, 0>>}),
    Objects("String", {<<>>, Bytes(1), Bytes(5)}),
    Objects("ByteBuffer", {<<>>, <<0, 0>>, Bytes(3)})}

\* Values at the limit of a length of one byte, and above it.
LongObjects == Objects("String", {Bytes(255), Bytes(256), Bytes(300)})

Entity(n, t, as) == [num |-> n, type |-> t, attributes |-> as]
Attr(n, t, x) == [num |-> n, type |-> t, of |-> x]

Some == [class |-> "Short", bytes |-> <<1, 0>>]
Other == [class |-> "String", bytes |-> <<65, 0>>]

\* Every entity key; every attribute key; every value; and lists in which keys
\* are repeated and entities follow each other.
MCEntityLists ==
  UNION {
    {<<>>},
    {<<Entity(n, t, <<>>)>> : n \in Numbers, t \in Numbers},
    {<<Entity(1, 0, <<Attr(n, t, Some)>>)>> : n \in Numbers, t \in Numbers},
    {<<Entity(0, 256, <<Attr(0, 1000, x), Attr(1, 1000, Other)>>)>> :
       x \in MCObjects \cup LongObjects},
    {<<Entity(0, 2, <<Attr(0, 1, x), Attr(0, 1, y)>>), Entity(n, 2, <<>>),
       Entity(300, 2, <<Attr(0, 1, y)>>)>> :
       x \in MCObjects, y \in {Some, Other}, n \in {0, 70000}},
    {<<Entity(0, 0, <<Attr(k[1], k[2], Some), Attr(l[1], l[2], Other)>>)>> :
       k \in MCKeys, l \in {<<0, 0>>, <<1, 2>>, <<-1, 1>>, <<2147483647, 1>>}}}
=============================================================================
