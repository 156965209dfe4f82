------------------------------- MODULE Client -------------------------------
(* What the clients of the contract compute on the way to it and back: the    *)
(* numbers of the forms (apps/web/lib/format.ts), calldata and its decoding   *)
(* (packages/contract/src/rpc.ts for the worker and the API, legacy.ts for    *)
(* the wallet).                                                               *)
(*                                                                            *)
(* A value is a record whose only field names its type: [int |-> 7],          *)
(* [str |-> code points], [bytes |-> ..], [addr |-> 20 bytes], [arr |-> ..],  *)
(* [map |-> entries], [special |-> "true"]. Code points end below 2048.       *)
(* Where the code throws, the operator has no value.                          *)
EXTENDS Rates, SequencesExt

CONSTANT GenDecimals \* the decimals of an amount: 18, and the digits of a fraction of a percent

ASSUME ClientAssumption == GenDecimals \in Nat

----------------------------------------------------------------------------
(* Forms                                                                     *)

\* A decimal number as text: its whole part and the digits after the point, if any.
Digits(n, places) == [i \in 1..places |-> (n \div 10^(places - i)) % 10]
Trimmed(digits) == SubSeq(digits, 1, Max({0} \cup {i \in DOMAIN digits : digits[i] # 0}))
ToDecimal(n, places) ==
  [whole |-> n \div 10^places, fraction |-> Trimmed(Digits(n % 10^places, places))]

\* parseGen and parsePercent refuse more digits than there are places.
FromDecimal(text, places) ==
  IF Len(text.fraction) > places THEN Unknown
  ELSE text.whole * 10^places
         + FoldLeft(LAMBDA n, d : 10 * n + d, 0, text.fraction) * 10^(places - Len(text.fraction))

\* A duration as text: counts of a unit.
Units == <<86400, 3600, 60, 1>>
ToDuration(seconds) ==
  LET Count(n) == IF n = 1 THEN seconds \div Units[1]
                  ELSE (seconds % Units[n - 1]) \div Units[n]
      parts == SelectSeq([n \in 1..4 |-> [count |-> Count(n), unit |-> Units[n]]],
                         LAMBDA p : p.count > 0)
  IN  IF parts = <<>> THEN <<[count |-> 0, unit |-> 1]>> ELSE parts

FromDuration(parts) ==
  IF parts = <<>> THEN Unknown ELSE FoldLeft(LAMBDA n, p : n + p.count * p.unit, 0, parts)

----------------------------------------------------------------------------
(* Calldata                                                                  *)

PINT == 1
NINT == 2
BYTES == 3
STR == 4
ARR == 5
MAP == 6
Specials == [null |-> 0, false |-> 8, true |-> 16]
SPECIAL_ADDR == 24
AddressBytes == 20

Is(v, type) == type \in DOMAIN v

\* Seven bits to a byte, the lowest first; the high bit says that more follow.
RECURSIVE writeUleb(_)
writeUleb(n) == IF n < 128 THEN <<n>> ELSE <<128 + (n % 128)>> \o writeUleb(n \div 128)

RECURSIVE readUleb(_)
readUleb(bytes) ==
  IF Head(bytes) < 128 THEN [n |-> Head(bytes), rest |-> Tail(bytes)]
  ELSE LET more == readUleb(Tail(bytes))
       IN  [n |-> (Head(bytes) % 128) + 128 * more.n, rest |-> more.rest]

encodeNumber(n, type) == writeUleb(8 * n + type)

\* UTF-8.
Utf8(text) == FlattenSeq([i \in DOMAIN text |->
  IF text[i] < 128 THEN <<text[i]>> ELSE <<192 + (text[i] \div 64), 128 + (text[i] % 64)>>])

RECURSIVE FromUtf8(_)
FromUtf8(bytes) ==
  IF bytes = <<>> THEN <<>>
  ELSE IF bytes[1] < 128 THEN <<bytes[1]>> \o FromUtf8(Tail(bytes))
  ELSE <<64 * (bytes[1] - 192) + bytes[2] - 128>> \o FromUtf8(Tail(Tail(bytes)))

\* compareCodepoints: where two texts differ first, or the shorter one.
Precedes(left, right) ==
  LET common == {i \in DOMAIN left \cap DOMAIN right : left[i] # right[i]}
  IN  IF common = {} THEN Len(left) < Len(right)
      ELSE left[Min(common)] < right[Min(common)]

\* (Mutant: entries stay in the order in which they were given.)
AsGiven(entries) == entries
Sorted(entries) == SortSeq(entries, LAMBDA e, f : Precedes(e.key, f.key))
Distinct(entries) == \A i, j \in DOMAIN entries : entries[i].key = entries[j].key => i = j

RECURSIVE encodeValue(_)
encodeEntry(entry) ==
  LET key == Utf8(entry.key) IN writeUleb(Len(key)) \o key \o encodeValue(entry.value)
encodeMap(entries) ==
  CASE Distinct(entries) ->
    encodeNumber(Len(entries), MAP)
      \o FlattenSeq([i \in DOMAIN entries |-> encodeEntry(Sorted(entries)[i])])
encodeValue(v) ==
  CASE Is(v, "special") -> <<Specials[v.special]>>
    [] Is(v, "addr") -> <<SPECIAL_ADDR>> \o v.addr
    [] Is(v, "int") -> IF v.int >= 0 THEN encodeNumber(v.int, PINT)
                       ELSE encodeNumber(-v.int - 1, NINT)
    [] Is(v, "str") -> encodeNumber(Len(Utf8(v.str)), STR) \o Utf8(v.str)
    [] Is(v, "bytes") -> encodeNumber(Len(v.bytes), BYTES) \o v.bytes
    [] Is(v, "arr") -> encodeNumber(Len(v.arr), ARR)
                         \o FlattenSeq([i \in DOMAIN v.arr |-> encodeValue(v.arr[i])])
    [] Is(v, "map") -> encodeMap(v.map)

\* The first n bytes, or those there are, and the bytes after them.
Taken(bytes, n) == SubSeq(bytes, 1, IF n < Len(bytes) THEN n ELSE Len(bytes))
Left(bytes, n) == SubSeq(bytes, n + 1, Len(bytes))

\* decodeValue: a value and the bytes after it. An address is given as its text.
RECURSIVE decodeValue(_)
RECURSIVE decodeItems(_, _)
decodeItems(bytes, n) ==
  IF n = 0 THEN [items |-> <<>>, rest |-> bytes]
  ELSE LET first == decodeValue(bytes)
           others == decodeItems(first.rest, n - 1)
       IN  [items |-> <<first.value>> \o others.items, rest |-> others.rest]
RECURSIVE decodeEntries(_, _)
decodeEntries(bytes, n) ==
  IF n = 0 THEN [items |-> <<>>, rest |-> bytes]
  ELSE LET size == readUleb(bytes)
           value == decodeValue(Left(size.rest, size.n))
           others == decodeEntries(value.rest, n - 1)
           entry == [key |-> FromUtf8(Taken(size.rest, size.n)), value |-> value.value]
       IN  [items |-> <<entry>> \o others.items, rest |-> others.rest]
decodeValue(bytes) ==
  LET marker == readUleb(bytes)
      rest == marker.rest
      n == marker.n \div 8
      type == marker.n % 8
  IN  CASE \E s \in DOMAIN Specials : marker.n = Specials[s] ->
             [value |-> [special |-> CHOOSE s \in DOMAIN Specials : marker.n = Specials[s]], rest |-> rest]
        [] marker.n = SPECIAL_ADDR ->
             [value |-> [addr |-> Taken(rest, AddressBytes)], rest |-> Left(rest, AddressBytes)]
        [] type = PINT -> [value |-> [int |-> n], rest |-> rest]
        [] type = NINT -> [value |-> [int |-> -1 - n], rest |-> rest]
        [] type = BYTES -> [value |-> [bytes |-> Taken(rest, n)], rest |-> Left(rest, n)]
        [] type = STR -> [value |-> [str |-> FromUtf8(Taken(rest, n))], rest |-> Left(rest, n)]
        [] type = ARR -> LET d == decodeItems(rest, n) IN [value |-> [arr |-> d.items], rest |-> d.rest]
        [] type = MAP -> LET d == decodeEntries(rest, n) IN [value |-> [map |-> d.items], rest |-> d.rest]

\* What is left after the value is not looked at.
decodeLegacyReturn(bytes) == decodeValue(bytes).value

----------------------------------------------------------------------------
(* Calls                                                                     *)

ArgsKey == <<97, 114, 103, 115>>

\* encodeSchemaArgs: the text of an address becomes the address where the schema says so.
SchemaArgs(types, args) ==
  [i \in DOMAIN args |->
     IF types[i] = "address" THEN CASE Is(args[i], "addr") -> args[i] ELSE args[i]]

buildLegacyCalldata(method, args) ==
  encodeMap(<<[key |-> <<>>, value |-> [str |-> method]]>>
              \o (IF args = <<>> THEN <<>> ELSE <<[key |-> ArgsKey, value |-> [arr |-> args]]>>))

\* legacy.ts knows no address: one stays the text it is, here of as many characters.
AsText(v) == IF Is(v, "addr") THEN [str |-> [i \in 1..42 |-> 48]] ELSE v
WalletCalldata(method, args) == buildLegacyCalldata(method, [i \in DOMAIN args |-> AsText(args[i])])

\* The length of 56 bytes and more is written in bytes of its own.
Prefixed(tag, bytes, length) ==
  IF Len(bytes) < 56 THEN <<tag + Len(bytes)>> \o bytes
  ELSE <<(tag + 55 + Len(length)) % 256>> \o length \o bytes

\* legacy.ts writes the length there, in base 256.
RECURSIVE BigEndian(_)
BigEndian(n) == IF n < 256 THEN <<n>> ELSE Append(BigEndian(n \div 256), n % 256)
WalletRlpBytes(bytes) ==
  IF Len(bytes) = 1 /\ bytes[1] < 128 THEN bytes ELSE Prefixed(128, bytes, BigEndian(Len(bytes)))
WalletRlpList(items) ==
  LET payload == FlattenSeq([i \in DOMAIN items |-> WalletRlpBytes(items[i])])
  IN  Prefixed(192, payload, BigEndian(Len(payload)))

\* rpc.ts writes the bytes themselves where the length belongs.
rlpBytes(bytes) == IF Len(bytes) = 1 /\ bytes[1] < 128 THEN bytes ELSE Prefixed(128, bytes, bytes)
rlpList(items) ==
  LET payload == FlattenSeq([i \in DOMAIN items |-> rlpBytes(items[i])])
  IN  Prefixed(192, payload, payload)

\* read: a method of the schema, by the types of its parameters, with as many arguments.
ReadCalldata(method, types, args) ==
  CASE Len(types) = Len(args) -> buildLegacyCalldata(method, SchemaArgs(types, args))

\* A call and the flag after it.
ReadData(method, args) == rlpList(<<buildLegacyCalldata(method, args), <<0>>>>)
TransactionData(method, args) == WalletRlpList(<<WalletCalldata(method, args), <<0>>>>)
=============================================================================
