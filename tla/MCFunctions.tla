---------------------------- MODULE MCFunctions -----------------------------
(* The pure functions against what they stand for: the walk of Rounding over  *)
(* amounts, durations, rates and windows of samples; values that are sent;    *)
(* and the calls of the frozen schema.                                        *)
EXTENDS Client, Rounding

CONSTANTS none, MaxNumber

VARIABLES value, call

functionVars == <<roundingVars, value, call>>

\* Answers, one with a reference far ahead and one without, and a failure.
GridSamples ==
  <<[success |-> TRUE, latency |-> 2, target |-> 5, reference |-> 6],
    [success |-> TRUE, latency |-> 9, target |-> 3, reference |-> 9],
    [success |-> TRUE, latency |-> 4, target |-> 7, reference |-> Unknown],
    [success |-> FALSE, latency |-> 6, target |-> Unknown, reference |-> Unknown]>>

\* Texts of no, one, two and many bytes, one of them of two bytes to a character.
Texts == {<<>>, <<97>>, <<98>>, <<97, 98>>, <<233>>, [i \in 1..16 |-> 99]}
Scalars == {[special |-> s] : s \in DOMAIN Specials}
  \cup {[int |-> n] : n \in {-2049, -17, -16, -1, 0, 1, 15, 16, 130, 2048, 86400, 90061, 134217727}}
  \cup {[str |-> t] : t \in Texts} \cup {[bytes |-> <<0, 255>>], [addr |-> [i \in 1..20 |-> 7 * i]]}
Map(k, v, l, w) == [map |-> <<[key |-> k, value |-> v], [key |-> l, value |-> w]>>]
Maps == {Map(k, v, l, w) : k, l \in Texts, v \in {[int |-> 16], [str |-> <<233>>]}, w \in Scalars}
GoodMaps == {m \in Maps : Distinct(m.map)}
Values == {[int |-> n] : n \in 0..MaxNumber} \cup Scalars \cup GoodMaps \cup {[arr |-> <<>>], [map |-> <<>>]}
  \cup {[arr |-> <<v, w>>] : v \in Scalars, w \in Scalars}
  \cup {[arr |-> <<m, [int |-> 1]>>] : m \in GoodMaps}
  \cup {Map(<<98>>, [int |-> 0], <<>>, m) : m \in GoodMaps}

\* The reads of the worker and the API, by the lengths of their names, and writes of
\* the wallet, whose texts have any length.
Name(n) == [i \in 1..n |-> 103]
LargeId == [int |-> 134217727]
AnAddress == [addr |-> [i \in 1..20 |-> 255]]
Reads == {[name |-> Name(n), types |-> <<>>, args |-> <<>>] : n \in {12, 19}}
  \cup {[name |-> Name(n), types |-> <<"int">>, args |-> <<LargeId>>] : n \in 8..25}
  \cup {[name |-> Name(n), types |-> <<"address">>, args |-> <<AnAddress>>] : n \in {21, 22}}
Writes == {[name |-> Name(n), types |-> <<"string", "int">>, args |-> <<[str |-> [i \in 1..t |-> 104]], LargeId>>] :
             n \in {10, 17}, t \in {0, 1, 20, 30, 31, 32, 33, 60, 127, 128, 255, 300}}

Unsent == value = [special |-> "null"] /\ call = none
FunctionsInit == RoundingInit /\ Unsent

WalkStep == RoundingStep /\ Unsent /\ UNCHANGED <<value, call>>
SendStep ==
  /\ GridOrigin /\ samples = <<>> /\ Unsent /\ UNCHANGED roundingVars
  /\ \/ value' \in Values /\ UNCHANGED call
     \/ call' \in Reads \cup Writes /\ UNCHANGED value

FunctionsSpec == FunctionsInit /\ [][WalkStep \/ SendStep]_functionVars
-----------------------------------------------------------------------------

\* RLP, by its definition: the payload after a tag, and the bytes after it.
Unpacked(tag, bytes) ==
  LET b == bytes[1] - tag
      size == IF b < 56 THEN b
              ELSE FoldLeft(LAMBDA n, digit : 256 * n + digit, 0, SubSeq(bytes, 2, b - 54))
      start == IF b < 56 THEN 2 ELSE b - 53
  IN  [payload |-> SubSeq(bytes, start, start + size - 1), rest |-> SubSeq(bytes, start + size, Len(bytes))]

\* The data is a list of the calldata and of one byte 0, and nothing else.
Carries(data, calldata) ==
  LET list == Unpacked(192, data)
      item == Unpacked(128, list.payload)
  IN  list.rest = <<>> /\ item.payload = calldata /\ item.rest = <<0>>

RECURSIVE InKeyOrder(_)
InKeyOrder(v) ==
  CASE Is(v, "arr") -> [arr |-> [i \in DOMAIN v.arr |-> InKeyOrder(v.arr[i])]]
    [] Is(v, "map") -> [map |-> [i \in DOMAIN v.map |->
                          [Sorted(v.map)[i] EXCEPT !.value = InKeyOrder(@)]]]
    [] OTHER -> v

\* What is sent is what was meant. A value is decoded to itself, in one way whatever
\* the order of its keys; every read of the frozen schema and every write, however
\* long, is framed so that the call and its arguments are found again; and a number
\* written into a form is read from it as the same number.
SentAsMeant ==
  /\ decodeValue(encodeValue(value)) = [value |-> InKeyOrder(value), rest |-> <<>>]
  /\ Is(value, "map") => encodeValue([map |-> Reverse(value.map)]) = encodeValue(value)
  /\ call # none =>
       LET args == SchemaArgs(call.types, call.args)
           calldata == ReadCalldata(call.name, call.types, call.args)
       IN  /\ call \in Reads => Carries(ReadData(call.name, args), calldata)
           /\ call \in Writes => Carries(TransactionData(call.name, args), calldata)
           /\ decodeLegacyReturn(calldata).map[1] = [key |-> <<>>, value |-> [str |-> call.name]]
           /\ args # <<>> => decodeLegacyReturn(calldata).map[2].value.arr = args
  /\ Is(value, "int") /\ value.int >= 0 =>
       /\ FromDecimal(ToDecimal(value.int, GenDecimals), GenDecimals) = value.int
       /\ FromDuration(ToDuration(value.int)) = value.int
=============================================================================
