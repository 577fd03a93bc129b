------------------------------ MODULE MCCodec ------------------------------
(* Numbers at the boundaries of their encodings, by themselves, in the      *)
(* packets of im/src/packet.rs and in the struct of the crate's test.       *)
EXTENDS Packet

Boundaries ==
  {0, 1, Base - 4, Base - 3, Base - 1, Base, Base ^ 2 - 1, Base ^ 2, Base ^ 3 - Base,
   Base ^ 3 - Base + 1, Base ^ 4 - 1, Base ^ 4, Base ^ 8 - 1}

UpTo(w) == {n \in Boundaries : n < Base ^ w}

Half(w) == Base ^ w \div 2

Strings == {<<>>, <<1>>, <<1, 2, 3, 0, 1, 2>>}

Short == {<<>>, <<1>>}

Names == {Tag(n) : n \in 1 .. 8}

(* With the types of the values in them. *)
RECURSIVE Closure(_)
Closure(S) ==
  LET parts == UNION {Components(t) : t \in S}
  IN IF parts \subseteq S THEN S ELSE Closure(S \cup parts)

MCType == Closure(
  {UInt(1), UInt(2), UInt(4), UInt(8), SInt(1), SInt(2), SInt(4), SInt(8), Float(4), Str,
   Option(Str), List(UInt(2)), Tuple(<<UInt(1), Bool>>),
   MapOf(Str, Str), Packet, Data})

RECURSIVE MCDepth(_)
MCDepth(t) ==
  IF Components(t) = {} THEN 0 ELSE 1 + Max({MCDepth(c) : c \in Components(t)})

Lists(S) == {<<>>} \cup {<<a>> : a \in S} \cup {<<a, b>> : a \in S, b \in S}

Pairs(S) == {<<a, b>> : a \in S, b \in S}

(* Small contents, and the largest. *)
Some(w) == {0, Base ^ w - 1}

UnitValues == {<<>>}

ErrorValues == {<<n, s>> : n \in Some(4), s \in Short}

LoginValues == {<<s, <<1>>, r, n>> : s \in Short, r \in Short, n \in Some(8)}

MessageValues ==
  {<<n, m, n, 1, s, <<1>> >> : n \in Some(8), m \in Some(8), s \in Short}

PayloadValues ==
  {<<Tag(1), v>> : v \in ErrorValues} \cup {<<Tag(2), v>> : v \in LoginValues}
    \cup {<<Tag(n), <<>> >> : n \in {3, 7, 8}}
    \cup {<<Tag(k), n>> : k \in {4, 5}, n \in Some(8) \cup {Base ^ 2}}
    \cup {<<Tag(6), v>> : v \in MessageValues}

HeaderValues == {<<>>, << << <<1>>, <<>> >> >>}

PacketValues ==
  {<<n, m, p>> : n \in {1, Base - 3, Base ^ 8 - 1}, m \in HeaderValues, p \in PayloadValues}

TestTagValues == {<<Tag(1), <<>> >>, <<Tag(2), Base ^ 2>>, <<Tag(3), <<1>> >>}

DataValues ==
  {<<i, u, <<1>>, l, p, m, <<0, <<1>> >>, v>> :
     i \in {-(Half(2)), -1, Half(2) - 1}, u \in Some(2), l \in Lists(Short),
     p \in {<<>>, <<0, Base ^ 2 - 1>>}, m \in HeaderValues, v \in TestTagValues}

ListValues == Lists(UpTo(2)) \cup {<<0, 0, 0, 0, 0, 1>>}

(* The values of each type, with those in the values of another. *)
MCValues(t) ==
  CASE t.kind = "uint" -> UpTo(t.width)
    [] t.kind = "int" ->
         {n \in Boundaries : n < Half(t.width)} \cup {-n : n \in {m \in Boundaries : m <= Half(t.width)}}
           \cup {Half(t.width) - 1, -Half(t.width)}
    [] t.kind = "float" -> UpTo(4)
    [] t = Bool -> BOOLEAN
    [] t = Unit -> UnitValues
    [] t = Str -> Strings \cup Names
    [] t = Option(Str) -> {<<>>} \cup {<<s>> : s \in Strings}
    [] t = List(UInt(2)) -> ListValues
    [] t = List(Str) -> Lists(Short)
    [] t.kind = "tuple" -> {<<n, b>> : n \in UpTo(1), b \in BOOLEAN}
    [] t = Struct(<<Str, Str>>) -> Pairs(Short)
    [] t = Headers -> Lists(Pairs(Short))
    [] t \in {Variant[1], Struct(<<UInt(4), Str>>)} -> ErrorValues
    [] t = Variant[2] -> LoginValues
    [] t = Message -> MessageValues
    [] t = Payload -> PayloadValues
    [] t = TestTag -> TestTagValues
    [] t = Packet -> PacketValues
    [] t = Data -> DataValues

=============================================================================
