------------------------------- MODULE Codec -------------------------------
(***************************************************************************)
(* The binary format of the acceptor_serde crate: what to_bytes writes for *)
(* a value of a type and what from_bytes reads from it, in both byte       *)
(* orders, also when bytes are missing at the end.                         *)
(*                                                                         *)
(* A type is a record; what serde's derive asks of the format for it is    *)
(* external.  The content of an adjacently tagged enum is asked for by the *)
(* type that the variant has, but that of a struct variant, whose fields   *)
(* are written as a struct's, by deserialize_any: it cannot be read.  An   *)
(* option is a sequence of one value or none, and a map the sequence of    *)
(* its pairs in the order in which they are written.                       *)
(***************************************************************************)
EXTENDS Scalars, SequencesExt

CONSTANTS
  Type,        \* types of values
  Values(_),   \* the values of a type
  Depth(_),    \* how deep a type is nested, a scalar 0
  MaxDepth     \* the deepest

VARIABLES type, value, le, stage, input, result

vars == <<type, value, le, stage, input, result>>

(* Types *)
Option(t) == [kind |-> "option", of |-> t]
List(t) == [kind |-> "seq", of |-> t]
Tuple(ts) == [kind |-> "tuple", fields |-> ts]
Struct(ts) == [kind |-> "struct", fields |-> ts]
(* The content of a variant with fields of its own. *)
StructVariant(ts) == [kind |-> "variant", fields |-> ts]
MapOf(k, v) == [kind |-> "map", of |-> Struct(<<k, v>>)]
(* An enum with a tag and a content, by the bytes of the tag. *)
Tagged(contents) == [kind |-> "tagged", contents |-> contents]

(* The types of the values in a value of type t. *)
Components(t) ==
  CASE t.kind \in {"option", "seq", "map"} -> {t.of}
    [] t.kind \in {"tuple", "struct", "variant"} -> Range(t.fields)
    [] t.kind = "tagged" -> {Str} \cup Range(t.contents)
    [] OTHER -> {}

IsType(t) ==
  \/ IsScalarType(t)
  \/ t.kind \in {"option", "seq", "map"}
  \/ /\ t.kind \in {"tuple", "struct", "variant"}
     /\ t.fields \in Seq(Type) /\ Len(t.fields) < Power[8]
  \/ t.kind = "tagged" /\ DOMAIN t.contents \subseteq Values(Str)

(* Each type is there with the types it is made of. *)
ASSUME TypeAssumption ==
  /\ MaxDepth \in Nat
  /\ \A t \in Type :
       /\ IsType(t)
       /\ Depth(t) \in 0 .. MaxDepth
       /\ \A c \in Components(t) : c \in Type /\ Depth(c) < Depth(t)

IsValue(t, v) ==
  CASE IsScalarType(t) -> IsScalar(t, v)
    [] t.kind = "option" -> v \in Seq(Values(t.of)) /\ Len(v) <= 1
    [] t.kind \in {"seq", "map"} -> v \in Seq(Values(t.of)) /\ Len(v) < Power[8]
    [] t.kind \in {"tuple", "struct", "variant"} ->
         /\ v = [i \in DOMAIN t.fields |-> v[i]]
         /\ \A i \in DOMAIN t.fields : v[i] \in Values(t.fields[i])
    [] t.kind = "tagged" ->
         v = <<v[1], v[2]>> /\ v[1] \in DOMAIN t.contents /\ v[2] \in Values(t.contents[v[1]])

(* Each value is there with the values in it. *)
ASSUME ValuesAssumption == \A t \in Type : \A v \in Values(t) : IsValue(t, v)

-----------------------------------------------------------------------------
(* ser::Serializer *)

(* The values that make up value v of type t. *)
Parts(t, v) ==
  CASE t.kind \in {"seq", "map", "option"} -> [i \in DOMAIN v |-> <<t.of, v[i]>>]
    [] t.kind \in {"tuple", "struct", "variant"} -> [i \in DOMAIN v |-> <<t.fields[i], v[i]>>]
    [] t.kind = "tagged" -> << <<Str, v[1]>>, <<t.contents[v[1]], v[2]>> >>
    [] OTHER -> <<>>

(* What is written before them. *)
Lead(t, v, e) ==
  CASE t.kind = "option" -> <<Len(v)>>
    [] t.kind \in {"seq", "map", "tuple"} -> Unsigned(Len(v), e)
    [] t.kind \in {"struct", "variant", "tagged"} -> <<>>
    [] OTHER -> WriteScalar(t, v, e)

(* Values are written one after the other, by the `bytes` of each type. *)
Written(t, v, e, bytes) ==
  LET parts == Parts(t, v) IN
  Lead(t, v, e) \o FlattenSeq([i \in DOMAIN parts |-> bytes[parts[i][1]][parts[i][2]]])

ToBytes(t, v, e) ==
  LET bytes[s \in Type] == [w \in Values(s) |-> Written(s, w, e, bytes)]
  IN bytes[t][v]

-----------------------------------------------------------------------------
(* de::Deserializer *)

(* A value by each of the readers, as long as nothing goes wrong. *)
ReadAll(readers, in) ==
  LET after[i \in 0 .. Len(readers)] ==
        IF i = 0 THEN Ok(<<>>, in)
        ELSE LET before == after[i - 1] IN
             IF before.err # "ok" THEN before
             ELSE Then(readers[i][before.rest], LAMBDA v : Append(before.val, v))
  IN after[Len(readers)]

(* A value of type t, by the `read` of the types that it is made of. *)
ReadBy(t, in, e, read) ==
  LET elements(n) == [i \in 1 .. n |-> read[t.of]]
      size == ParseUnsigned(in, e)
      tag == ParseString(in, e)
      some == ParseBool(in)
  IN CASE t.kind = "option" ->
            IF some.err # "ok" THEN some
            ELSE ReadAll(elements(IF some.val THEN 1 ELSE 0), some.rest)
       [] t.kind \in {"seq", "map"} ->
            IF size.err # "ok" THEN size
            ELSE ReadAll(elements(size.val), size.rest)
       [] t.kind \in {"tuple", "struct"} ->
            ReadAll([i \in DOMAIN t.fields |-> read[t.fields[i]]], in)
       [] t.kind = "tagged" ->
            IF tag.err # "ok" THEN tag
            ELSE IF tag.val \notin DOMAIN t.contents THEN Err("message")
            ELSE Then(read[t.contents[tag.val]][tag.rest], LAMBDA v : <<tag.val, v>>)
       [] t.kind = "variant" -> Err("message")  \* deserialize_any: visit_unit
       [] OTHER -> ReadScalar(t, in, e)

Read(t, in, e) ==
  LET read[s \in Type] == [bytes \in Seq(Byte) |-> ReadBy(s, bytes, e, read)]
  IN read[t][in]

FromBytes(t, in, e) ==
  LET r == Read(t, in, e) IN
  IF r.err = "ok" /\ r.rest # <<>> THEN Err("trailing") ELSE r

-----------------------------------------------------------------------------
(* One value is written, cut short or not, and read. *)

Init ==
  /\ type \in Type
  /\ value \in Values(type)
  /\ le \in BOOLEAN
  /\ stage = "new"
  /\ input = <<>>
  /\ result = Err("none")

Serialize ==
  /\ stage = "new"
  /\ stage' = "written"
  /\ input' = ToBytes(type, value, le)
  /\ UNCHANGED <<type, value, le, result>>

Cut(n) ==
  /\ stage = "written"
  /\ n < Len(input)
  /\ input' = Take(input, n)
  /\ UNCHANGED <<type, value, le, stage, result>>

Deserialize ==
  /\ stage = "written"
  /\ stage' = "read"
  /\ result' = FromBytes(type, input, le)
  /\ UNCHANGED <<type, value, le, input>>

Next == Serialize \/ Deserialize \/ \E n \in 0 .. Len(input) - 1 : Cut(n)

Spec == Init /\ [][Next]_vars

-----------------------------------------------------------------------------
(* Properties *)

(* The types of a value and of the values in it. *)
WithinBy(t, v, within) ==
  {t} \cup UNION {within[p[1]][p[2]] : p \in Range(Parts(t, v))}

Within(t, v) ==
  LET within[s \in Type] == [w \in Values(s) |-> WithinBy(s, w, within)]
  IN within[t][v]

(* Values that are read as they are written: a tuple's length is written   *)
(* but not read, the fields of a struct variant are written but not read,  *)
(* and a float is read in one byte order only.                             *)
Symmetric(t, v, e) ==
  \A s \in Within(t, v) : s.kind \notin {"tuple", "variant"} /\ (s.kind = "float" => ~e)

Whole == input = ToBytes(type, value, le)

(* What is written is bytes, whatever the numbers in it. *)
CodecTypeOK ==
  /\ stage \in {"new", "written", "read"}
  /\ \A i \in DOMAIN input : input[i] \in Byte
  /\ result.err \in {"none", "ok", "eof", "format", "message", "trailing"}

(* A value is read back as it was written, at every boundary of the sizes  *)
(* of numbers and lengths.                                                 *)
RoundTrip ==
  stage = "read" /\ Symmetric(type, value, le) /\ Whole =>
    result.err = "ok" /\ result.val = value

(* Bytes that are cut short are refused for that reason and are never      *)
(* taken for another value.                                                *)
CutIsNoticed ==
  stage = "read" /\ Symmetric(type, value, le) /\ ~Whole => result.err = "eof"

=============================================================================
