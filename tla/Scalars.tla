------------------------------ MODULE Scalars ------------------------------
(***************************************************************************)
(* The values of the binary format (serde/src/ser.rs, serde/src/de.rs)     *)
(* that have no values in them: what is written for one, and what is read  *)
(* from the front of some bytes for one.                                   *)
(*                                                                         *)
(* A float stands for its bits and a string for its bytes.                 *)
(***************************************************************************)
EXTENDS Varint

(* Types *)
Bool == [kind |-> "bool"]
UInt(w) == [kind |-> "uint", width |-> w]
SInt(w) == [kind |-> "int", width |-> w]
Float(w) == [kind |-> "float", width |-> w]
Str == [kind |-> "str"]
Unit == [kind |-> "unit"]

Width == {1, 2, 4, 8}

IsScalarType(t) ==
  t \in {Bool, Str, Unit} \cup {UInt(w) : w \in Width} \cup {SInt(w) : w \in Width}
          \cup {Float(w) : w \in Width}

(* String::from_utf8: here the lower half of the bytes is what it takes. *)
Utf8(s) == \A i \in DOMAIN s : s[i] < Base \div 2

(* The signed numbers of w bytes. *)
Signed(w) == - (Power[w] \div 2) .. (Power[w] \div 2) - 1

IsScalar(t, v) ==
  CASE t.kind = "bool" -> v \in BOOLEAN
    [] t.kind \in {"uint", "float"} -> v \in 0 .. Power[t.width] - 1
    [] t.kind = "int" -> v \in Signed(t.width)
    [] t.kind = "str" -> v \in Seq(Byte) /\ Utf8(v) /\ Len(v) < Power[8]
    [] t.kind = "unit" -> v = <<>>

-----------------------------------------------------------------------------
(* ser::Serializer *)

WriteScalar(t, v, e) ==
  CASE t.kind = "bool" -> <<IF v THEN 1 ELSE 0>>
    [] t.kind = "uint" -> Unsigned(v, e)
    [] t.kind = "int" -> Unsigned(ZigzagEncode(v), e)
    [] t.kind = "float" -> Put(v, t.width, e)
    [] t.kind = "str" -> Unsigned(Len(v), e) \o v
    [] t.kind = "unit" -> <<>>

-----------------------------------------------------------------------------
(* de::Deserializer *)

(* Faulty variant: as many bytes as there are. *)
ParseWhatIsThere(in, e) ==
  LET n == ParseUnsigned(in, e) IN
  IF n.err # "ok" THEN n
  ELSE IF Len(n.rest) < n.val THEN Ok(n.rest, <<>>)
  ELSE Ok(Take(n.rest, n.val), Drop(n.rest, n.val))

ParseBytes(in, e) ==
  LET n == ParseUnsigned(in, e) IN
  IF n.err # "ok" THEN n
  ELSE IF Len(n.rest) < n.val THEN Err("eof")
  ELSE Ok(Take(n.rest, n.val), Drop(n.rest, n.val))

ParseString(in, e) ==
  LET s == ParseBytes(in, e) IN
  IF s.err = "ok" /\ ~Utf8(s.val) THEN Err("format") ELSE s

ParseBool(in) == IF in = <<>> THEN Err("eof") ELSE Ok(in[1] # 0, Drop(in, 1))

(* r with its value mapped by Op. *)
Then(r, Op(_)) == IF r.err = "ok" THEN Ok(Op(r.val), r.rest) ELSE r

(* A value with no values in it. *)
ReadScalar(t, in, e) ==
  CASE t.kind = "bool" -> ParseBool(in)
    [] t.kind = "uint" -> Then(ParseUnsigned(in, e), LAMBDA u : Wrap(u, t.width))
    [] t.kind = "int" ->
         Then(ParseUnsigned(in, e), LAMBDA u : WrapSigned(ZigzagDecode(u), t.width))
    [] t.kind = "float" -> Fixed(in, 0, t.width, FALSE)
    [] t.kind = "str" -> ParseString(in, e)
    [] t.kind = "unit" -> Ok(<<>>, in)

=============================================================================
