------------------------------- MODULE Varint -------------------------------
(***************************************************************************)
(* The numbers of the binary format (serde/src/ser.rs, serde/src/de.rs).   *)
(*                                                                         *)
(* A byte has Base values, 256 in the code; u16, u32 and u64 are two, four *)
(* and eight bytes.  Small numbers are one byte; the three largest bytes   *)
(* are markers for a number of two, four or eight bytes that follows.      *)
(***************************************************************************)
EXTENDS Integers, Sequences

CONSTANT Base

ASSUME BaseAssumption == Base \in Nat /\ Base > 4 /\ Base % 2 = 0

Byte == 0 .. Base - 1

(* How many values k bytes have: Base ^ k, by a recursion that the proofs  *)
(* can take apart.                                                         *)
Power[k \in Nat] == IF k = 0 THEN 1 ELSE Base * Power[k - 1]

(* 0xFD, 0xFE and 0xFF: two, four and eight bytes follow. *)
Marker(width) ==
  CASE width = 2 -> Base - 3
    [] width = 4 -> Base - 2
    [] width = 8 -> Base - 1

-----------------------------------------------------------------------------
(* Bytes of a fixed number, in both orders *)

(* The weight of byte i of w bytes. *)
Weight(i, w, le) == Power[IF le THEN i - 1 ELSE w - i]

(* Faulty variant: every digit with those before it. *)
PutUnreduced(n, w, le) == [i \in 1 .. w |-> n \div Weight(i, w, le)]

Put(n, w, le) == [i \in 1 .. w |-> (n \div Weight(i, w, le)) % Base]

Get(s, le) ==
  LET sum[i \in 0 .. Len(s)] == IF i = 0 THEN 0 ELSE sum[i - 1] + s[i] * Weight(i, Len(s), le)
  IN sum[Len(s)]

-----------------------------------------------------------------------------
(* Numbers of any size *)

(* Faulty variant: the first marker counts as a small number. *)
WidthOverlap(n) ==
  CASE n <= Base - 3 -> 1
    [] n > Base - 3 /\ n < Power[2] -> 2
    [] n > Power[3] - Base /\ n < Power[4] -> 4
    [] OTHER -> 8

(* How many bytes a number takes, besides the marker for two and more: the *)
(* numbers between the largest of two bytes and 0xFFFF01 take eight.       *)
WidthOf(n) ==
  CASE n <= Base - 4 -> 1
    [] n > Base - 4 /\ n < Power[2] -> 2
    [] n > Power[3] - Base /\ n < Power[4] -> 4
    [] OTHER -> 8

(* serialize_unsigned *)
Unsigned(n, le) ==
  LET w == WidthOf(n) IN
  IF w = 1 THEN <<n>> ELSE <<Marker(w)>> \o Put(n, w, le)

Ok(v, rest) == [err |-> "ok", val |-> v, rest |-> rest]
Err(e) == [err |-> e, val |-> <<>>, rest |-> <<>>]

Take(in, n) == SubSeq(in, 1, n)
Drop(in, n) == SubSeq(in, n + 1, Len(in))

(* A number of n bytes after the m that were read. *)
Fixed(in, m, n, le) ==
  IF Len(in) < m + n THEN Err("eof")
  ELSE Ok(Get(SubSeq(in, m + 1, m + n), le), Drop(in, m + n))

(* parse_unsigned *)
ParseUnsigned(in, le) ==
  IF in = <<>> THEN Err("eof")
  ELSE CASE in[1] = Marker(8) -> Fixed(in, 1, 8, le)
         [] in[1] = Marker(4) -> Fixed(in, 1, 4, le)
         [] in[1] = Marker(2) -> Fixed(in, 1, 2, le)
         [] OTHER -> Ok(in[1], Drop(in, 1))

-----------------------------------------------------------------------------
(* Signed numbers: ((v << 1) ^ (v >> 63)) and (u >> 1) ^ -(u & 1) *)

ZigzagEncode(v) == IF v >= 0 THEN 2 * v ELSE -2 * v - 1

ZigzagDecode(u) == IF u % 2 = 0 THEN u \div 2 ELSE -(u \div 2) - 1

(* `as u8`, `as u16`, `as u32`: the low bytes. *)
Wrap(u, w) == u % Power[w]

(* `as i8`, `as i16`, `as i32` *)
WrapSigned(v, w) ==
  LET m == Power[w] IN ((v + m \div 2) % m) - m \div 2

=============================================================================
