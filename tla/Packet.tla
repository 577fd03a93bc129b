------------------------------- MODULE Packet -------------------------------
(***************************************************************************)
(* The types whose values travel in this repository, for Codec: the packet *)
(* of im/src/packet.rs, and the struct of the crate's own test.  A tag is  *)
(* the name of a variant; here each is two bytes.                          *)
(***************************************************************************)
EXTENDS Codec

Tag(n) == <<n \div 3, n % 3>>

Headers == MapOf(Str, Str)

(* from, to, timestamp, seq, msg_type, content *)
Message == Struct(<<UInt(8), UInt(8), UInt(8), UInt(4), Str, Str>>)

(* Error, Login, Logout, Ping, Pong, Message, MessageCliAck, MessageSrvAck: *)
(* the first two have fields of their own.                                  *)
Variant == <<StructVariant(<<UInt(4), Str>>), StructVariant(<<Str, Str, Str, UInt(8)>>),
             Unit, UInt(8), UInt(8), Message, Unit, Unit>>

(* A sequence of types as an enum whose variants have them as contents. *)
EnumOf(variants) ==
  Tagged([tag \in {Tag(n) : n \in DOMAIN variants} |->
            variants[CHOOSE n \in DOMAIN variants : Tag(n) = tag]])

Payload == EnumOf(Variant)

(* request_id, headers, payload *)
Packet == Struct(<<UInt(8), Headers, Payload>>)

(* The test of the crate: A, B(u32), C(String) ... *)
TestTag == EnumOf(<<Unit, UInt(4), Str>>)

(* ... in signed, unsigned, message, list, ports, map, inner, tag. *)
Data == Struct(<<SInt(2), UInt(2), Str, List(Str), List(UInt(2)), Headers,
                 Struct(<<UInt(4), Str>>), TestTag>>)

=============================================================================
