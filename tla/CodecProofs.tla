---------------------------- MODULE CodecProofs ----------------------------
(***************************************************************************)
(* Proofs about Codec, for every set of types and of their values: what is *)
(* written for a value is bytes, is read back as that value, and is        *)
(* refused when it is cut short; the last two for the values that are read *)
(* as they are written.                                                    *)
(***************************************************************************)
EXTENDS Codec, ScalarsProofs

-----------------------------------------------------------------------------
(* Types *)

LEMMA ScalarKinds ==
  ASSUME NEW t, IsScalarType(t)
  PROVE  t.kind \in {"bool", "uint", "int", "float", "str", "unit"}
BY DEF IsScalarType, Bool, UInt, SInt, Float, Str, Unit

LEMMA CompoundKinds ==
  ASSUME NEW t, t.kind \in {"option", "seq", "map", "tuple", "struct", "variant", "tagged"}
  PROVE  ~IsScalarType(t)
BY ScalarKinds

(* Each definition by cases, kind by kind. *)
LEMMA ComponentsOf ==
  ASSUME NEW t
  PROVE  /\ IsScalarType(t) => Components(t) = {}
         /\ t.kind \in {"option", "seq", "map"} => Components(t) = {t.of}
         /\ t.kind \in {"tuple", "struct", "variant"} => Components(t) = Range(t.fields)
         /\ t.kind = "tagged" => Components(t) = {Str} \cup Range(t.contents)
BY ScalarKinds DEF Components

LEMMA ValuesOf ==
  ASSUME NEW t \in Type, NEW v \in Values(t)
  PROVE  /\ IsScalarType(t) => IsScalar(t, v)
         /\ t.kind = "option" => v \in Seq(Values(t.of)) /\ Len(v) <= 1
         /\ t.kind \in {"seq", "map"} => v \in Seq(Values(t.of)) /\ Len(v) < Power[8]
         /\ t.kind \in {"tuple", "struct", "variant"} =>
              /\ v = [i \in DOMAIN t.fields |-> v[i]]
              /\ \A i \in DOMAIN t.fields : v[i] \in Values(t.fields[i])
         /\ t.kind = "tagged" =>
              /\ v = <<v[1], v[2]>>
              /\ v[1] \in DOMAIN t.contents
              /\ v[2] \in Values(t.contents[v[1]])
<1>1. IsValue(t, v)
  BY ValuesAssumption
<1>2. ASSUME IsScalarType(t) PROVE IsScalar(t, v)
  <2>1. t.kind \notin {"option", "seq", "map", "tuple", "struct", "variant", "tagged"}
    BY <1>2, ScalarKinds
  <2> QED
    BY <1>1, <1>2, <2>1 DEF IsValue
<1>3. t.kind = "option" => v \in Seq(Values(t.of)) /\ Len(v) <= 1
  BY <1>1, CompoundKinds DEF IsValue
<1>4. ASSUME t.kind \in {"seq", "map"} PROVE v \in Seq(Values(t.of)) /\ Len(v) < Power[8]
  <2>1. ~IsScalarType(t) /\ t.kind # "option"
    BY <1>4, CompoundKinds
  <2> QED
    BY <1>1, <1>4, <2>1 DEF IsValue
<1>5. ASSUME t.kind \in {"tuple", "struct", "variant"}
      PROVE  /\ v = [i \in DOMAIN t.fields |-> v[i]]
             /\ \A i \in DOMAIN t.fields : v[i] \in Values(t.fields[i])
  <2>1. ~IsScalarType(t) /\ t.kind \notin {"option", "seq", "map"}
    BY <1>5, CompoundKinds
  <2> QED
    BY <1>1, <1>5, <2>1 DEF IsValue
<1>6. ASSUME t.kind = "tagged"
      PROVE  /\ v = <<v[1], v[2]>>
             /\ v[1] \in DOMAIN t.contents
             /\ v[2] \in Values(t.contents[v[1]])
  <2>1. ~IsScalarType(t) /\ t.kind \notin {"option", "seq", "map", "tuple", "struct", "variant"}
    BY <1>6, CompoundKinds
  <2> QED
    BY <1>1, <1>6, <2>1 DEF IsValue
<1> QED
  BY <1>2, <1>3, <1>4, <1>5, <1>6

LEMMA PartsOf ==
  ASSUME NEW t, NEW v
  PROVE  /\ IsScalarType(t) => Parts(t, v) = <<>>
         /\ t.kind \in {"option", "seq", "map"} => Parts(t, v) = [i \in DOMAIN v |-> <<t.of, v[i]>>]
         /\ t.kind \in {"tuple", "struct", "variant"} => Parts(t, v) = [i \in DOMAIN v |-> <<t.fields[i], v[i]>>]
         /\ t.kind = "tagged" => Parts(t, v) = << <<Str, v[1]>>, <<t.contents[v[1]], v[2]>> >>
BY ScalarKinds DEF Parts

LEMMA LeadOf ==
  ASSUME NEW t, NEW v, NEW e
  PROVE  /\ IsScalarType(t) => Lead(t, v, e) = WriteScalar(t, v, e)
         /\ t.kind = "option" => Lead(t, v, e) = <<Len(v)>>
         /\ t.kind \in {"seq", "map", "tuple"} => Lead(t, v, e) = Unsigned(Len(v), e)
         /\ t.kind \in {"struct", "variant", "tagged"} => Lead(t, v, e) = <<>>
BY ScalarKinds DEF Lead

LEMMA ReadByScalar ==
  ASSUME NEW t, IsScalarType(t), NEW in, NEW e, NEW f
  PROVE  ReadBy(t, in, e, f) = ReadScalar(t, in, e)
<1>1. t.kind \notin {"option", "seq", "map", "tuple", "struct", "variant", "tagged"}
  BY ScalarKinds
<1> QED
  BY <1>1 DEF ReadBy

LEMMA ReadByOption ==
  ASSUME NEW t, t.kind = "option", NEW in, NEW e, NEW f
  PROVE  ReadBy(t, in, e, f)
           = LET some == ParseBool(in) IN
             IF some.err # "ok" THEN some
             ELSE ReadAll([i \in 1 .. (IF some.val THEN 1 ELSE 0) |-> f[t.of]], some.rest)
BY DEF ReadBy

(* What the values of a type are made of. *)
LEMMA PartsAre ==
  ASSUME NEW t \in Type, NEW v \in Values(t), NEW i \in DOMAIN Parts(t, v)
  PROVE  /\ Parts(t, v)[i][1] \in Components(t)
         /\ Parts(t, v)[i][1] \in Type
         /\ Parts(t, v)[i][2] \in Values(Parts(t, v)[i][1])
<1>0. IsType(t) /\ \A c \in Components(t) : c \in Type
  BY TypeAssumption
<1> SUFFICES /\ Parts(t, v)[i][1] \in Components(t)
             /\ Parts(t, v)[i][2] \in Values(Parts(t, v)[i][1])
  BY <1>0
<1>1. CASE IsScalarType(t)
  <2>1. Parts(t, v) = <<>>
    BY <1>1, PartsOf
  <2> QED
    BY <2>1
<1>2. CASE t.kind \in {"option", "seq", "map"}
  <2>1. Parts(t, v) = [j \in DOMAIN v |-> <<t.of, v[j]>>] /\ v \in Seq(Values(t.of))
        /\ Components(t) = {t.of}
    BY <1>2, PartsOf, ValuesOf, ComponentsOf
  <2>2. i \in DOMAIN v /\ Parts(t, v)[i] = <<t.of, v[i]>>
    BY <2>1
  <2>3. v[i] \in Values(t.of)
    BY <2>1, <2>2
  <2> QED
    BY <2>1, <2>2, <2>3
<1>3. CASE t.kind \in {"tuple", "struct", "variant"}
  <2>1. /\ Parts(t, v) = [j \in DOMAIN v |-> <<t.fields[j], v[j]>>]
        /\ v = [j \in DOMAIN t.fields |-> v[j]]
        /\ \A j \in DOMAIN t.fields : v[j] \in Values(t.fields[j])
        /\ Components(t) = Range(t.fields)
    BY <1>3, PartsOf, ValuesOf, ComponentsOf
  <2>2. DOMAIN v = DOMAIN t.fields
    BY <2>1
  <2>3. i \in DOMAIN t.fields /\ Parts(t, v)[i] = <<t.fields[i], v[i]>>
    BY <2>1, <2>2
  <2>4. t.fields[i] \in Range(t.fields)
    BY <2>3 DEF Range
  <2> QED
    BY <2>1, <2>3, <2>4
<1>4. CASE t.kind = "tagged" /\ DOMAIN t.contents \subseteq Values(Str)
  <2>1. /\ Parts(t, v) = << <<Str, v[1]>>, <<t.contents[v[1]], v[2]>> >>
        /\ v[1] \in DOMAIN t.contents
        /\ v[2] \in Values(t.contents[v[1]])
        /\ Components(t) = {Str} \cup Range(t.contents)
    BY <1>4, PartsOf, ValuesOf, ComponentsOf
  <2>2. t.contents[v[1]] \in Range(t.contents)
    BY <2>1 DEF Range
  <2>3. i \in {1, 2}
    BY <2>1
  <2> QED
    BY <1>4, <2>1, <2>2, <2>3
<1> QED
  BY <1>0, <1>1, <1>2, <1>3, <1>4 DEF IsType

-----------------------------------------------------------------------------
(* The functions over types exist, and are what they are defined as *)

(* The types that are less than n deep. *)
Beneath(n) == {t \in Type : Depth(t) < n}

LEMMA BeneathIs ==
  /\ Beneath(0) = {}
  /\ Beneath(MaxDepth + 1) = Type
  /\ \A n \in Nat : \A t \in Beneath(n + 1) : t \in Type /\ Components(t) \subseteq Beneath(n)
BY TypeAssumption DEF Beneath

LEMMA SameWritten ==
  ASSUME NEW t \in Type, NEW v \in Values(t), NEW e, NEW f, NEW g,
         \A c \in Components(t) : f[c] = g[c]
  PROVE  Written(t, v, e, f) = Written(t, v, e, g)
<1>1. \A i \in DOMAIN Parts(t, v) :
        f[Parts(t, v)[i][1]][Parts(t, v)[i][2]] = g[Parts(t, v)[i][1]][Parts(t, v)[i][2]]
  BY PartsAre
<1> QED
  BY <1>1 DEF Written

LEMMA SameWithin ==
  ASSUME NEW t \in Type, NEW v \in Values(t), NEW f, NEW g, \A c \in Components(t) : f[c] = g[c]
  PROVE  WithinBy(t, v, f) = WithinBy(t, v, g)
<1>1. \A p \in Range(Parts(t, v)) : f[p[1]][p[2]] = g[p[1]][p[2]]
  BY PartsAre DEF Range
<1> QED
  BY <1>1 DEF WithinBy

LEMMA SameRead ==
  ASSUME NEW t \in Type, NEW in, NEW e, NEW f, NEW g, \A c \in Components(t) : f[c] = g[c]
  PROVE  ReadBy(t, in, e, f) = ReadBy(t, in, e, g)
<1>0. IsType(t)
  BY TypeAssumption
<1>c. t.kind \in {"option", "seq", "map"} => f[t.of] = g[t.of]
  BY ComponentsOf
<1>1. CASE IsScalarType(t)
  <2>1. t.kind \notin {"option", "seq", "map", "tuple", "struct", "variant", "tagged"}
    BY <1>1, ScalarKinds
  <2> QED
    BY <2>1 DEF ReadBy
<1>2. CASE t.kind = "option"
  BY <1>2, <1>c DEF ReadBy
<1>3. CASE t.kind \in {"seq", "map"}
  <2>1. t.kind # "option"
    BY <1>3
  <2> QED
    BY <1>3, <1>c, <2>1 DEF ReadBy
<1>4. CASE t.kind \in {"tuple", "struct"}
  <2>1. \A i \in DOMAIN t.fields : f[t.fields[i]] = g[t.fields[i]]
    BY <1>4, ComponentsOf DEF Range
  <2>2. t.kind \notin {"option", "seq", "map"}
    BY <1>4
  <2> QED
    BY <1>4, <2>1, <2>2 DEF ReadBy
<1>5. CASE t.kind = "tagged"
  <2>1. \A s \in DOMAIN t.contents : f[t.contents[s]] = g[t.contents[s]]
    BY <1>5, ComponentsOf DEF Range
  <2> QED
    BY <1>5, <2>1 DEF ReadBy, Then
<1>6. CASE t.kind = "variant"
  BY <1>6 DEF ReadBy
<1> QED
  BY <1>0, <1>1, <1>2, <1>3, <1>4, <1>5, <1>6 DEF IsType

LEMMA BytesExist ==
  ASSUME NEW e
  PROVE  \E f : f = [s \in Type |-> [w \in Values(s) |-> Written(s, w, e, f)]]
<1> DEFINE Of(f, n) == [s \in Beneath(n) |-> [w \in Values(s) |-> Written(s, w, e, f)]]
           Good == {n \in Nat : \E f : f = Of(f, n)}
<1>1. 0 \in Good
  <2> DEFINE f == [s \in {} |-> s]
  <2>1. f = Of(f, 0)
    BY BeneathIs
  <2> HIDE DEF f, Of
  <2> QED
    BY <2>1
<1>2. ASSUME NEW n \in Nat, n \in Good PROVE n + 1 \in Good
  <2>1. PICK f : f = Of(f, n)
    BY <1>2
  <2> DEFINE g == Of(f, n + 1)
  <2>2. \A s \in Beneath(n) : s \in Beneath(n + 1) /\ f[s] = g[s]
    <3>1. \A s \in Beneath(n) : s \in Beneath(n + 1)
      BY TypeAssumption DEF Beneath
    <3>2. \A s \in Beneath(n) : f[s] = [w \in Values(s) |-> Written(s, w, e, f)]
      BY <2>1, Zenon
    <3> QED
      BY <3>1, <3>2, Zenon
  <2> HIDE DEF g
  <2>3. ASSUME NEW s \in Beneath(n + 1), NEW w \in Values(s)
        PROVE  Written(s, w, e, f) = Written(s, w, e, g)
    <3>1. s \in Type /\ \A c \in Components(s) : f[c] = g[c]
      BY <2>2, BeneathIs
    <3> QED
      BY <3>1, SameWritten
  <2>4. g = Of(g, n + 1)
    BY <2>3 DEF g
  <2> HIDE DEF Of
  <2> QED
    BY <2>4
<1> HIDE DEF Good
<1>3. MaxDepth + 1 \in Good
  BY <1>1, <1>2, Induction, TypeAssumption
<1> QED
  BY <1>3, BeneathIs DEF Good

LEMMA ReadExists ==
  ASSUME NEW e
  PROVE  \E f : f = [s \in Type |-> [b \in Seq(Byte) |-> ReadBy(s, b, e, f)]]
<1> DEFINE Of(f, n) == [s \in Beneath(n) |-> [b \in Seq(Byte) |-> ReadBy(s, b, e, f)]]
           Good == {n \in Nat : \E f : f = Of(f, n)}
<1>1. 0 \in Good
  <2> DEFINE f == [s \in {} |-> s]
  <2>1. f = Of(f, 0)
    BY BeneathIs
  <2> HIDE DEF f, Of
  <2> QED
    BY <2>1
<1>2. ASSUME NEW n \in Nat, n \in Good PROVE n + 1 \in Good
  <2>1. PICK f : f = Of(f, n)
    BY <1>2
  <2> DEFINE g == Of(f, n + 1)
  <2>2. \A s \in Beneath(n) : s \in Beneath(n + 1) /\ f[s] = g[s]
    <3>1. \A s \in Beneath(n) : s \in Beneath(n + 1)
      BY TypeAssumption DEF Beneath
    <3>2. \A s \in Beneath(n) : f[s] = [b \in Seq(Byte) |-> ReadBy(s, b, e, f)]
      BY <2>1, Zenon
    <3> QED
      BY <3>1, <3>2, Zenon
  <2> HIDE DEF g
  <2>3. ASSUME NEW s \in Beneath(n + 1), NEW b \in Seq(Byte)
        PROVE  ReadBy(s, b, e, f) = ReadBy(s, b, e, g)
    <3>1. s \in Type /\ \A c \in Components(s) : f[c] = g[c]
      BY <2>2, BeneathIs
    <3> QED
      BY <3>1, SameRead
  <2>4. g = Of(g, n + 1)
    BY <2>3 DEF g
  <2> HIDE DEF Of
  <2> QED
    BY <2>4
<1> HIDE DEF Good
<1>3. MaxDepth + 1 \in Good
  BY <1>1, <1>2, Induction, TypeAssumption
<1> QED
  BY <1>3, BeneathIs DEF Good

LEMMA WithinExist ==
  \E f : f = [s \in Type |-> [w \in Values(s) |-> WithinBy(s, w, f)]]
<1> DEFINE Of(f, n) == [s \in Beneath(n) |-> [w \in Values(s) |-> WithinBy(s, w, f)]]
           Good == {n \in Nat : \E f : f = Of(f, n)}
<1>1. 0 \in Good
  <2> DEFINE f == [s \in {} |-> s]
  <2>1. f = Of(f, 0)
    BY BeneathIs
  <2> HIDE DEF f, Of
  <2> QED
    BY <2>1
<1>2. ASSUME NEW n \in Nat, n \in Good PROVE n + 1 \in Good
  <2>1. PICK f : f = Of(f, n)
    BY <1>2
  <2> DEFINE g == Of(f, n + 1)
  <2>2. \A s \in Beneath(n) : s \in Beneath(n + 1) /\ f[s] = g[s]
    <3>1. \A s \in Beneath(n) : s \in Beneath(n + 1)
      BY TypeAssumption DEF Beneath
    <3>2. \A s \in Beneath(n) : f[s] = [w \in Values(s) |-> WithinBy(s, w, f)]
      BY <2>1, Zenon
    <3> QED
      BY <3>1, <3>2, Zenon
  <2> HIDE DEF g
  <2>3. ASSUME NEW s \in Beneath(n + 1), NEW w \in Values(s)
        PROVE  WithinBy(s, w, f) = WithinBy(s, w, g)
    <3>1. s \in Type /\ \A c \in Components(s) : f[c] = g[c]
      BY <2>2, BeneathIs
    <3> QED
      BY <3>1, SameWithin
  <2>4. g = Of(g, n + 1)
    BY <2>3 DEF g
  <2> HIDE DEF Of
  <2> QED
    BY <2>4
<1> HIDE DEF Good
<1>3. MaxDepth + 1 \in Good
  BY <1>1, <1>2, Induction, TypeAssumption
<1> QED
  BY <1>3, BeneathIs DEF Good

(* Values are written one after the other. *)
LEMMA ToBytesIs ==
  ASSUME NEW t \in Type, NEW v \in Values(t), NEW e
  PROVE  ToBytes(t, v, e)
           = Lead(t, v, e)
               \o FlattenSeq([i \in DOMAIN Parts(t, v) |->
                                ToBytes(Parts(t, v)[i][1], Parts(t, v)[i][2], e)])
<1> DEFINE f == CHOOSE h : h = [s \in Type |-> [w \in Values(s) |-> Written(s, w, e, h)]]
<1>1. f = [s \in Type |-> [w \in Values(s) |-> Written(s, w, e, f)]]
  BY BytesExist
<1>2. \A s, w : ToBytes(s, w, e) = f[s][w]
  BY DEF ToBytes
<1> HIDE DEF f
<1>3. ToBytes(t, v, e) = Written(t, v, e, f)
  BY <1>1, <1>2
<1> QED
  BY <1>2, <1>3 DEF Written

(* The values in a value are read as they are by themselves. *)
Reader(t, e) == [in \in Seq(Byte) |-> Read(t, in, e)]

Readers(e) == [t \in Type |-> Reader(t, e)]

LEMMA ReadIs ==
  ASSUME NEW t \in Type, NEW in \in Seq(Byte), NEW e
  PROVE  Read(t, in, e) = ReadBy(t, in, e, Readers(e))
<1> DEFINE f == CHOOSE h : h = [s \in Type |-> [b \in Seq(Byte) |-> ReadBy(s, b, e, h)]]
<1>1. f = [s \in Type |-> [b \in Seq(Byte) |-> ReadBy(s, b, e, f)]]
  BY ReadExists
<1>2. \A s, b : Read(s, b, e) = f[s][b]
  BY DEF Read
<1> HIDE DEF f
<1>3. \A s \in Type : f[s] = [b \in Seq(Byte) |-> ReadBy(s, b, e, f)]
  BY <1>1, Zenon
<1>4. ASSUME NEW s \in Type PROVE Reader(s, e) = f[s]
  <2>1. Reader(s, e) = [b \in Seq(Byte) |-> f[s][b]]
    BY <1>2 DEF Reader
  <2> QED
    BY <1>3, <2>1
<1>5. f = Readers(e)
  <2>1. f = [s \in Type |-> f[s]]
    BY <1>1
  <2>2. f = [s \in Type |-> Reader(s, e)]
    BY <2>1, <1>4
  <2> QED
    BY <2>2 DEF Readers
<1>6. Read(t, in, e) = ReadBy(t, in, e, f)
  <2>1. f[t][in] = ReadBy(t, in, e, f)
    BY <1>3
  <2> QED
    BY <1>2, <2>1, Zenon
<1> QED
  BY <1>5, <1>6

LEMMA WithinIs ==
  ASSUME NEW t \in Type, NEW v \in Values(t)
  PROVE  /\ t \in Within(t, v)
         /\ \A i \in DOMAIN Parts(t, v) :
              Within(Parts(t, v)[i][1], Parts(t, v)[i][2]) \subseteq Within(t, v)
<1> DEFINE f == CHOOSE h : h = [s \in Type |-> [w \in Values(s) |-> WithinBy(s, w, h)]]
<1>1. f = [s \in Type |-> [w \in Values(s) |-> WithinBy(s, w, f)]]
  BY WithinExist
<1>2. \A s, w : Within(s, w) = f[s][w]
  BY DEF Within
<1> HIDE DEF f
<1>3. Within(t, v) = WithinBy(t, v, f)
  <2>1. f[t] = [w \in Values(t) |-> WithinBy(t, w, f)]
    BY <1>1, Zenon
  <2> QED
    BY <1>2, <2>1
<1>4. ASSUME NEW i \in DOMAIN Parts(t, v)
      PROVE  Within(Parts(t, v)[i][1], Parts(t, v)[i][2]) \subseteq WithinBy(t, v, f)
  <2>1. Parts(t, v)[i] \in Range(Parts(t, v))
    BY DEF Range
  <2>2. Within(Parts(t, v)[i][1], Parts(t, v)[i][2]) = f[Parts(t, v)[i][1]][Parts(t, v)[i][2]]
    BY <1>2
  <2> QED
    BY <2>1, <2>2 DEF WithinBy
<1> QED
  BY <1>3, <1>4 DEF WithinBy

-----------------------------------------------------------------------------
(* One after the other *)

(* Two ways to cut the same bytes in two: the first ends inside the second *)
(* one's left side, or after it.                                           *)
Cuts(in, p, l, r) ==
  \/ \E q \in Seq(Byte) : q # <<>> /\ in \o q = l
  \/ \E y \in Seq(Byte) : in = l \o y /\ y \o p = r

LEMMA TwoCuts ==
  \A in, p, l, r \in Seq(Byte) : in \o p = l \o r => Cuts(in, p, l, r)
<1> SUFFICES ASSUME NEW in \in Seq(Byte), NEW p \in Seq(Byte),
                    NEW l \in Seq(Byte), NEW r \in Seq(Byte), in \o p = l \o r
             PROVE  \/ \E q \in Seq(Byte) : q # <<>> /\ in \o q = l
                    \/ \E y \in Seq(Byte) : in = l \o y /\ y \o p = r
  BY DEF Cuts
<1> DEFINE k == Len(in)
           all == l \o r
<1>1. in = Take(all, k)
  <2>1. Take(in \o p, Len(in)) = in
    BY Splits
  <2> QED
    BY <2>1
<1>2. k \in 0 .. Len(l) + Len(r) /\ Len(l) \in Nat /\ Len(r) \in Nat
  <2>1. Len(in \o p) = Len(in) + Len(p) /\ Len(l \o r) = Len(l) + Len(r)
    OBVIOUS
  <2>2. Len(in) \in Nat /\ Len(p) \in Nat /\ Len(l) \in Nat /\ Len(r) \in Nat
    OBVIOUS
  <2> QED
    BY <2>1, <2>2
<1>3. CASE k < Len(l)
  <2> DEFINE q == Drop(l, k)
  <2>1. in = Take(l, k)
    BY <1>1, <1>2, <1>3, TakeOfBoth
  <2>2. q \in Seq(Byte) /\ Len(q) = Len(l) - k /\ \A i \in 1 .. Len(q) : q[i] = l[k + i]
    BY <1>2, <1>3 DEF Drop
  <2>3. q # <<>>
    <3> HIDE DEF q, k
    <3> QED
      BY <1>2, <1>3, <2>2
  <2>4. in \o q = l
    <3>1. k \in 0 .. Len(l)
      BY <1>2, <1>3
    <3>2. Len(in) = k /\ \A i \in 1 .. k : in[i] = l[i]
      <4> HIDE DEF k
      <4> QED
        BY <2>1, <3>1, TakeIs
    <3> DEFINE s == in \o q
    <3>3. s \in Seq(Byte) /\ Len(s) = Len(l)
      <4> HIDE DEF q
      <4> QED
        BY <1>2, <2>2
    <3>4. ASSUME NEW i \in 1 .. Len(l) PROVE s[i] = l[i]
      <4>1. CASE i <= k
        <5> HIDE DEF q
        <5> QED
          BY <3>2, <4>1, <2>2
      <4>2. CASE ~(i <= k)
        <5>1. i - k \in 1 .. Len(q) /\ k + (i - k) = i
          <6> HIDE DEF q
          <6> QED
            BY <1>2, <2>2, <4>2
        <5> HIDE DEF q
        <5>2. s[i] = q[i - k]
          BY <2>2, <4>2, <5>1
        <5> QED
          BY <2>2, <5>1, <5>2
      <4> QED
        BY <4>1, <4>2
    <3> HIDE DEF s
    <3>5. s = l
      BY <3>3, <3>4, SeqEqual
    <3> QED
      BY <3>5 DEF s
  <2> QED
    BY <2>2, <2>3, <2>4
<1>4. CASE k >= Len(l)
  <2>1. PICK y \in Seq(Byte) : in = l \o y
    <3> HIDE DEF k
    <3>1. \E y \in Seq(Byte) : Take(l \o r, k) = l \o y
      BY <1>2, <1>4, TakeOfBoth
    <3> QED
      BY <1>1, <3>1
  <2>2. in \o p = l \o (y \o p)
    <3>1. (l \o y) \o p = l \o (y \o p)
      OBVIOUS
    <3> QED
      BY <2>1, <3>1
  <2>3. Drop(l \o (y \o p), Len(l)) = y \o p /\ Drop(l \o r, Len(l)) = r
    <3>1. y \o p \in Seq(Byte)
      OBVIOUS
    <3> QED
      BY <3>1, Splits
  <2> QED
    BY <2>1, <2>2, <2>3
<1>5. k < Len(l) \/ k >= Len(l)
  <2> HIDE DEF k
  <2> QED
    BY <1>2
<1> QED
  BY <1>3, <1>4, <1>5

(* f has what the first members of s are together. *)
Joins(f, s, n) ==
  /\ f \in [0 .. n -> Seq(Byte)]
  /\ f[0] = <<>>
  /\ \A i \in 1 .. n : f[i] = f[i - 1] \o s[i]

LEMMA JoinExists ==
  ASSUME NEW n \in Nat, NEW s \in [1 .. n -> Seq(Byte)]
  PROVE  \E f : Joins(f, s, n)
<1> DEFINE S == Seq(Byte)
           h == [k \in Nat |-> [b \in S |-> IF k + 1 \in 1 .. n THEN b \o s[k + 1] ELSE b]]
<1>1. h \in [Nat -> [S -> S]]
  OBVIOUS
<1>2. PICK F \in [Nat -> S] : F[0] = <<>> /\ \A k \in Nat : F[k + 1] = h[k][F[k]]
  <2>1. <<>> \in S
    OBVIOUS
  <2> HIDE DEF S, h
  <2>2. PICK f : Iterates(f, S, <<>>, h)
    BY <1>1, <2>1, Recursion, Zenon
  <2> QED
    BY <2>2 DEF Iterates
<1> DEFINE f == [i \in 0 .. n |-> F[i]]
<1>3. f \in [0 .. n -> Seq(Byte)] /\ f[0] = <<>>
  BY <1>2
<1>4. ASSUME NEW i \in 1 .. n PROVE f[i] = f[i - 1] \o s[i]
  <2>1. i - 1 \in Nat /\ i - 1 \in 0 .. n /\ i \in 0 .. n /\ (i - 1) + 1 = i
    OBVIOUS
  <2>2. F[i] = h[i - 1][F[i - 1]] /\ F[i - 1] \in S
    <3> HIDE DEF h
    <3> QED
      BY <1>2, <2>1
  <2>3. h[i - 1][F[i - 1]] = F[i - 1] \o s[i]
    BY <2>1, <2>2
  <2> QED
    BY <2>1, <2>2, <2>3
<1> HIDE DEF f
<1> QED
  BY <1>3, <1>4 DEF Joins

LEMMA FlattenIs ==
  ASSUME NEW n \in Nat, NEW s \in [1 .. n -> Seq(Byte)], NEW f, Joins(f, s, n)
  PROVE  FlattenSeq(s) = f[n]
<1>1. Len(s) = n
  OBVIOUS
<1>2. f \in [0 .. n -> Seq(Byte)] /\ f[0] = <<>> /\ \A i \in 1 .. n : f[i] = f[i - 1] \o s[i]
  BY DEF Joins
<1>3. CASE n = 0
  <2>1. FlattenSeq(s) = s
    BY <1>1, <1>3 DEF FlattenSeq
  <2>2. s = <<>>
    BY <1>3
  <2> QED
    BY <1>2, <1>3, <2>1, <2>2
<1>4. CASE n # 0
  <2> DEFINE Unfold(g) == [i \in 1 .. n |-> IF i = 1 THEN s[i] ELSE g[i - 1] \o s[i]]
             all == CHOOSE g : g = Unfold(g)
             part == [i \in 1 .. n |-> f[i]]
  <2>1. part = Unfold(part)
    <3>1. f[1] = s[1]
      <4>1. 1 \in 1 .. n /\ 1 - 1 = 0
        BY <1>4
      <4>2. f[1] = <<>> \o s[1]
        BY <1>2, <4>1
      <4> QED
        BY <4>1, <4>2
    <3>2. ASSUME NEW i \in 1 .. n PROVE part[i] = IF i = 1 THEN s[i] ELSE part[i - 1] \o s[i]
      <4>1. i # 1 => i - 1 \in 1 .. n
        OBVIOUS
      <4> QED
        BY <1>2, <3>1, <4>1
    <3> HIDE DEF part
    <3>3. part = [i \in 1 .. n |-> part[i]]
      BY DEF part
    <3>4. [i \in 1 .. n |-> part[i]] = Unfold(part)
      BY <3>2
    <3> QED
      BY <3>3, <3>4
  <2>2. all = Unfold(all)
    <3> HIDE DEF Unfold, part
    <3> QED
      BY <2>1
  <2>3. FlattenSeq(s) = all[n]
    BY <1>1, <1>4 DEF FlattenSeq
  <2> HIDE DEF all
  <2>4. \A i \in 1 .. n : all[i] = IF i = 1 THEN s[i] ELSE all[i - 1] \o s[i]
    BY <2>2
  <2> DEFINE Good == {i \in Nat : i + 1 <= n => all[i + 1] = f[i + 1]}
  <2>5. 0 \in Good
    <3>1. 1 \in 1 .. n /\ 1 - 1 = 0
      BY <1>4
    <3>2. f[1] = <<>> \o s[1] /\ <<>> \o s[1] = s[1]
      <4>1. f[1] = <<>> \o s[1]
        BY <1>2, <3>1
      <4>2. <<>> \o s[1] = s[1]
        BY <3>1
      <4> QED
        BY <4>1, <4>2
    <3>3. all[1] = s[1]
      BY <2>4, <3>1
    <3> QED
      BY <3>2, <3>3
  <2>6. ASSUME NEW i \in Nat, i \in Good PROVE i + 1 \in Good
    <3> SUFFICES ASSUME (i + 1) + 1 <= n PROVE all[(i + 1) + 1] = f[(i + 1) + 1]
      OBVIOUS
    <3> DEFINE j == i + 1
               m == j + 1
    <3>1. j \in 1 .. n /\ m \in 1 .. n /\ m # 1 /\ m - 1 = j /\ j <= n
      OBVIOUS
    <3>2. all[j] = f[j]
      BY <2>6, <3>1
    <3> HIDE DEF j, m
    <3>3. all[m] = f[m]
      <4>1. all[m] = all[m - 1] \o s[m]
        BY <2>4, <3>1
      <4>2. f[m] = f[m - 1] \o s[m]
        BY <1>2, <3>1
      <4> QED
        BY <3>1, <3>2, <4>1, <4>2
    <3> QED
      BY <3>3 DEF j, m
  <2> HIDE DEF Good
  <2>7. \A i \in Nat : i \in Good
    BY <2>5, <2>6, Induction
  <2>8. n - 1 \in Nat /\ (n - 1) + 1 = n
    BY <1>4
  <2>9. all[n] = f[n]
    <3>1. n - 1 \in Good
      BY <2>7, <2>8
    <3> QED
      BY <2>8, <3>1 DEF Good
  <2> QED
    BY <2>3, <2>9
<1> QED
  BY <1>3, <1>4

(* g has what there is after each of n readers. *)
Reads(g, readers, n, in) ==
  /\ g[0] = Ok(<<>>, in)
  /\ \A i \in 1 .. n :
       g[i] = IF g[i - 1].err # "ok" THEN g[i - 1]
              ELSE LET r == readers[i][g[i - 1].rest] IN
                   IF r.err = "ok" THEN Ok(Append(g[i - 1].val, r.val), r.rest) ELSE r

LEMMA ReadAllIs ==
  ASSUME NEW n \in Nat, NEW readers, Len(readers) = n, NEW in
  PROVE  \E g : Reads(g, readers, n, in) /\ ReadAll(readers, in) = g[n]
<1> DEFINE Step(i, b) ==
             IF b.err # "ok" THEN b
             ELSE LET r == readers[i][b.rest] IN
                  IF r.err = "ok" THEN Ok(Append(b.val, r.val), r.rest) ELSE r
           Of(g, m) == [i \in 0 .. m |-> IF i = 0 THEN Ok(<<>>, in) ELSE Step(i, g[i - 1])]
           Good == {m \in Nat : \E g : g = Of(g, m)}
<1>1. 0 \in Good
  <2> DEFINE g == [i \in 0 .. 0 |-> Ok(<<>>, in)]
  <2>1. g = Of(g, 0)
    OBVIOUS
  <2> QED
    BY <2>1
<1>2. ASSUME NEW m \in Nat, m \in Good PROVE m + 1 \in Good
  <2>1. PICK g : g = Of(g, m)
    BY <1>2
  <2> DEFINE k == m + 1
             f == [i \in 0 .. k |-> IF i = 0 THEN Ok(<<>>, in) ELSE Step(i, g[i - 1])]
  <2> HIDE DEF Step
  <2>2. \A i \in 0 .. m : g[i] = IF i = 0 THEN Ok(<<>>, in) ELSE Step(i, g[i - 1])
    BY <2>1
  <2>3. \A i \in 0 .. m : f[i] = g[i]
    BY <2>2
  <2>4. \A i \in 0 .. k : i # 0 => f[i - 1] = g[i - 1]
    <3> HIDE DEF f
    <3> QED
      BY <2>3
  <2> HIDE DEF f
  <2>5. f = Of(f, k)
    BY <2>4 DEF f
  <2> HIDE DEF Of
  <2> QED
    BY <2>5
<1> DEFINE after == CHOOSE g : g = Of(g, n)
<1>3. after = Of(after, n)
  <2> HIDE DEF Good
  <2>1. n \in Good
    BY <1>1, <1>2, Induction
  <2> QED
    BY <2>1 DEF Good
<1>4. ReadAll(readers, in) = after[n]
  BY DEF ReadAll, Then
<1> HIDE DEF after, Step
<1>5. after[0] = Ok(<<>>, in) /\ \A i \in 1 .. n : after[i] = Step(i, after[i - 1])
  BY <1>3
<1>6. Reads(after, readers, n, in)
  BY <1>5 DEF Reads, Step
<1> QED
  BY <1>4, <1>6

-----------------------------------------------------------------------------
(* What is written is bytes *)

LEMMA PartsCount ==
  ASSUME NEW t \in Type, NEW v \in Values(t)
  PROVE  \E n \in Nat : DOMAIN Parts(t, v) = 1 .. n
<1>0. IsType(t)
  BY TypeAssumption
<1>1. CASE IsScalarType(t)
  <2>1. Parts(t, v) = <<>>
    BY <1>1, PartsOf
  <2>2. DOMAIN Parts(t, v) = 1 .. 0
    BY <2>1
  <2> QED
    BY <2>2
<1>2. CASE t.kind \in {"option", "seq", "map"}
  <2>1. DOMAIN Parts(t, v) = DOMAIN v /\ v \in Seq(Values(t.of))
    BY <1>2, PartsOf, ValuesOf
  <2>2. DOMAIN v = 1 .. Len(v) /\ Len(v) \in Nat
    BY <2>1
  <2> QED
    BY <2>1, <2>2
<1>3. CASE t.kind \in {"tuple", "struct", "variant"} /\ t.fields \in Seq(Type)
  <2>1. DOMAIN Parts(t, v) = DOMAIN v
    BY <1>3, PartsOf
  <2>2. v = [i \in DOMAIN t.fields |-> v[i]]
    BY <1>3, ValuesOf
  <2>3. DOMAIN v = DOMAIN t.fields
    BY <2>2
  <2>4. DOMAIN t.fields = 1 .. Len(t.fields) /\ Len(t.fields) \in Nat
    BY <1>3
  <2> QED
    BY <2>1, <2>3, <2>4
<1>4. CASE t.kind = "tagged"
  <2>1. DOMAIN Parts(t, v) = 1 .. 2
    BY <1>4, PartsOf
  <2> QED
    BY <2>1
<1> QED
  BY <1>0, <1>1, <1>2, <1>3, <1>4 DEF IsType

PartBytes(t, v, e) ==
  [i \in DOMAIN Parts(t, v) |-> ToBytes(Parts(t, v)[i][1], Parts(t, v)[i][2], e)]

(* The parts of a value follow each other. *)
(* The n parts of a value are written as bytes, f joins them, and the      *)
(* value is written as that.                                               *)
PartsAreBytes(t, v, e, n) ==
  DOMAIN Parts(t, v) = 1 .. n /\ \A i \in 1 .. n : PartBytes(t, v, e)[i] \in Seq(Byte)

IsWrittenBy(f, t, v, e, n) ==
  /\ Joins(f, PartBytes(t, v, e), n)
  /\ f[n] \in Seq(Byte)
  /\ ToBytes(t, v, e) = Lead(t, v, e) \o f[n]

LEMMA BytesJoin ==
  ASSUME NEW t \in Type, NEW v \in Values(t), NEW e, NEW n \in Nat, PartsAreBytes(t, v, e, n)
  PROVE  \E f : IsWrittenBy(f, t, v, e, n)
<1> DEFINE s == PartBytes(t, v, e)
<1>1. s \in [1 .. n -> Seq(Byte)]
  BY DEF PartsAreBytes, PartBytes
<1>2. ToBytes(t, v, e) = Lead(t, v, e) \o FlattenSeq(s)
  BY ToBytesIs DEF PartBytes
<1> HIDE DEF s
<1>3. PICK f : Joins(f, s, n)
  BY <1>1, JoinExists
<1>4. FlattenSeq(s) = f[n]
  BY <1>1, <1>3, FlattenIs
<1>5. f[n] \in Seq(Byte)
  BY <1>3 DEF Joins
<1>6. IsWrittenBy(f, t, v, e, n)
  BY <1>2, <1>3, <1>4, <1>5 DEF IsWrittenBy, s
<1> QED
  BY <1>6

LEMMA LeadIsBytes ==
  ASSUME NEW t \in Type, NEW v \in Values(t), NEW e \in BOOLEAN
  PROVE  Lead(t, v, e) \in Seq(Byte)
<1>0. IsType(t)
  BY TypeAssumption
<1>1. CASE IsScalarType(t)
  <2>1. IsScalar(t, v) /\ Lead(t, v, e) = WriteScalar(t, v, e)
    BY <1>1, ValuesOf, LeadOf
  <2>2. WriteScalar(t, v, e) \in Seq(Byte)
    BY <1>1, <2>1, ScalarsAreBytes
  <2> QED
    BY <2>1, <2>2
<1>2. CASE t.kind = "option"
  <2>1. v \in Seq(Values(t.of)) /\ Len(v) <= 1 /\ Lead(t, v, e) = <<Len(v)>>
    BY <1>2, ValuesOf, LeadOf
  <2>2. Len(v) \in Byte
    <3>1. Len(v) \in Nat
      BY <2>1
    <3> QED
      BY <2>1, <3>1, BaseAssumption DEF Byte
  <2> QED
    BY <2>1, <2>2
<1>3. CASE t.kind \in {"seq", "map"}
  <2>1. v \in Seq(Values(t.of)) /\ Len(v) < Power[8] /\ Lead(t, v, e) = Unsigned(Len(v), e)
    BY <1>3, ValuesOf, LeadOf
  <2>2. Len(v) \in 0 .. Power[8] - 1
    <3>1. Len(v) \in Nat /\ Power[8] \in Nat
      BY <2>1, PowerPositive
    <3> QED
      BY <2>1, <3>1
  <2> QED
    BY <2>1, <2>2, NumbersAreBytes
<1>4. CASE t.kind = "tuple" /\ t.fields \in Seq(Type) /\ Len(t.fields) < Power[8]
  <2>1. v = [i \in DOMAIN t.fields |-> v[i]] /\ Lead(t, v, e) = Unsigned(Len(v), e)
    BY <1>4, ValuesOf, LeadOf
  <2>2. DOMAIN t.fields = 1 .. Len(t.fields) /\ Len(t.fields) \in Nat
    BY <1>4
  <2>3. Len(v) = Len(t.fields)
    BY <2>1, <2>2
  <2>4. Len(v) \in 0 .. Power[8] - 1
    <3>1. Power[8] \in Nat
      BY PowerPositive
    <3> QED
      BY <1>4, <2>2, <2>3, <3>1
  <2> QED
    BY <2>1, <2>4, NumbersAreBytes
<1>5. CASE t.kind \in {"struct", "variant", "tagged"}
  <2>1. Lead(t, v, e) = <<>>
    BY <1>5, LeadOf
  <2> QED
    BY <2>1
<1> QED
  BY <1>0, <1>1, <1>2, <1>3, <1>4, <1>5 DEF IsType

THEOREM ValuesAreBytes ==
  \A t \in Type : \A v \in Values(t) : \A e \in BOOLEAN : ToBytes(t, v, e) \in Seq(Byte)
<1> SUFFICES ASSUME NEW e \in BOOLEAN
             PROVE  \A t \in Type : \A v \in Values(t) : ToBytes(t, v, e) \in Seq(Byte)
  OBVIOUS
<1> DEFINE Good == {n \in Nat : \A t \in Beneath(n) : \A v \in Values(t) :
                                   ToBytes(t, v, e) \in Seq(Byte)}
<1>1. 0 \in Good
  BY BeneathIs
<1>2. ASSUME NEW n \in Nat, n \in Good PROVE n + 1 \in Good
  <2> SUFFICES ASSUME NEW t \in Beneath(n + 1), NEW v \in Values(t)
               PROVE  ToBytes(t, v, e) \in Seq(Byte)
    OBVIOUS
  <2>1. t \in Type /\ Components(t) \subseteq Beneath(n)
    BY BeneathIs
  <2>2. PICK m \in Nat : DOMAIN Parts(t, v) = 1 .. m
    BY <2>1, PartsCount
  <2>3. ASSUME NEW i \in 1 .. m PROVE PartBytes(t, v, e)[i] \in Seq(Byte)
    <3> DEFINE c == Parts(t, v)[i][1]
               w == Parts(t, v)[i][2]
    <3>1. c \in Beneath(n) /\ w \in Values(c)
      BY <2>1, <2>2, PartsAre
    <3>2. ToBytes(c, w, e) \in Seq(Byte)
      BY <1>2, <3>1
    <3> QED
      BY <2>2, <3>2 DEF PartBytes
  <2> HIDE DEF Good
  <2>4. PICK f : f[m] \in Seq(Byte) /\ ToBytes(t, v, e) = Lead(t, v, e) \o f[m]
    <3>1. PartsAreBytes(t, v, e, m)
      BY <2>2, <2>3 DEF PartsAreBytes
    <3> QED
      BY <2>1, <3>1, BytesJoin DEF IsWrittenBy
  <2>5. Lead(t, v, e) \in Seq(Byte)
    BY <2>1, LeadIsBytes
  <2> QED
    BY <2>4, <2>5
<1> HIDE DEF Good
<1>3. MaxDepth + 1 \in Good
  BY <1>1, <1>2, Induction, TypeAssumption
<1> QED
  BY <1>3, BeneathIs DEF Good

-----------------------------------------------------------------------------
(* What is read is what was written *)

(* r is right for what is read from `in` where v was written as b: v and   *)
(* what follows b, or that there are bytes missing.                        *)
Found(r, in, b, v) ==
  /\ \A x \in Seq(Byte) : in = b \o x => r = Ok(v, x)
  /\ \A p \in Seq(Byte) : p # <<>> /\ in \o p = b => r = Err("eof")

(* The reader finds v wherever it was written as b. *)
Finds(reader, b, v) ==
  b \in Seq(Byte) /\ \A in \in Seq(Byte) : Found(reader[in], in, b, v)

(* Two values, one behind the other. *)
LEMMA FoundBehind ==
  ASSUME NEW in \in Seq(Byte), NEW b \in Seq(Byte), NEW c \in Seq(Byte),
         NEW q, NEW u, Found(q, in, b, u),
         NEW r, NEW v, q.err # "ok" => r = q,
         \A y \in Seq(Byte) : q = Ok(u, y) => Found(r, y, c, v)
  PROVE  Found(r, in, b \o c, v)
<1>1. ASSUME NEW x \in Seq(Byte), in = (b \o c) \o x PROVE r = Ok(v, x)
  <2> DEFINE y == c \o x
  <2>1. y \in Seq(Byte) /\ (b \o c) \o x = b \o y
    BY ConcatAssociative
  <2> HIDE DEF y
  <2>2. q = Ok(u, y)
    BY <1>1, <2>1 DEF Found
  <2>3. Found(r, y, c, v)
    BY <2>1, <2>2
  <2> QED
    BY <2>3 DEF Found, y
<1>2. ASSUME NEW p \in Seq(Byte), p # <<>>, in \o p = b \o c PROVE r = Err("eof")
  <2>1. CASE \E s \in Seq(Byte) : s # <<>> /\ in \o s = b
    <3>1. q = Err("eof")
      BY <2>1 DEF Found
    <3>2. q.err = "eof"
      BY <3>1, ErrFields
    <3> QED
      BY <3>1, <3>2
  <2>2. CASE \E y \in Seq(Byte) : in = b \o y /\ y \o p = c
    <3>1. PICK y \in Seq(Byte) : in = b \o y /\ y \o p = c
      BY <2>2
    <3>2. q = Ok(u, y)
      BY <3>1 DEF Found
    <3>3. Found(r, y, c, v)
      BY <3>2
    <3> QED
      BY <1>2, <3>1, <3>3 DEF Found
  <2>3. Cuts(in, p, b, c)
    BY <1>2, TwoCuts
  <2> QED
    BY <2>1, <2>2, <2>3 DEF Cuts
<1> QED
  BY <1>1, <1>2 DEF Found

(* A value made of the one that is found. *)
LEMMA FoundThen ==
  ASSUME NEW in, NEW b, NEW q, NEW u, Found(q, in, b, u),
         NEW r, NEW v, \A x : q = Ok(u, x) => r = Ok(v, x), q.err # "ok" => r = q
  PROVE  Found(r, in, b, v)
<1>1. q = Err("eof") => r = Err("eof")
  BY ErrFields
<1> QED
  BY <1>1 DEF Found

LEMMA FirstGrows ==
  ASSUME NEW v, NEW i \in Nat
  PROVE  Append([j \in 1 .. i |-> v[j]], v[i + 1]) = [j \in 1 .. i + 1 |-> v[j]]
<1> DEFINE s == [j \in 1 .. i |-> v[j]]
<1>1. Len(s) = i
  OBVIOUS
<1>2. Append(s, v[i + 1]) = [j \in 1 .. i + 1 |-> IF j = i + 1 THEN v[i + 1] ELSE s[j]]
  BY <1>1
<1> QED
  BY <1>2

LEMMA ReadAllFinds ==
  ASSUME NEW n \in Nat, NEW readers, Len(readers) = n, NEW s \in [1 .. n -> Seq(Byte)],
         NEW v, v = [i \in 1 .. n |-> v[i]], NEW f, Joins(f, s, n),
         \A i \in 1 .. n : Finds(readers[i], s[i], v[i]),
         NEW in \in Seq(Byte)
  PROVE  Found(ReadAll(readers, in), in, f[n], v)
<1> DEFINE First(i) == [j \in 1 .. i |-> v[j]]
<1>1. f \in [0 .. n -> Seq(Byte)] /\ f[0] = <<>> /\ \A i \in 1 .. n : f[i] = f[i - 1] \o s[i]
  BY DEF Joins
<1>2. First(0) = <<>> /\ First(n) = v /\ \A i \in Nat : Append(First(i), v[i + 1]) = First(i + 1)
  BY FirstGrows
<1>3. PICK g : Reads(g, readers, n, in) /\ ReadAll(readers, in) = g[n]
  BY ReadAllIs
<1> DEFINE Good == {i \in Nat : i <= n => Found(g[i], in, f[i], First(i))}
<1>4. 0 \in Good
  <2>1. g[0] = Ok(First(0), in)
    BY <1>2, <1>3 DEF Reads
  <2>2. \A x \in Seq(Byte) : f[0] \o x = x
    BY <1>1
  <2>3. \A p \in Seq(Byte) : p # <<>> => in \o p # f[0]
    BY <1>1, ConcatEqualIffEmpty
  <2> HIDE DEF First
  <2>4. Found(g[0], in, f[0], First(0))
    BY <2>1, <2>2, <2>3 DEF Found
  <2> QED
    BY <2>4
<1>5. ASSUME NEW k \in Nat, k \in Good PROVE k + 1 \in Good
  <2> DEFINE i == k + 1
             r == readers[i][g[k].rest]
             next == Append(First(k), v[i])
  <2> SUFFICES ASSUME i <= n PROVE Found(g[i], in, f[i], First(i))
    BY DEF i
  <2>1. i \in 1 .. n /\ i - 1 = k /\ k <= n /\ k \in 0 .. n
    OBVIOUS
  <2>2. Found(g[k], in, f[k], First(k))
    BY <1>5, <2>1
  <2> HIDE DEF First, Good
  <2>3. f[i] = f[k] \o s[i] /\ f[k] \in Seq(Byte) /\ s[i] \in Seq(Byte)
    BY <1>1, <2>1
  <2>4. g[i] = IF g[k].err # "ok" THEN g[k]
               ELSE IF r.err = "ok" THEN Ok(Append(g[k].val, r.val), r.rest) ELSE r
    BY <1>3, <2>1 DEF Reads
  <2>5. Finds(readers[i], s[i], v[i])
    BY <2>1
  <2>6. next = First(i)
    BY <1>2
  <2> HIDE DEF i, next
  <2>7. ASSUME NEW y \in Seq(Byte), g[k] = Ok(First(k), y) PROVE Found(g[i], y, s[i], next)
    <3>1. g[k].err = "ok" /\ g[k].val = First(k) /\ g[k].rest = y
      BY <2>7, OkFields
    <3>2. Found(r, y, s[i], v[i])
      BY <2>5, <3>1 DEF Finds
    <3>3. g[i] = IF r.err = "ok" THEN Ok(Append(First(k), r.val), r.rest) ELSE r
      BY <2>4, <3>1
    <3> HIDE DEF r
    <3>4. ASSUME NEW x, r = Ok(v[i], x) PROVE g[i] = Ok(next, x)
      BY <3>3, <3>4, OkFields DEF next
    <3> QED
      BY <3>2, <3>3, <3>4, FoundThen
  <2>8. g[k].err # "ok" => g[i] = g[k]
    BY <2>4
  <2> HIDE DEF r
  <2>9. Found(g[i], in, f[k] \o s[i], next)
    BY <2>2, <2>3, <2>7, <2>8, FoundBehind
  <2> QED
    BY <2>3, <2>6, <2>9
<1> HIDE DEF Good, First
<1>6. n \in Good
  BY <1>4, <1>5, Induction
<1>7. Found(g[n], in, f[n], First(n))
  BY <1>6 DEF Good
<1> QED
  BY <1>2, <1>3, <1>7

-----------------------------------------------------------------------------
(* Values of each kind *)

(* Fewer bytes are the first ones. *)
LEMMA FewerBytes ==
  ASSUME NEW in \in Seq(Byte), NEW p \in Seq(Byte), p # <<>>
  PROVE  in = Take(in \o p, Len(in)) /\ Len(in) \in 0 .. Len(in \o p) - 1
<1>1. in = Take(in \o p, Len(in))
  BY Splits
<1>2. Len(in \o p) = Len(in) + Len(p) /\ Len(in) \in Nat /\ Len(p) \in Nat
  OBVIOUS
<1>3. Len(p) # 0
  BY EmptySeq
<1> QED
  BY <1>1, <1>2, <1>3

LEMMA NumberFound ==
  ASSUME NEW n \in 0 .. Power[8] - 1, NEW e \in BOOLEAN, NEW in \in Seq(Byte)
  PROVE  Found(ParseUnsigned(in, e), in, Unsigned(n, e), n)
<1>1. ASSUME NEW x \in Seq(Byte), in = Unsigned(n, e) \o x PROVE ParseUnsigned(in, e) = Ok(n, x)
  BY <1>1, NumbersAreRead
<1>2. ASSUME NEW p \in Seq(Byte), p # <<>>, in \o p = Unsigned(n, e)
      PROVE  ParseUnsigned(in, e) = Err("eof")
  <2> DEFINE k == Len(in)
  <2>1. in = Take(Unsigned(n, e), k) /\ k \in 0 .. Len(Unsigned(n, e)) - 1
    BY <1>2, FewerBytes
  <2> HIDE DEF k
  <2> QED
    BY <2>1, CutNumbersAreNoticed
<1> QED
  BY <1>1, <1>2 DEF Found

LEMMA ScalarFound ==
  ASSUME NEW t, IsScalarType(t), NEW v, IsScalar(t, v), NEW e \in BOOLEAN,
         t.kind = "float" => ~e, NEW in \in Seq(Byte)
  PROVE  Found(ReadScalar(t, in, e), in, WriteScalar(t, v, e), v)
<1>1. ASSUME NEW x \in Seq(Byte), in = WriteScalar(t, v, e) \o x PROVE ReadScalar(t, in, e) = Ok(v, x)
  BY <1>1, ScalarsAreRead
<1>2. ASSUME NEW p \in Seq(Byte), p # <<>>, in \o p = WriteScalar(t, v, e)
      PROVE  ReadScalar(t, in, e) = Err("eof")
  <2> DEFINE k == Len(in)
  <2>1. in = Take(WriteScalar(t, v, e), k) /\ k \in 0 .. Len(WriteScalar(t, v, e)) - 1
    BY <1>2, FewerBytes
  <2> HIDE DEF k
  <2> QED
    BY <2>1, CutScalarsAreNoticed
<1> QED
  BY <1>1, <1>2 DEF Found

LEMMA ReaderIs ==
  ASSUME NEW t \in Type, NEW e, NEW in \in Seq(Byte)
  PROVE  Reader(t, e)[in] = ReadBy(t, in, e, Readers(e)) /\ Readers(e)[t] = Reader(t, e)
<1>1. Reader(t, e)[in] = Read(t, in, e)
  BY DEF Reader
<1>2. Readers(e)[t] = Reader(t, e)
  BY DEF Readers
<1> QED
  BY <1>1, <1>2, ReadIs

(* The parts of a value are found where they were written. *)
PartsFound(t, v, e) ==
  \A i \in DOMAIN Parts(t, v) :
    Finds(Reader(Parts(t, v)[i][1], e), PartBytes(t, v, e)[i], Parts(t, v)[i][2])

LEMMA ScalarFinds ==
  ASSUME NEW t \in Type, NEW v \in Values(t), NEW e \in BOOLEAN,
         IsScalarType(t), t.kind = "float" => ~e
  PROVE  Finds(Reader(t, e), ToBytes(t, v, e), v)
<1>1. IsScalar(t, v) /\ Parts(t, v) = <<>> /\ Lead(t, v, e) = WriteScalar(t, v, e)
  BY ValuesOf, PartsOf, LeadOf
<1>2. DOMAIN Parts(t, v) = 1 .. 0 /\ 0 \in Nat
  BY <1>1
<1>3. PICK f : Joins(f, PartBytes(t, v, e), 0) /\ ToBytes(t, v, e) = Lead(t, v, e) \o f[0]
  <2>1. PartsAreBytes(t, v, e, 0)
    BY <1>2 DEF PartsAreBytes
  <2> QED
    BY <1>2, <2>1, BytesJoin DEF IsWrittenBy
<1>4. WriteScalar(t, v, e) \in Seq(Byte)
  BY <1>1, ScalarsAreBytes
<1>5. ToBytes(t, v, e) = WriteScalar(t, v, e)
  <2>1. f[0] = <<>>
    BY <1>3 DEF Joins
  <2> QED
    BY <1>1, <1>3, <1>4, <2>1
<1>6. ASSUME NEW in \in Seq(Byte) PROVE Found(Reader(t, e)[in], in, WriteScalar(t, v, e), v)
  <2>1. Reader(t, e)[in] = ReadScalar(t, in, e)
    <3>1. Reader(t, e)[in] = ReadBy(t, in, e, Readers(e))
      BY ReaderIs
    <3>2. ReadBy(t, in, e, Readers(e)) = ReadScalar(t, in, e)
      BY ReadByScalar, Zenon
    <3> QED
      BY <3>1, <3>2
  <2> QED
    BY <1>1, <2>1, ScalarFound
<1> QED
  BY <1>4, <1>5, <1>6 DEF Finds

(* The readers are those of the n parts of v, which are its elements. *)
ReadersOfParts(readers, t, v, e, n) ==
  /\ Len(readers) = n
  /\ v = [i \in 1 .. n |-> v[i]]
  /\ \A i \in 1 .. n : readers[i] = Reader(Parts(t, v)[i][1], e) /\ Parts(t, v)[i][2] = v[i]

LEMMA PartsAreFound ==
  ASSUME NEW t, NEW v, NEW e, PartsFound(t, v, e), NEW n \in Nat, DOMAIN Parts(t, v) = 1 .. n,
         NEW f, Joins(f, PartBytes(t, v, e), n),
         NEW readers, ReadersOfParts(readers, t, v, e, n), NEW in \in Seq(Byte)
  PROVE  Found(ReadAll(readers, in), in, f[n], v)
<1> DEFINE s == PartBytes(t, v, e)
<1>0. /\ Len(readers) = n
      /\ v = [i \in 1 .. n |-> v[i]]
      /\ \A i \in 1 .. n : readers[i] = Reader(Parts(t, v)[i][1], e) /\ Parts(t, v)[i][2] = v[i]
  BY DEF ReadersOfParts
<1>1. s = [i \in 1 .. n |-> s[i]]
  BY DEF PartBytes
<1> HIDE DEF s
<1>2. \A i \in 1 .. n : Finds(readers[i], s[i], v[i])
  BY <1>0 DEF PartsFound, s
<1>3. s \in [1 .. n -> Seq(Byte)]
  BY <1>1, <1>2 DEF Finds
<1>4. Joins(f, s, n)
  BY DEF s
<1> QED
  BY <1>0, <1>2, <1>3, <1>4, ReadAllFinds

LEMMA OptionFinds ==
  ASSUME NEW t \in Type, NEW v \in Values(t), NEW e \in BOOLEAN,
         t.kind = "option", PartsFound(t, v, e), NEW in \in Seq(Byte),
         NEW n \in Nat, DOMAIN Parts(t, v) = 1 .. n, NEW f, Joins(f, PartBytes(t, v, e), n)
  PROVE  Found(ReadBy(t, in, e, Readers(e)), in, Lead(t, v, e) \o f[n], v)
<1>1. /\ v \in Seq(Values(t.of)) /\ Len(v) <= 1
      /\ Parts(t, v) = [i \in DOMAIN v |-> <<t.of, v[i]>>]
      /\ Lead(t, v, e) = <<Len(v)>>
  BY ValuesOf, PartsOf, LeadOf
<1>2. DOMAIN v = 1 .. n /\ Len(v) = n /\ n \in {0, 1} /\ v = [i \in 1 .. n |-> v[i]]
  <2>1. DOMAIN v = 1 .. n
    BY <1>1
  <2>2. Len(v) = n
    BY <1>1, <2>1
  <2> QED
    BY <1>1, <2>1, <2>2
<1>3. t.of \in Type
  BY ComponentsOf, TypeAssumption
<1> DEFINE some == ParseBool(in)
           u == (n = 1)
           r == ReadBy(t, in, e, Readers(e))
           readers == [i \in 1 .. n |-> Reader(t.of, e)]
<1>4. Found(some, in, <<n>>, u)
  <2>1. IsScalarType(Bool) /\ IsScalar(Bool, u) /\ Bool.kind # "float"
    BY DEF IsScalarType, IsScalar, Bool
  <2>2. WriteScalar(Bool, u, e) = <<n>>
    <3>1. WriteScalar(Bool, u, e) = <<IF u THEN 1 ELSE 0>>
      BY WriteCases, Zenon
    <3> QED
      BY <1>2, <3>1
  <2>3. ReadScalar(Bool, in, e) = some
    BY ReadCases, Zenon
  <2> HIDE DEF some, u
  <2>4. Found(ReadScalar(Bool, in, e), in, WriteScalar(Bool, u, e), u)
    BY <2>1, ScalarFound
  <2> QED
    BY <2>2, <2>3, <2>4
<1>5. r = IF some.err # "ok" THEN some
          ELSE ReadAll([i \in 1 .. (IF some.val THEN 1 ELSE 0) |-> Reader(t.of, e)], some.rest)
  <2>1. Readers(e)[t.of] = Reader(t.of, e)
    BY <1>3 DEF Readers
  <2>2. r = IF some.err # "ok" THEN some
            ELSE ReadAll([i \in 1 .. (IF some.val THEN 1 ELSE 0) |-> Readers(e)[t.of]], some.rest)
    BY ReadByOption, Zenon
  <2> QED
    BY <2>1, <2>2
<1>6. \A i \in 1 .. n : Parts(t, v)[i] = <<t.of, v[i]>>
  BY <1>1, <1>2
<1>7. ReadersOfParts(readers, t, v, e, n)
  BY <1>2, <1>6 DEF ReadersOfParts
<1>8. f[n] \in Seq(Byte) /\ <<n>> \in Seq(Byte)
  <2>1. n \in Byte
    BY <1>2, BaseAssumption DEF Byte
  <2> QED
    BY <2>1 DEF Joins
<1> HIDE DEF r, some
<1>9. ASSUME NEW y \in Seq(Byte), some = Ok(u, y) PROVE Found(r, y, f[n], v)
  <2>1. r = ReadAll([i \in 1 .. (IF u THEN 1 ELSE 0) |-> Reader(t.of, e)], y)
    <3>1. some.err = "ok" /\ some.val = u /\ some.rest = y
      BY <1>9, OkFields
    <3> HIDE DEF u
    <3> QED
      BY <1>5, <3>1
  <2>2. (IF u THEN 1 ELSE 0) = n
    BY <1>2
  <2>3. r = ReadAll(readers, y)
    BY <2>1, <2>2
  <2> HIDE DEF readers, u
  <2>4. Found(ReadAll(readers, y), y, f[n], v)
    BY <1>7, PartsAreFound
  <2> QED
    BY <2>3, <2>4
<1>10. some.err # "ok" => r = some
  BY <1>5
<1> HIDE DEF u
<1>11. Found(r, in, <<n>> \o f[n], v)
  BY <1>4, <1>8, <1>9, <1>10, FoundBehind
<1> QED
  BY <1>1, <1>2, <1>11 DEF r

LEMMA ListFinds ==
  ASSUME NEW t \in Type, NEW v \in Values(t), NEW e \in BOOLEAN,
         t.kind \in {"seq", "map"}, PartsFound(t, v, e), NEW in \in Seq(Byte),
         NEW n \in Nat, DOMAIN Parts(t, v) = 1 .. n, NEW f, Joins(f, PartBytes(t, v, e), n)
  PROVE  Found(ReadBy(t, in, e, Readers(e)), in, Lead(t, v, e) \o f[n], v)
<1>1. /\ v \in Seq(Values(t.of)) /\ Len(v) < Power[8]
      /\ Parts(t, v) = [i \in DOMAIN v |-> <<t.of, v[i]>>]
      /\ Lead(t, v, e) = Unsigned(Len(v), e)
  BY ValuesOf, PartsOf, LeadOf
<1>2. DOMAIN v = 1 .. n /\ Len(v) = n /\ v = [i \in 1 .. n |-> v[i]]
  <2>1. DOMAIN v = 1 .. n
    BY <1>1
  <2>2. Len(v) = n
    BY <1>1, <2>1
  <2> QED
    BY <1>1, <2>1, <2>2
<1>3. t.of \in Type
  BY ComponentsOf, TypeAssumption
<1>4. n \in 0 .. Power[8] - 1
  <2>1. Power[8] \in Nat
    BY PowerPositive
  <2> QED
    BY <1>1, <1>2, <2>1
<1> DEFINE size == ParseUnsigned(in, e)
           r == ReadBy(t, in, e, Readers(e))
           readers == [i \in 1 .. n |-> Reader(t.of, e)]
<1>5. Found(size, in, Unsigned(n, e), n)
  BY <1>4, NumberFound
<1>6. r = IF size.err # "ok" THEN size
          ELSE ReadAll([i \in 1 .. size.val |-> Reader(t.of, e)], size.rest)
  <2>1. Readers(e)[t.of] = Reader(t.of, e)
    BY <1>3 DEF Readers
  <2>2. r = IF size.err # "ok" THEN size
            ELSE ReadAll([i \in 1 .. size.val |-> Readers(e)[t.of]], size.rest)
    <3>1. t.kind # "option"
      OBVIOUS
    <3> QED
      BY <3>1 DEF ReadBy
  <2> QED
    BY <2>1, <2>2
<1>7. \A i \in 1 .. n : Parts(t, v)[i] = <<t.of, v[i]>>
  BY <1>1, <1>2
<1> HIDE DEF r, size
<1>8. ASSUME NEW y \in Seq(Byte), size = Ok(n, y) PROVE Found(r, y, f[n], v)
  <2>1. size.err = "ok" /\ size.val = n /\ size.rest = y
    BY <1>8, OkFields
  <2>2. r = ReadAll(readers, y)
    BY <1>6, <2>1
  <2>3. ReadersOfParts(readers, t, v, e, n)
    BY <1>2, <1>7 DEF ReadersOfParts
  <2> HIDE DEF readers
  <2>4. Found(ReadAll(readers, y), y, f[n], v)
    BY <2>3, PartsAreFound
  <2> QED
    BY <2>2, <2>4
<1>9. size.err # "ok" => r = size
  BY <1>6
<1>10. f[n] \in Seq(Byte) /\ Unsigned(n, e) \in Seq(Byte)
  BY <1>4, NumbersAreBytes DEF Joins
<1>11. Found(r, in, Unsigned(n, e) \o f[n], v)
  BY <1>5, <1>8, <1>9, <1>10, FoundBehind
<1> QED
  BY <1>1, <1>2, <1>11 DEF r

LEMMA StructFinds ==
  ASSUME NEW t \in Type, NEW v \in Values(t), NEW e \in BOOLEAN,
         t.kind = "struct", PartsFound(t, v, e), NEW in \in Seq(Byte),
         NEW n \in Nat, DOMAIN Parts(t, v) = 1 .. n, NEW f, Joins(f, PartBytes(t, v, e), n)
  PROVE  Found(ReadBy(t, in, e, Readers(e)), in, Lead(t, v, e) \o f[n], v)
<1>1. /\ v = [i \in DOMAIN t.fields |-> v[i]]
      /\ Parts(t, v) = [i \in DOMAIN v |-> <<t.fields[i], v[i]>>]
      /\ Lead(t, v, e) = <<>>
      /\ Components(t) = Range(t.fields)
  BY ValuesOf, PartsOf, LeadOf, ComponentsOf
<1>2. DOMAIN v = 1 .. n /\ DOMAIN t.fields = 1 .. n /\ v = [i \in 1 .. n |-> v[i]]
  BY <1>1
<1>3. \A i \in 1 .. n : t.fields[i] \in Type
  BY <1>1, <1>2, TypeAssumption DEF Range
<1> DEFINE readers == [i \in 1 .. n |-> Reader(t.fields[i], e)]
<1>4. ReadBy(t, in, e, Readers(e)) = ReadAll(readers, in)
  <2>1. \A i \in 1 .. n : Readers(e)[t.fields[i]] = Reader(t.fields[i], e)
    BY <1>3 DEF Readers
  <2>2. ReadBy(t, in, e, Readers(e)) = ReadAll([i \in DOMAIN t.fields |-> Readers(e)[t.fields[i]]], in)
    <3>1. t.kind \notin {"option", "seq", "map"}
      OBVIOUS
    <3> QED
      BY <3>1 DEF ReadBy
  <2>3. [i \in DOMAIN t.fields |-> Readers(e)[t.fields[i]]] = readers
    BY <1>2, <2>1
  <2> HIDE DEF readers
  <2> QED
    BY <2>2, <2>3
<1>5. \A i \in 1 .. n : Parts(t, v)[i] = <<t.fields[i], v[i]>>
  BY <1>1, <1>2
<1>6. ReadersOfParts(readers, t, v, e, n)
  BY <1>2, <1>5 DEF ReadersOfParts
<1> HIDE DEF readers
<1>7. Found(ReadAll(readers, in), in, f[n], v)
  BY <1>6, PartsAreFound
<1>8. <<>> \o f[n] = f[n]
  <2>1. f[n] \in Seq(Byte)
    BY DEF Joins
  <2> QED
    BY <2>1
<1> QED
  BY <1>1, <1>4, <1>7, <1>8

LEMMA TaggedFinds ==
  ASSUME NEW t \in Type, NEW v \in Values(t), NEW e \in BOOLEAN,
         t.kind = "tagged", PartsFound(t, v, e), NEW in \in Seq(Byte),
         NEW n \in Nat, DOMAIN Parts(t, v) = 1 .. n, NEW f, Joins(f, PartBytes(t, v, e), n)
  PROVE  Found(ReadBy(t, in, e, Readers(e)), in, Lead(t, v, e) \o f[n], v)
<1> DEFINE s == PartBytes(t, v, e)
           c == t.contents[v[1]]
<1>1. /\ v = <<v[1], v[2]>> /\ v[1] \in DOMAIN t.contents
      /\ Parts(t, v) = << <<Str, v[1]>>, <<c, v[2]>> >>
      /\ Lead(t, v, e) = <<>>
      /\ Components(t) = {Str} \cup Range(t.contents)
  <2>1. Parts(t, v) = << <<Str, v[1]>>, <<c, v[2]>> >>
    BY PartsOf, Zenon
  <2>2. Lead(t, v, e) = <<>>
    BY LeadOf
  <2>3. v = <<v[1], v[2]>> /\ v[1] \in DOMAIN t.contents
    BY ValuesOf
  <2>4. Components(t) = {Str} \cup Range(t.contents)
    BY ComponentsOf
  <2> QED
    BY <2>1, <2>2, <2>3, <2>4
<1>2. n = 2
  <2>1. 1 .. n = 1 .. 2
    BY <1>1
  <2>2. 2 \in 1 .. 2
    OBVIOUS
  <2>3. 2 \in 1 .. n
    BY <2>1, <2>2
  <2>4. n >= 2 /\ n \in 1 .. n
    BY <2>3
  <2>5. n \in 1 .. 2
    BY <2>1, <2>4
  <2> QED
    BY <2>4, <2>5
<1>3. c \in Type /\ Str \in Type
  BY <1>1, TypeAssumption DEF Range
<1>4. Finds(Reader(Str, e), s[1], v[1]) /\ Finds(Reader(c, e), s[2], v[2])
  <2>1. Parts(t, v)[1] = <<Str, v[1]>> /\ Parts(t, v)[2] = <<c, v[2]>>
    BY <1>1
  <2>2. 1 \in DOMAIN Parts(t, v) /\ 2 \in DOMAIN Parts(t, v)
    BY <1>2
  <2> QED
    BY <2>1, <2>2 DEF PartsFound
<1> HIDE DEF s, c
<1>5. s[1] \in Seq(Byte) /\ s[2] \in Seq(Byte)
  BY <1>4 DEF Finds
<1>6. Lead(t, v, e) \o f[n] = s[1] \o s[2]
  <2>1. f[0] = <<>> /\ \A i \in 1 .. 2 : f[i] = f[i - 1] \o s[i]
    BY <1>2 DEF Joins, s
  <2>2. f[1] = <<>> \o s[1] /\ f[2] = f[1] \o s[2]
    <3>1. 1 \in 1 .. 2 /\ 1 - 1 = 0 /\ 2 \in 1 .. 2 /\ 2 - 1 = 1
      OBVIOUS
    <3>2. f[1] = f[0] \o s[1]
      BY <2>1, <3>1
    <3>3. f[2] = f[1] \o s[2]
      BY <2>1, <3>1
    <3> QED
      BY <2>1, <3>2, <3>3
  <2>3. f[2] = s[1] \o s[2]
    <3>1. <<>> \o s[1] = s[1]
      BY <1>5
    <3> QED
      BY <2>2, <3>1
  <2>4. s[1] \o s[2] \in Seq(Byte)
    BY <1>5
  <2> QED
    BY <1>1, <1>2, <2>3, <2>4
<1> DEFINE tag == ParseString(in, e)
           r == ReadBy(t, in, e, Readers(e))
           value1 == v[1]
<1>7. Found(tag, in, s[1], value1)
  <2>1. Found(Reader(Str, e)[in], in, s[1], v[1])
    BY <1>4 DEF Finds
  <2>2. Reader(Str, e)[in] = tag
    <3>1. Reader(Str, e)[in] = ReadBy(Str, in, e, Readers(e))
      BY <1>3, ReaderIs
    <3>2. IsScalarType(Str)
      BY DEF IsScalarType
    <3>3. ReadBy(Str, in, e, Readers(e)) = ReadScalar(Str, in, e)
      BY <3>2, ReadByScalar, Zenon
    <3>4. ReadScalar(Str, in, e) = ParseString(in, e)
      BY ReadCases, Zenon
    <3> QED
      BY <3>1, <3>3, <3>4
  <2> QED
    BY <2>1, <2>2
<1>8. r = IF tag.err # "ok" THEN tag
          ELSE IF tag.val \notin DOMAIN t.contents THEN Err("message")
          ELSE LET q == Readers(e)[t.contents[tag.val]][tag.rest] IN
               IF q.err = "ok" THEN Ok(<<tag.val, q.val>>, q.rest) ELSE q
  BY DEF ReadBy, Then
<1> HIDE DEF tag, r
<1>9. ASSUME NEW y \in Seq(Byte), tag = Ok(value1, y) PROVE Found(r, y, s[2], v)
  <2>1. tag.err = "ok" /\ tag.val = v[1] /\ tag.rest = y
    BY <1>9, OkFields
  <2> DEFINE q == Reader(c, e)[y]
  <2>2. Readers(e)[c] = Reader(c, e)
    BY <1>3 DEF Readers
  <2>3. r = IF q.err = "ok" THEN Ok(<<v[1], q.val>>, q.rest) ELSE q
    BY <1>1, <1>8, <2>1, <2>2 DEF c
  <2>4. Found(q, y, s[2], v[2])
    BY <1>4 DEF Finds
  <2> HIDE DEF q
  <2>5. ASSUME NEW x, q = Ok(v[2], x) PROVE r = Ok(v, x)
    <3>1. q.err = "ok" /\ q.val = v[2] /\ q.rest = x
      BY <2>5, OkFields
    <3>2. r = Ok(<<v[1], v[2]>>, x)
      BY <2>3, <3>1
    <3> QED
      BY <1>1, <3>2
  <2> QED
    BY <2>3, <2>4, <2>5, FoundThen
<1>10. tag.err # "ok" => r = tag
  BY <1>8
<1> HIDE DEF value1
<1>11. Found(r, in, s[1] \o s[2], v)
  BY <1>5, <1>7, <1>9, <1>10, FoundBehind
<1> QED
  BY <1>6, <1>11 DEF r

-----------------------------------------------------------------------------
(* Values of every type *)

LEMMA SymmetricIs ==
  ASSUME NEW t \in Type, NEW v \in Values(t), NEW e, Symmetric(t, v, e)
  PROVE  /\ t.kind \notin {"tuple", "variant"} /\ (t.kind = "float" => ~e)
         /\ \A i \in DOMAIN Parts(t, v) : Symmetric(Parts(t, v)[i][1], Parts(t, v)[i][2], e)
BY WithinIs DEF Symmetric

(* A value whose parts are found is found. *)
LEMMA ValueFinds ==
  ASSUME NEW t \in Type, NEW v \in Values(t), NEW e \in BOOLEAN,
         t.kind \notin {"tuple", "variant"}, t.kind = "float" => ~e, PartsFound(t, v, e)
  PROVE  Finds(Reader(t, e), ToBytes(t, v, e), v)
<1>1. IsType(t)
  BY TypeAssumption
<1>2. CASE IsScalarType(t)
  BY <1>2, ScalarFinds
<1>3. CASE t.kind \in {"option", "seq", "map", "struct", "tagged"}
  <2>1. PICK n \in Nat : DOMAIN Parts(t, v) = 1 .. n
    BY PartsCount
  <2>2. PartsAreBytes(t, v, e, n)
    BY <2>1 DEF PartsAreBytes, PartsFound, Finds
  <2>3. PICK f : /\ Joins(f, PartBytes(t, v, e), n)
                 /\ f[n] \in Seq(Byte)
                 /\ ToBytes(t, v, e) = Lead(t, v, e) \o f[n]
    BY <2>2, BytesJoin DEF IsWrittenBy
  <2>4. ASSUME NEW in \in Seq(Byte)
        PROVE  Found(ReadBy(t, in, e, Readers(e)), in, Lead(t, v, e) \o f[n], v)
    BY <1>3, <2>1, <2>3, OptionFinds, ListFinds, StructFinds, TaggedFinds
  <2>5. \A in \in Seq(Byte) : Reader(t, e)[in] = ReadBy(t, in, e, Readers(e))
    BY ReaderIs
  <2>6. ToBytes(t, v, e) \in Seq(Byte)
    BY ValuesAreBytes
  <2> QED
    BY <2>3, <2>4, <2>5, <2>6 DEF Finds
<1> QED
  BY <1>1, <1>2, <1>3 DEF IsType

(* A value with no tuple, no struct variant and, in the little endian      *)
(* order, no float in it is found where it was written: it comes back with *)
(* what follows it, and is refused as cut short where bytes are missing.   *)
THEOREM ValuesAreFound ==
  \A t \in Type : \A v \in Values(t) : \A e \in BOOLEAN :
    Symmetric(t, v, e) => Finds(Reader(t, e), ToBytes(t, v, e), v)
<1> SUFFICES ASSUME NEW e \in BOOLEAN
             PROVE  \A t \in Type : \A v \in Values(t) :
                      Symmetric(t, v, e) => Finds(Reader(t, e), ToBytes(t, v, e), v)
  OBVIOUS
<1> DEFINE Good == {n \in Nat : \A t \in Beneath(n) : \A v \in Values(t) :
                      Symmetric(t, v, e) => Finds(Reader(t, e), ToBytes(t, v, e), v)}
<1>1. 0 \in Good
  BY BeneathIs
<1>2. ASSUME NEW n \in Nat, n \in Good PROVE n + 1 \in Good
  <2> SUFFICES ASSUME NEW t \in Beneath(n + 1), NEW v \in Values(t), Symmetric(t, v, e)
               PROVE  Finds(Reader(t, e), ToBytes(t, v, e), v)
    OBVIOUS
  <2>1. t \in Type /\ Components(t) \subseteq Beneath(n)
    BY BeneathIs
  <2>2. PartsFound(t, v, e)
    <3> SUFFICES ASSUME NEW i \in DOMAIN Parts(t, v)
                 PROVE  Finds(Reader(Parts(t, v)[i][1], e), PartBytes(t, v, e)[i], Parts(t, v)[i][2])
      BY DEF PartsFound
    <3> DEFINE c == Parts(t, v)[i][1]
               w == Parts(t, v)[i][2]
    <3>1. c \in Beneath(n) /\ w \in Values(c) /\ Symmetric(c, w, e)
      BY <2>1, PartsAre, SymmetricIs
    <3>2. Finds(Reader(c, e), ToBytes(c, w, e), w)
      BY <1>2, <3>1
    <3>3. PartBytes(t, v, e)[i] = ToBytes(c, w, e)
      BY DEF PartBytes
    <3> QED
      BY <3>2, <3>3
  <2> QED
    BY <2>1, <2>2, SymmetricIs, ValueFinds
<1> HIDE DEF Good
<1>3. MaxDepth + 1 \in Good
  BY <1>1, <1>2, Induction, TypeAssumption
<1> QED
  BY <1>3, BeneathIs DEF Good

-----------------------------------------------------------------------------
(* Whatever there is to read *)

(* Reading ends with a value and the bytes behind it, or with one of the   *)
(* errors of the deserializer.                                             *)
Ends(r) ==
  /\ r.err \in {"ok", "eof", "format", "message"}
  /\ r.err = "ok" => r.rest \in Seq(Byte)

LEMMA OkEnds ==
  ASSUME NEW v, NEW rest \in Seq(Byte)
  PROVE  Ends(Ok(v, rest))
BY OkFields DEF Ends

LEMMA ErrEnds == Ends(Err("eof")) /\ Ends(Err("format")) /\ Ends(Err("message"))
BY DEF Ends, Err

LEMMA DropIsBytes ==
  ASSUME NEW in \in Seq(Byte), NEW n \in 0 .. Len(in)
  PROVE  Drop(in, n) \in Seq(Byte)
BY DEF Drop

LEMMA GetIsNat ==
  ASSUME NEW s \in Seq(Nat), NEW e \in BOOLEAN
  PROVE  Get(s, e) \in Nat
<1> DEFINE w == Len(s)
           more(k) == IF k + 1 \in 1 .. w THEN s[k + 1] * Weight(k + 1, w, e) ELSE 0
           h == [k \in Nat |-> [b \in Nat |-> b + more(k)]]
<1>1. w \in Nat
  OBVIOUS
<1>2. ASSUME NEW i \in 1 .. w PROVE s[i] * Weight(i, w, e) \in Nat
  <2>1. i - 1 \in Nat /\ w - i \in Nat /\ s[i] \in Nat
    BY <1>1
  <2>2. Weight(i, w, e) \in Nat
    BY <2>1, PowerPositive DEF Weight
  <2> DEFINE x == s[i]
             y == Weight(i, w, e)
  <2> HIDE DEF x, y
  <2>3. x * y \in Nat
    BY <2>1, <2>2 DEF x, y
  <2> QED
    BY <2>3 DEF x, y
<1>3. \A k \in Nat : more(k) \in Nat
  BY <1>2
<1> HIDE DEF more
<1>4. h \in [Nat -> [Nat -> Nat]]
  <2>1. ASSUME NEW k \in Nat PROVE [b \in Nat |-> b + more(k)] \in [Nat -> Nat]
    <3> DEFINE d == more(k)
    <3>1. d \in Nat
      BY <1>3
    <3> HIDE DEF d
    <3>2. [b \in Nat |-> b + d] \in [Nat -> Nat]
      BY <3>1
    <3> QED
      BY <3>2 DEF d
  <2> QED
    BY <2>1
<1>5. PICK F \in [Nat -> Nat] : F[0] = 0 /\ \A n \in Nat : F[n + 1] = h[n][F[n]]
  <2>1. 0 \in Nat
    OBVIOUS
  <2> HIDE DEF h
  <2>2. PICK f : Iterates(f, Nat, 0, h)
    BY <1>4, <2>1, Recursion, Zenon
  <2> QED
    BY <2>2 DEF Iterates
<1> DEFINE f == [i \in 0 .. w |-> F[i]]
<1>6. f \in [0 .. Len(s) -> Nat] /\ f[0] = 0
  BY <1>1, <1>5
<1>7. ASSUME NEW i \in 1 .. w PROVE f[i] = f[i - 1] + s[i] * Weight(i, w, e)
  <2>1. i - 1 \in Nat /\ i - 1 \in 0 .. w /\ i \in 0 .. w /\ (i - 1) + 1 = i
    BY <1>1
  <2>2. F[(i - 1) + 1] = h[i - 1][F[i - 1]] /\ F[i - 1] \in Nat
    <3> HIDE DEF h
    <3> QED
      BY <1>5, <2>1
  <2>3. F[i] = F[i - 1] + more(i - 1)
    BY <2>1, <2>2
  <2>4. more(i - 1) = s[i] * Weight(i, w, e)
    BY <2>1 DEF more
  <2> QED
    BY <2>1, <2>3, <2>4
<1> HIDE DEF f
<1>8. Get(s, e) = f[Len(s)]
  BY <1>6, <1>7, GetIsSum
<1>9. f[Len(s)] \in Nat
  <2>1. Len(s) \in 0 .. Len(s)
    BY <1>1
  <2> QED
    BY <1>6, <2>1
<1> QED
  BY <1>8, <1>9

LEMMA FixedEnds ==
  ASSUME NEW in \in Seq(Byte), NEW m \in Nat, NEW n \in Nat, NEW e \in BOOLEAN
  PROVE  LET r == Fixed(in, m, n, e) IN Ends(r) /\ (r.err = "ok" => r.val \in Nat)
<1> DEFINE s == SubSeq(in, m + 1, m + n)
<1>1. CASE Len(in) < m + n
  <2>1. Fixed(in, m, n, e) = Err("eof")
    BY <1>1 DEF Fixed
  <2>2. Err("eof").err # "ok"
    BY ErrFields
  <2> QED
    BY <2>1, <2>2, ErrEnds
<1>2. CASE ~(Len(in) < m + n)
  <2>1. Fixed(in, m, n, e) = Ok(Get(s, e), Drop(in, m + n))
    BY <1>2 DEF Fixed
  <2>2. m + n \in 0 .. Len(in)
    <3>1. Len(in) \in Nat
      OBVIOUS
    <3> QED
      BY <1>2, <3>1
  <2>3. Drop(in, m + n) \in Seq(Byte)
    <3> DEFINE k == m + n
    <3> HIDE DEF k
    <3>1. Drop(in, k) \in Seq(Byte)
      BY <2>2, DropIsBytes DEF k
    <3> QED
      BY <3>1 DEF k
  <2>4. s \in Seq(Nat)
    <3>1. in \in Seq(Nat)
      BY BaseAssumption DEF Byte
    <3> QED
      BY <2>2, <3>1
  <2> HIDE DEF s
  <2>5. Get(s, e) \in Nat
    BY <2>4, GetIsNat
  <2> QED
    BY <2>1, <2>3, <2>5, OkEnds, OkFields
<1> QED
  BY <1>1, <1>2

LEMMA NumberEnds ==
  ASSUME NEW in \in Seq(Byte), NEW e \in BOOLEAN
  PROVE  LET r == ParseUnsigned(in, e) IN Ends(r) /\ (r.err = "ok" => r.val \in Nat)
<1>1. CASE in = <<>>
  <2>1. ParseUnsigned(in, e) = Err("eof")
    BY <1>1 DEF ParseUnsigned
  <2>2. Err("eof").err # "ok"
    BY ErrFields
  <2> QED
    BY <2>1, <2>2, ErrEnds
<1>2. CASE in # <<>>
  <2>1. in[1] \in Byte /\ 1 \in 0 .. Len(in)
    BY <1>2
  <2>2. in[1] \in Nat /\ Drop(in, 1) \in Seq(Byte)
    BY <2>1, BaseAssumption, DropIsBytes DEF Byte
  <2>3. \/ \E n \in {2, 4, 8} : ParseUnsigned(in, e) = Fixed(in, 1, n, e)
        \/ ParseUnsigned(in, e) = Ok(in[1], Drop(in, 1))
    BY <1>2 DEF ParseUnsigned
  <2>4. CASE ParseUnsigned(in, e) = Ok(in[1], Drop(in, 1))
    BY <2>2, <2>4, OkEnds, OkFields
  <2>5. ASSUME NEW n \in {2, 4, 8}, ParseUnsigned(in, e) = Fixed(in, 1, n, e)
        PROVE  LET r == ParseUnsigned(in, e) IN Ends(r) /\ (r.err = "ok" => r.val \in Nat)
    BY <2>5, FixedEnds
  <2> QED
    BY <2>3, <2>4, <2>5
<1> QED
  BY <1>1, <1>2

LEMMA BoolEnds ==
  ASSUME NEW in \in Seq(Byte)
  PROVE  LET r == ParseBool(in) IN Ends(r)
<1>1. CASE in = <<>>
  BY <1>1, ErrEnds DEF ParseBool
<1>2. CASE in # <<>>
  <2>1. ParseBool(in) = Ok(in[1] # 0, Drop(in, 1)) /\ 1 \in 0 .. Len(in)
    BY <1>2 DEF ParseBool
  <2> QED
    BY <2>1, DropIsBytes, OkEnds
<1> QED
  BY <1>1, <1>2

LEMMA StringEnds ==
  ASSUME NEW in \in Seq(Byte), NEW e \in BOOLEAN
  PROVE  Ends(ParseString(in, e))
<1> DEFINE n == ParseUnsigned(in, e)
           s == ParseBytes(in, e)
<1>1. Ends(n) /\ (n.err = "ok" => n.val \in Nat)
  BY NumberEnds
<1>2. Ends(s)
  <2>1. s = IF n.err # "ok" THEN n
            ELSE IF Len(n.rest) < n.val THEN Err("eof")
            ELSE Ok(Take(n.rest, n.val), Drop(n.rest, n.val))
    BY DEF ParseBytes
  <2> HIDE DEF n, s
  <2>2. CASE n.err = "ok" /\ ~(Len(n.rest) < n.val)
    <3>1. n.rest \in Seq(Byte) /\ n.val \in 0 .. Len(n.rest)
      BY <1>1, <2>2 DEF Ends
    <3> QED
      BY <2>1, <2>2, <3>1, DropIsBytes, OkEnds
  <2> QED
    BY <1>1, <2>1, <2>2, ErrEnds
<1>3. ParseString(in, e) = IF s.err = "ok" /\ ~Utf8(s.val) THEN Err("format") ELSE s
  BY DEF ParseString
<1> HIDE DEF s
<1> QED
  BY <1>2, <1>3, ErrEnds

LEMMA ScalarEnds ==
  ASSUME NEW t, IsScalarType(t), NEW in \in Seq(Byte), NEW e \in BOOLEAN
  PROVE  Ends(ReadScalar(t, in, e))
<1>1. CASE t = Bool
  BY <1>1, ReadCases, BoolEnds
<1>2. ASSUME NEW w \in Width, t = UInt(w) \/ t = SInt(w)
      PROVE  Ends(ReadScalar(t, in, e))
  <2> DEFINE n == ParseUnsigned(in, e)
  <2>1. Ends(n)
    BY NumberEnds
  <2>2. CASE t = UInt(w)
    <3>1. ReadScalar(t, in, e) = LET r == ParseUnsigned(in, e)
                                 IN IF r.err = "ok" THEN Ok(Wrap(r.val, w), r.rest) ELSE r
      BY <2>2, ReadCases, Zenon
    <3> HIDE DEF n
    <3> QED
      BY <2>1, <3>1, OkEnds DEF Ends, n
  <2>3. CASE t = SInt(w)
    <3>1. ReadScalar(t, in, e)
            = LET r == ParseUnsigned(in, e)
              IN IF r.err = "ok" THEN Ok(WrapSigned(ZigzagDecode(r.val), w), r.rest) ELSE r
      BY <2>3, ReadCases, Zenon
    <3> HIDE DEF n
    <3> QED
      BY <2>1, <3>1, OkEnds DEF Ends, n
  <2> QED
    BY <1>2, <2>2, <2>3
<1>3. ASSUME NEW w \in Width, t = Float(w) PROVE Ends(ReadScalar(t, in, e))
  <2>1. ReadScalar(t, in, e) = Fixed(in, 0, w, FALSE)
    BY <1>3, ReadCases, Zenon
  <2>2. w \in Nat
    BY <1>3 DEF Width
  <2> QED
    BY <2>1, <2>2, FixedEnds
<1>4. CASE t = Str
  <2>1. ReadScalar(t, in, e) = ParseString(in, e)
    BY <1>4, ReadCases, Zenon
  <2> QED
    BY <2>1, StringEnds
<1>5. CASE t = Unit
  <2>1. ReadScalar(t, in, e) = Ok(<<>>, in)
    BY <1>5, ReadCases, Zenon
  <2> QED
    BY <2>1, OkEnds
<1> QED
  BY <1>1, <1>2, <1>3, <1>4, <1>5 DEF IsScalarType
LEMMA ReadAllEnds ==
  ASSUME NEW n \in Nat, NEW readers, Len(readers) = n,
         \A i \in 1 .. n : \A y \in Seq(Byte) : Ends(readers[i][y]),
         NEW in \in Seq(Byte)
  PROVE  Ends(ReadAll(readers, in))
<1>1. PICK g : Reads(g, readers, n, in) /\ ReadAll(readers, in) = g[n]
  BY ReadAllIs
<1> DEFINE Good == {i \in Nat : i <= n => Ends(g[i])}
<1>2. 0 \in Good
  BY <1>1, OkEnds DEF Reads
<1>3. ASSUME NEW k \in Nat, k \in Good PROVE k + 1 \in Good
  <2> DEFINE i == k + 1
             r == readers[i][g[k].rest]
  <2> SUFFICES ASSUME i <= n PROVE Ends(g[i])
    BY DEF i
  <2>1. i \in 1 .. n /\ i - 1 = k /\ k <= n
    OBVIOUS
  <2>2. Ends(g[k])
    BY <1>3, <2>1
  <2>3. g[i] = IF g[k].err # "ok" THEN g[k]
               ELSE IF r.err = "ok" THEN Ok(Append(g[k].val, r.val), r.rest) ELSE r
    BY <1>1, <2>1 DEF Reads
  <2>4. g[k].err = "ok" => Ends(r)
    BY <2>1, <2>2 DEF Ends
  <2> HIDE DEF i, r
  <2> QED
    BY <2>2, <2>3, <2>4, OkEnds DEF Ends
<1> HIDE DEF Good
<1>4. n \in Good
  BY <1>2, <1>3, Induction
<1> QED
  BY <1>1, <1>4 DEF Good

(* What the readers of a type's components end with, the type's does too. *)
LEMMA ReadByEnds ==
  ASSUME NEW t \in Type, NEW e \in BOOLEAN, NEW in \in Seq(Byte), NEW f,
         \A c \in Components(t) : \A y \in Seq(Byte) : Ends(f[c][y])
  PROVE  Ends(ReadBy(t, in, e, f))
<1>0. IsType(t)
  BY TypeAssumption
<1>1. CASE IsScalarType(t)
  <2>1. ReadBy(t, in, e, f) = ReadScalar(t, in, e)
    BY <1>1, ReadByScalar
  <2> QED
    BY <1>1, <2>1, ScalarEnds
<1>2. CASE t.kind = "option"
  <2> DEFINE some == ParseBool(in)
             n == IF some.val THEN 1 ELSE 0
             readers == [i \in 1 .. n |-> f[t.of]]
  <2>1. ReadBy(t, in, e, f) = IF some.err # "ok" THEN some ELSE ReadAll(readers, some.rest)
    BY <1>2, ReadByOption, Zenon
  <2>2. Ends(some)
    BY BoolEnds
  <2>3. n \in Nat
    OBVIOUS
  <2>4. t.of \in Components(t)
    BY <1>2, ComponentsOf
  <2> HIDE DEF some, n
  <2>5. Len(readers) = n /\ \A i \in 1 .. n : \A y \in Seq(Byte) : Ends(readers[i][y])
    BY <2>3, <2>4
  <2> HIDE DEF readers
  <2>6. some.err = "ok" => Ends(ReadAll(readers, some.rest))
    BY <2>2, <2>3, <2>5, ReadAllEnds DEF Ends
  <2> QED
    BY <2>1, <2>2, <2>6
<1>3. CASE t.kind \in {"seq", "map"}
  <2> DEFINE size == ParseUnsigned(in, e)
             n == size.val
             readers == [i \in 1 .. n |-> f[t.of]]
  <2>1. ReadBy(t, in, e, f) = IF size.err # "ok" THEN size ELSE ReadAll(readers, size.rest)
    <3>1. t.kind # "option"
      BY <1>3
    <3> QED
      BY <1>3, <3>1 DEF ReadBy
  <2>2. Ends(size) /\ (size.err = "ok" => n \in Nat)
    BY NumberEnds
  <2>4. t.of \in Components(t)
    BY <1>3, ComponentsOf
  <2> HIDE DEF size, n
  <2>6. ASSUME size.err = "ok" PROVE Ends(ReadAll(readers, size.rest))
    <3>1. n \in Nat /\ size.rest \in Seq(Byte)
      BY <2>2, <2>6 DEF Ends
    <3>2. Len(readers) = n /\ \A i \in 1 .. n : \A y \in Seq(Byte) : Ends(readers[i][y])
      BY <3>1, <2>4
    <3> HIDE DEF readers
    <3> QED
      BY <3>1, <3>2, ReadAllEnds
  <2> QED
    BY <2>1, <2>2, <2>6
<1>4. CASE t.kind \in {"tuple", "struct"}
  <2> DEFINE n == Len(t.fields)
             readers == [i \in DOMAIN t.fields |-> f[t.fields[i]]]
  <2>1. ReadBy(t, in, e, f) = ReadAll(readers, in)
    <3>1. t.kind \notin {"option", "seq", "map"}
      BY <1>4
    <3> QED
      BY <1>4, <3>1 DEF ReadBy
  <2>2. t.fields \in Seq(Type)
    BY <1>0, <1>4, CompoundKinds DEF IsType
  <2>3. n \in Nat /\ DOMAIN t.fields = 1 .. n
    BY <2>2
  <2>4. \A i \in 1 .. n : t.fields[i] \in Components(t)
    BY <1>4, <2>3, ComponentsOf DEF Range
  <2> HIDE DEF n
  <2>5. Len(readers) = n /\ \A i \in 1 .. n : \A y \in Seq(Byte) : Ends(readers[i][y])
    BY <2>3, <2>4
  <2> HIDE DEF readers
  <2> QED
    BY <2>1, <2>3, <2>5, ReadAllEnds
<1>5. CASE t.kind = "tagged"
  <2> DEFINE tag == ParseString(in, e)
             r == f[t.contents[tag.val]][tag.rest]
  <2>1. ReadBy(t, in, e, f)
          = IF tag.err # "ok" THEN tag
            ELSE IF tag.val \notin DOMAIN t.contents THEN Err("message")
            ELSE IF r.err = "ok" THEN Ok(<<tag.val, r.val>>, r.rest) ELSE r
    BY <1>5 DEF ReadBy, Then
  <2>2. Ends(tag)
    BY StringEnds
  <2> HIDE DEF tag
  <2>3. tag.val \in DOMAIN t.contents => t.contents[tag.val] \in Components(t)
    BY <1>5, ComponentsOf DEF Range
  <2>4. tag.err = "ok" /\ tag.val \in DOMAIN t.contents => Ends(r)
    BY <2>2, <2>3 DEF Ends
  <2> HIDE DEF r
  <2> QED
    BY <2>1, <2>2, <2>4, OkEnds, ErrEnds DEF Ends
<1>6. CASE t.kind = "variant"
  BY <1>6, ErrEnds DEF ReadBy
<1> QED
  BY <1>0, <1>1, <1>2, <1>3, <1>4, <1>5, <1>6 DEF IsType

(* Whatever bytes there are, reading a value of any type ends with a value *)
(* and what is behind it, or with an error of the deserializer.            *)
THEOREM ReadingEnds ==
  \A t \in Type : \A in \in Seq(Byte) : \A e \in BOOLEAN : Ends(Read(t, in, e))
<1> SUFFICES ASSUME NEW e \in BOOLEAN
             PROVE  \A t \in Type : \A in \in Seq(Byte) : Ends(Read(t, in, e))
  OBVIOUS
<1> DEFINE Good == {n \in Nat : \A t \in Beneath(n) : \A in \in Seq(Byte) : Ends(Read(t, in, e))}
<1>1. 0 \in Good
  BY BeneathIs
<1>2. ASSUME NEW n \in Nat, n \in Good PROVE n + 1 \in Good
  <2> SUFFICES ASSUME NEW t \in Beneath(n + 1), NEW in \in Seq(Byte)
               PROVE  Ends(Read(t, in, e))
    OBVIOUS
  <2>1. t \in Type /\ Components(t) \subseteq Beneath(n)
    BY BeneathIs
  <2>2. ASSUME NEW c \in Components(t), NEW y \in Seq(Byte)
        PROVE  Ends(Readers(e)[c][y])
    <3>1. c \in Beneath(n) /\ c \in Type
      BY <2>1 DEF Beneath
    <3>2. Ends(Read(c, y, e))
      BY <1>2, <3>1
    <3>3. Readers(e)[c][y] = Read(c, y, e)
      BY <3>1 DEF Readers, Reader
    <3> QED
      BY <3>2, <3>3
  <2> HIDE DEF Good
  <2>3. Ends(ReadBy(t, in, e, Readers(e)))
    BY <2>1, <2>2, ReadByEnds
  <2> QED
    BY <2>1, <2>3, ReadIs
<1> HIDE DEF Good
<1>3. MaxDepth + 1 \in Good
  BY <1>1, <1>2, Induction, TypeAssumption
<1> QED
  BY <1>3, BeneathIs DEF Good

-----------------------------------------------------------------------------
(* A value that is written, cut short or not, and read *)

CodecInv ==
  /\ type \in Type
  /\ value \in Values(type)
  /\ le \in BOOLEAN
  /\ stage \in {"new", "written", "read"}
  /\ stage = "new" => input = <<>>
  /\ stage # "new" => \E n \in 0 .. Len(ToBytes(type, value, le)) :
                        input = Take(ToBytes(type, value, le), n)
  /\ result = IF stage = "read" THEN FromBytes(type, input, le) ELSE Err("none")

(* All of the bytes, and the first of the first. *)
LEMMA TakeAll ==
  ASSUME NEW s \in Seq(Byte)
  PROVE  s = Take(s, Len(s))
<1> DEFINE n == Len(s)
<1>1. n \in 0 .. n
  OBVIOUS
<1>2. Take(s, n) \in Seq(Byte) /\ Len(Take(s, n)) = n /\ \A i \in 1 .. n : Take(s, n)[i] = s[i]
  BY <1>1, TakeIs
<1> QED
  BY <1>2, SeqEqual

LEMMA TakeOfTake ==
  ASSUME NEW s \in Seq(Byte), NEW n \in 0 .. Len(s), NEW m \in 0 .. n
  PROVE  Take(Take(s, n), m) = Take(s, m)
<1> DEFINE u == Take(s, n)
<1>1. u \in Seq(Byte) /\ Len(u) = n /\ \A i \in 1 .. n : u[i] = s[i]
  BY TakeIs
<1> HIDE DEF u
<1>2. Take(u, m) \in Seq(Byte) /\ Len(Take(u, m)) = m /\ \A i \in 1 .. m : Take(u, m)[i] = u[i]
  BY <1>1, TakeIs
<1>3. m \in 0 .. Len(s) /\ \A i \in 1 .. m : i \in 1 .. n
  OBVIOUS
<1>4. Take(s, m) \in Seq(Byte) /\ Len(Take(s, m)) = m /\ \A i \in 1 .. m : Take(s, m)[i] = s[i]
  BY <1>3, TakeIs
<1>5. \A i \in 1 .. m : Take(u, m)[i] = Take(s, m)[i]
  BY <1>1, <1>2, <1>3, <1>4
<1> QED
  BY <1>2, <1>4, <1>5, SeqEqual DEF u

LEMMA TakeAndDrop ==
  ASSUME NEW s \in Seq(Byte), NEW n \in 0 .. Len(s)
  PROVE  Take(s, n) \o Drop(s, n) = s
<1> DEFINE u == Take(s, n)
           d == Drop(s, n)
           m == Len(s) - n
           both == u \o d
<1>1. u \in Seq(Byte) /\ Len(u) = n /\ \A i \in 1 .. n : u[i] = s[i]
  BY TakeIs
<1>2. d \in Seq(Byte) /\ Len(d) = m /\ \A i \in 1 .. m : d[i] = s[n + i]
  BY DEF Drop
<1>3. m \in Nat /\ n \in Nat /\ n + m = Len(s)
  OBVIOUS
<1> HIDE DEF u, d, m
<1>4. /\ both \in Seq(Byte) /\ Len(both) = Len(s)
      /\ \A i \in 1 .. n : both[i] = u[i]
      /\ \A i \in 1 .. m : both[n + i] = d[i]
  BY <1>1, <1>2, <1>3
<1> HIDE DEF both
<1>5. ASSUME NEW i \in 1 .. Len(s) PROVE both[i] = s[i]
  <2>1. CASE i <= n
    <3>1. i \in 1 .. n
      BY <1>3, <2>1
    <3> QED
      BY <1>1, <1>4, <3>1
  <2>2. CASE ~(i <= n)
    <3>1. PICK j \in 1 .. m : i = n + j
      <4>1. i - n \in 1 .. m /\ i = n + (i - n)
        BY <1>3, <2>2
      <4> QED
        BY <4>1
    <3> QED
      BY <1>2, <1>4, <3>1
  <2> QED
    BY <2>1, <2>2
<1>6. both = s
  BY <1>4, <1>5, SeqEqual
<1> QED
  BY <1>6 DEF both, u, d

LEMMA CodecInitInv == Init => CodecInv
BY DEF Init, CodecInv

LEMMA CodecStepInv == CodecInv /\ [Next]_vars => CodecInv'
<1> SUFFICES ASSUME CodecInv, [Next]_vars PROVE CodecInv'
  OBVIOUS
<1> USE DEF CodecInv
<1> DEFINE all == ToBytes(type, value, le)
<1>1. all \in Seq(Byte)
  BY ValuesAreBytes
<1> HIDE DEF all
<1>2. CASE Serialize
  <2>1. input' = all /\ UNCHANGED <<type, value, le, result>> /\ stage = "new" /\ stage' = "written"
    BY <1>2 DEF Serialize, all
  <2>2. all = Take(all, Len(all)) /\ Len(all) \in 0 .. Len(all)
    BY <1>1, TakeAll
  <2>3. \E n \in 0 .. Len(all) : input' = Take(all, n)
    BY <2>1, <2>2
  <2> QED
    BY <2>1, <2>3 DEF all
<1>3. ASSUME NEW n \in 0 .. Len(input) - 1, Cut(n) PROVE CodecInv'
  <2>1. input' = Take(input, n) /\ UNCHANGED <<type, value, le, stage, result>> /\ stage = "written"
    BY <1>3 DEF Cut
  <2>2. PICK m \in 0 .. Len(all) : input = Take(all, m)
    BY <2>1 DEF all
  <2>3. Len(input) = m
    BY <1>1, <2>2, TakeIs
  <2>4. n \in 0 .. m /\ n \in 0 .. Len(all)
    BY <1>1, <2>3
  <2>5. input' = Take(all, n)
    BY <1>1, <2>1, <2>2, <2>4, TakeOfTake
  <2>6. \E k \in 0 .. Len(all) : input' = Take(all, k)
    BY <2>4, <2>5
  <2> QED
    BY <2>1, <2>6 DEF all
<1>4. CASE Deserialize
  BY <1>4 DEF Deserialize
<1>5. CASE UNCHANGED vars
  BY <1>5 DEF vars
<1> QED
  BY <1>2, <1>3, <1>4, <1>5 DEF Next

THEOREM CodecAlways == Spec => []CodecInv
BY CodecInitInv, CodecStepInv, PTL DEF Spec

(* What there is to read is bytes, the first of what was written. *)
LEMMA InputIs ==
  ASSUME CodecInv
  PROVE  /\ ToBytes(type, value, le) \in Seq(Byte)
         /\ input \in Seq(Byte)
         /\ stage = "read" /\ ~Whole =>
              \E p \in Seq(Byte) : p # <<>> /\ input \o p = ToBytes(type, value, le)
<1> USE DEF CodecInv
<1> DEFINE all == ToBytes(type, value, le)
<1>1. all \in Seq(Byte)
  BY ValuesAreBytes
<1>2. CASE stage = "new"
  BY <1>1, <1>2
<1>3. CASE stage # "new"
  <2> HIDE DEF all
  <2>1. PICK n \in 0 .. Len(all) : input = Take(all, n)
    BY <1>3 DEF all
  <2>2. input \in Seq(Byte) /\ Drop(all, n) \in Seq(Byte) /\ input \o Drop(all, n) = all
    BY <1>1, <2>1, TakeIs, DropIsBytes, TakeAndDrop
  <2>3. Drop(all, n) = <<>> => input = all
    BY <2>2
  <2> QED
    BY <1>1, <2>2, <2>3 DEF Whole, all
<1> QED
  BY <1>2, <1>3

(* What is written is bytes, and reading ends with a value or with one of  *)
(* the deserializer's errors, for every set of types and of their values.  *)
THEOREM CodecTypeCorrect == Spec => []CodecTypeOK
<1>1. CodecInv => CodecTypeOK
  <2> SUFFICES ASSUME CodecInv PROVE CodecTypeOK
    OBVIOUS
  <2>1. input \in Seq(Byte)
    BY InputIs
  <2>2. CASE stage = "read"
    <3> DEFINE r == Read(type, input, le)
    <3>1. Ends(r)
      BY <2>1, ReadingEnds DEF CodecInv
    <3>2. result = IF r.err = "ok" /\ r.rest # <<>> THEN Err("trailing") ELSE r
      BY <2>2 DEF CodecInv, FromBytes
    <3> HIDE DEF r
    <3>3. result.err \in {"ok", "eof", "format", "message", "trailing"}
      BY <3>1, <3>2, ErrFields DEF Ends
    <3> QED
      BY <2>1, <2>2, <3>3 DEF CodecTypeOK
  <2>3. CASE stage # "read"
    <3>1. result.err = "none"
      BY <2>3, ErrFields DEF CodecInv
    <3> QED
      BY <2>1, <3>1 DEF CodecTypeOK, CodecInv
  <2> QED
    BY <2>2, <2>3
<1> QED
  BY <1>1, CodecAlways, PTL

(* A value that is Symmetric comes back from from_bytes as it went into    *)
(* to_bytes, and all of the bytes are used.  Packets are, but not those    *)
(* whose payload is Login or Error.                                        *)
THEOREM ValuesComeBack == Spec => []RoundTrip
<1>1. CodecInv => RoundTrip
  <2> SUFFICES ASSUME CodecInv, stage = "read", Symmetric(type, value, le), Whole
               PROVE  result.err = "ok" /\ result.val = value
    BY DEF RoundTrip
  <2> DEFINE r == Read(type, input, le)
  <2>1. input \in Seq(Byte) /\ input = ToBytes(type, value, le) \o <<>>
    BY InputIs DEF Whole
  <2>2. Finds(Reader(type, le), ToBytes(type, value, le), value)
    BY ValuesAreFound DEF CodecInv
  <2>3. Reader(type, le)[input] = r
    BY <2>1 DEF Reader
  <2>4. r = Ok(value, <<>>)
    <3>1. Found(r, input, ToBytes(type, value, le), value)
      BY <2>1, <2>2, <2>3 DEF Finds
    <3>2. <<>> \in Seq(Byte)
      OBVIOUS
    <3> HIDE DEF r
    <3> QED
      BY <2>1, <3>1, <3>2 DEF Found
  <2>5. result = IF r.err = "ok" /\ r.rest # <<>> THEN Err("trailing") ELSE r
    BY DEF CodecInv, FromBytes
  <2> HIDE DEF r
  <2> QED
    BY <2>4, <2>5, OkFields
<1> QED
  BY <1>1, CodecAlways, PTL

(* However many bytes of a Symmetric value are missing at the end,         *)
(* from_bytes answers that they are: it never returns another value.       *)
THEOREM CutValuesAreNoticed == Spec => []CutIsNoticed
<1>1. CodecInv => CutIsNoticed
  <2> SUFFICES ASSUME CodecInv, stage = "read", Symmetric(type, value, le), ~Whole
               PROVE  result.err = "eof"
    BY DEF CutIsNoticed
  <2> DEFINE r == Read(type, input, le)
  <2>1. input \in Seq(Byte)
    BY InputIs
  <2>2. PICK p \in Seq(Byte) : p # <<>> /\ input \o p = ToBytes(type, value, le)
    BY InputIs
  <2>3. Finds(Reader(type, le), ToBytes(type, value, le), value)
    BY ValuesAreFound DEF CodecInv
  <2>4. Reader(type, le)[input] = r
    BY <2>1 DEF Reader
  <2>5. r = Err("eof")
    BY <2>1, <2>2, <2>3, <2>4 DEF Finds, Found
  <2>6. result = IF r.err = "ok" /\ r.rest # <<>> THEN Err("trailing") ELSE r
    BY DEF CodecInv, FromBytes
  <2> HIDE DEF r
  <2> QED
    BY <2>5, <2>6, ErrFields
<1> QED
  BY <1>1, CodecAlways, PTL


=============================================================================
