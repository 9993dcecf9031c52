-------------------------------- MODULE Der --------------------------------
(***************************************************************************)
(* `scanner::der`: the encoder that builds an OCSP request and the reader  *)
(* that walks an OCSP response.  A buffer is a sequence of octets.         *)
(*                                                                         *)
(* The size of an octet and the number of length octets the reader accepts *)
(* are constants (256 and 4 in the code), so that every buffer of a small  *)
(* alphabet can be tried, the boundary between short and long lengths      *)
(* included.  X_y is a deliberately wrong variant of X.                    *)
(***************************************************************************)
EXTENDS Integers, Sequences

CONSTANTS
  Base,       \* number of values of an octet
  LenOctets   \* most octets a long length may have

Half == Base \div 2     \* 0x80: a first length octet from here on is long
Octet == 0..(Base - 1)

ASSUME DerAssumption ==
  /\ Base \in Nat /\ Base >= 4
  /\ Base = 2 * Half
  /\ LenOctets \in 1..4 /\ LenOctets < Half

-----------------------------------------------------------------------------
(* The encoder *)

\* The octets of len, big end first: the loop takes them off the low end.
BigEndian(len) ==
  LET be[n \in 0..len] == IF n = 0 THEN <<>> ELSE Append(be[n \div Base], n % Base)
  IN  be[len]

\* Short form, or the number of octets and the octets.
EncodeLen_Boundary(len) ==
  IF len <= Half THEN <<len>> ELSE <<Half + Len(BigEndian(len))>> \o BigEndian(len)
EncodeLen(len) ==
  IF len < Half THEN <<len>> ELSE <<Half + Len(BigEndian(len))>> \o BigEndian(len)

Tlv(tag, content) == <<tag>> \o EncodeLen(Len(content)) \o content

\* INTEGER: never negative, never empty.
IntegerTag == 2
DerInteger_Swapped(value) ==
  Tlv(IntegerTag, IF value = <<>> THEN <<0>>
                  ELSE IF value[1] < Half THEN <<0>> \o value
                  ELSE value)
DerInteger(value) ==
  Tlv(IntegerTag, IF value = <<>> THEN <<0>>
                  ELSE IF value[1] >= Half THEN <<0>> \o value
                  ELSE value)

-----------------------------------------------------------------------------
(* The reader.  read_tlv(d) is Some exactly if Readable(d). *)

Long(d) == d[2] >= Half
Octets(d) == IF Long(d) THEN d[2] - Half ELSE 0
HeaderLen(d) == 2 + Octets(d)

\* The number that octets stand for, big end first.
Value(o) ==
  LET upto[i \in 0..Len(o)] == IF i = 0 THEN 0 ELSE upto[i - 1] * Base + o[i]
  IN  upto[Len(o)]

ContentLen(d) == IF Long(d) THEN Value(SubSeq(d, 3, HeaderLen(d))) ELSE d[2]
TotalLen(d) == HeaderLen(d) + ContentLen(d)

Readable_HeaderOnly(d) ==
  /\ Len(d) >= 2
  /\ Long(d) => Octets(d) \in 1..LenOctets /\ Len(d) >= HeaderLen(d)
Readable(d) ==
  /\ Len(d) >= 2
  /\ Long(d) => Octets(d) \in 1..LenOctets /\ Len(d) >= HeaderLen(d)
  /\ Len(d) >= TotalLen(d)

\* The reader takes this length back from the encoder.
Encodable(len) == Len(BigEndian(len)) <= LenOctets

Content(d) == SubSeq(d, HeaderLen(d) + 1, TotalLen(d))

\* A value as the reader returns it.
Element == [tag : Octet, content : Seq(Octet)]

\* children(c): the values c starts with, in order, up to the first octets
\* that do not read.
Children(c) ==
  LET from[i \in 1..(Len(c) + 1)] ==
        LET d == SubSeq(c, i, Len(c)) IN
        IF Readable(d)
        THEN <<[tag |-> d[1], content |-> Content(d)]>> \o from[i + TotalLen(d)]
        ELSE <<>>
  IN from[1]
=============================================================================
