------------------------------ MODULE MCDerWalk ------------------------------
(***************************************************************************)
(* Every buffer of at most four octets of a small alphabet, and the        *)
(* encodings of two values, short and long, cut off anywhere.              *)
(***************************************************************************)
EXTENDS DerWalk

Anything == UNION {[1..n -> Octet] : n \in 0..4}

\* Contents on either side of the short form and of a one-octet long form.
Values == {[tag |-> t, content |-> [i \in 1..n |-> (i + t) % Base]] :
             t \in {1, Half}, n \in {0, 1, Half - 1, Half, Base}}

Encode(u, v) == Tlv(u.tag, u.content) \o Tlv(v.tag, v.content)

MCInputs ==
  [octets : Anything, values : {<<>>}]
  \cup UNION {{[octets |-> SubSeq(Encode(u, v), 1, n), values |-> <<u, v>>] :
                 n \in 0..Len(Encode(u, v))} : u, v \in Values}
=============================================================================
