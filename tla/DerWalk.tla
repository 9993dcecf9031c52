------------------------------ MODULE DerWalk ------------------------------
(***************************************************************************)
(* `der::children`: the loop that splits a buffer into the values it is    *)
(* made of, one read_tlv after the other.  A value borrows its slice of    *)
(* the buffer, so a child is recorded by where its slice begins and ends.  *)
(*                                                                         *)
(* An input says which octets the loop is given and, if they are the       *)
(* beginning of an encoding, of which values.  X_y is a deliberately wrong *)
(* variant of X.                                                           *)
(***************************************************************************)
EXTENDS Der

CONSTANT Inputs   \* [octets, values]; values is <<>> when nothing is known

\* The encodings of the first m values, one after the other.
Encodings(values) ==
  LET upto[m \in 0..Len(values)] ==
        IF m = 0 THEN <<>> ELSE upto[m - 1] \o Tlv(values[m].tag, values[m].content)
  IN  upto

\* octets is the beginning of the encoding of all of values.
Begins(octets, values) ==
  LET all == Encodings(values)[Len(values)]
  IN  Len(octets) <= Len(all) /\ octets = SubSeq(all, 1, Len(octets))

ASSUME WalkAssumption ==
  \A i \in Inputs :
    /\ i.octets \in Seq(Octet) /\ i.values \in Seq(Element)
    /\ \A m \in DOMAIN i.values : Encodable(Len(i.values[m].content))
    /\ i.values # <<>> => Begins(i.octets, i.values)

VARIABLES
  input,   \* the buffer, fixed for the run
  pos,     \* octets consumed
  out,     \* the children found so far
  pc       \* "walking" or "done"

vars == <<input, pos, out, pc>>

Rest == SubSeq(input.octets, pos + 1, Len(input.octets))

\* The child at the front of Rest: tag, first octet, content, last octet.
Child == [tag |-> Rest[1], start |-> pos, from |-> pos + HeaderLen(Rest),
          end |-> pos + TotalLen(Rest)]

Slice(k) == SubSeq(input.octets, out[k].from + 1, out[k].end)

-----------------------------------------------------------------------------
Init ==
  /\ input \in Inputs
  /\ pos = 0
  /\ out = <<>>
  /\ pc = "walking"

\* read_tlv succeeds: the child is pushed, then the loop advances behind it
\* unless the advance is 0 or leads out of the buffer.
Take_ContentOnly ==
  /\ pc = "walking"
  /\ Readable(Rest)
  /\ out' = Append(out, Child)
  /\ pos' = pos + ContentLen(Rest)
  /\ UNCHANGED <<input, pc>>
Take_BeforePush ==
  /\ pc = "walking"
  /\ Readable(Rest)
  /\ IF TotalLen(Rest) >= Len(Rest)
     THEN pc' = "done" /\ UNCHANGED <<pos, out>>
     ELSE pos' = pos + TotalLen(Rest) /\ out' = Append(out, Child) /\ UNCHANGED pc
  /\ UNCHANGED input
Take ==
  /\ pc = "walking"
  /\ Readable(Rest)
  /\ out' = Append(out, Child)
  /\ IF TotalLen(Rest) = 0 \/ TotalLen(Rest) > Len(Rest)
     THEN pc' = "done" /\ UNCHANGED pos
     ELSE pos' = pos + TotalLen(Rest) /\ UNCHANGED pc
  /\ UNCHANGED input

\* read_tlv returns None.
Stop_Retry ==
  /\ pc = "walking"
  /\ ~Readable(Rest)
  /\ UNCHANGED vars
Stop ==
  /\ pc = "walking"
  /\ ~Readable(Rest)
  /\ pc' = "done"
  /\ UNCHANGED <<input, pos, out>>

\* children has returned.
Terminated == pc = "done" /\ UNCHANGED vars

Next == Take \/ Stop \/ Terminated

Spec == Init /\ [][Next]_vars
FairSpec == Spec /\ WF_vars(Take) /\ WF_vars(Stop)

-----------------------------------------------------------------------------
(***************************************************************************)
(* Properties                                                              *)
(***************************************************************************)

\* Type invariant: every slice lies inside the buffer (der.rs:99-118).
TypeOK ==
  /\ input.octets \in Seq(Octet)
  /\ pos \in 0..Len(input.octets)
  /\ pc \in {"walking", "done"}
  /\ out \in Seq([tag : Octet, start : Nat, from : Nat, end : 0..Len(input.octets)])

\* The children lie end to end from the first octet on: none overlaps
\* another, none is skipped, and what is consumed is exactly what they cover
\* (der.rs:110-117).
ChildrenTile ==
  /\ \A k \in 1..Len(out) :
       /\ out[k].start + 2 <= out[k].from /\ out[k].from <= out[k].end
       /\ out[k].start = IF k = 1 THEN 0 ELSE out[k - 1].end
  /\ pos = IF out = <<>> THEN 0 ELSE out[Len(out)].end

\* Reading undoes writing: of an encoding that was cut off anywhere the walk
\* finds exactly the values that lie wholly before the cut, with their tags
\* and contents, whatever form their lengths have (der.rs:13-38, 76-119).
WalkInvertsEncoding ==
  pc = "done" /\ input.values # <<>> =>
    LET encoded == Encodings(input.values)
        whole == {m \in 1..Len(input.values) : Len(encoded[m]) <= Len(input.octets)}
    IN  /\ whole = 1..Len(out)
        /\ \A m \in whole : /\ out[m].tag = input.values[m].tag
                            /\ Slice(m) = input.values[m].content

\* The loop and the operator that ocsp.rs's walk is built from agree.
WalkIsChildren ==
  pc = "done" =>
    Children(input.octets) = [k \in 1..Len(out) |-> [tag |-> out[k].tag, content |-> Slice(k)]]

\* Whatever the octets, the walk ends (der.rs:110).
WalkEnds == <>(pc = "done")
=============================================================================
