--------------------------- MODULE DerWalkProofs ---------------------------
(***************************************************************************)
(* Proofs about DerWalk for every buffer of octets of every size.          *)
(***************************************************************************)
EXTENDS DerWalk, DerProofs

\* What is left of the buffer is octets.
LEMMA RestType ==
  ASSUME TypeOK
  PROVE  Rest \in Seq(Octet) /\ Len(Rest) = Len(input.octets) - pos
<1>1. /\ input.octets \in Seq(Octet) /\ pos \in 0..Len(input.octets)
      /\ Len(input.octets) \in Nat
  BY LenProperties DEF TypeOK
<1>2. \A k \in (pos + 1)..Len(input.octets) : input.octets[k] \in Octet
  BY <1>1, ElementOfSeq
<1>3. pos + 1 \in Int /\ Len(input.octets) \in Int
  BY <1>1
<1>4. /\ Rest \in Seq(Octet)
      /\ Len(Rest) = IF pos + 1 <= Len(input.octets) THEN Len(input.octets) - (pos + 1) + 1 ELSE 0
  BY <1>2, <1>3, SubSeqProperties DEF Rest
<1> QED BY <1>1, <1>4

\* A child that is taken lies inside the buffer, right behind what is consumed.
LEMMA ChildBounds ==
  ASSUME TypeOK, Readable(Rest)
  PROVE  /\ Child \in [tag : Octet, start : Nat, from : Nat, end : 0..Len(input.octets)]
         /\ Child.start = pos /\ Child.end = pos + TotalLen(Rest)
         /\ pos + 2 <= Child.from /\ Child.from <= Child.end
         /\ TotalLen(Rest) \in 2..Len(Rest)
<1>1. Rest \in Seq(Octet) /\ Len(Rest) = Len(input.octets) - pos
  BY RestType
<1>2. /\ Rest[1] \in Octet /\ HeaderLen(Rest) \in 2..Len(Rest)
      /\ TotalLen(Rest) \in HeaderLen(Rest)..Len(Rest)
  BY <1>1, ReadableBounds
<1>3. pos \in Nat /\ Len(input.octets) \in Nat
  BY LenProperties DEF TypeOK
<1> QED BY <1>1, <1>2, <1>3 DEF Child

IInv == TypeOK /\ ChildrenTile

\* Nothing is consumed and nothing found at first.
LEMMA InitIInv == Init => IInv
<1> SUFFICES ASSUME Init PROVE IInv
  OBVIOUS
<1>1. input.octets \in Seq(Octet) /\ Len(input.octets) \in Nat
  BY WalkAssumption, LenProperties DEF Init
<1> QED BY <1>1 DEF Init, IInv, TypeOK, ChildrenTile

\* Taking a child appends it behind those found so far.
LEMMA TakeIInv ==
  ASSUME IInv, Take
  PROVE  IInv' /\ pos' = pos + TotalLen(Rest) /\ TotalLen(Rest) \in 2..Len(Rest)
<1> DEFINE C == [tag : Octet, start : Nat, from : Nat, end : 0..Len(input.octets)]
<1>1. /\ Child \in C /\ Child.start = pos /\ Child.end = pos + TotalLen(Rest)
      /\ pos + 2 <= Child.from /\ Child.from <= Child.end
      /\ TotalLen(Rest) \in 2..Len(Rest)
  BY ChildBounds DEF IInv, Take
<1>2. /\ input' = input /\ out' = Append(out, Child) /\ pc = "walking"
      /\ pos' = pos + TotalLen(Rest) /\ pc' = pc
  BY <1>1 DEF Take
<1>3. /\ out \in Seq(C) /\ pos \in Nat /\ input.octets \in Seq(Octet)
      /\ Len(out) \in Nat /\ Len(input.octets) \in Nat
  BY LenProperties DEF IInv, TypeOK
<1>4. Len(Rest) = Len(input.octets) - pos
  BY RestType DEF IInv
<1> HIDE DEF C
<1>5. /\ out' \in Seq(C) /\ Len(out') = Len(out) + 1 /\ out'[Len(out) + 1] = Child
      /\ \A k \in 1..Len(out) : out'[k] = out[k]
  BY <1>1, <1>2, <1>3, AppendProperties
<1>6. TypeOK'
  BY <1>1, <1>2, <1>3, <1>4, <1>5 DEF TypeOK, C
<1>7. ChildrenTile'
  <2>1. pos = IF out = <<>> THEN 0 ELSE out[Len(out)].end
    BY DEF IInv, ChildrenTile
  <2>2. out' # <<>> /\ pos' = out'[Len(out')].end
    BY <1>1, <1>2, <1>3, <1>5
  <2>3. ASSUME NEW k \in 1..Len(out')
        PROVE  /\ out'[k].start + 2 <= out'[k].from /\ out'[k].from <= out'[k].end
               /\ out'[k].start = IF k = 1 THEN 0 ELSE out'[k - 1].end
    <3>1. CASE k = Len(out) + 1
      <4>1. out = <<>> <=> Len(out) = 0
        BY <1>3, EmptySeq
      <4>2. k # 1 => out'[k - 1] = out[Len(out)]
        BY <1>3, <1>5, <3>1
      <4> QED BY <1>1, <1>3, <1>5, <2>1, <3>1, <4>1, <4>2
    <3>2. CASE k # Len(out) + 1
      <4>1. k \in 1..Len(out) /\ (k # 1 => k - 1 \in 1..Len(out))
        BY <1>3, <1>5, <3>2
      <4> QED BY <1>5, <4>1 DEF IInv, ChildrenTile
    <3> QED BY <3>1, <3>2
  <2> QED BY <2>2, <2>3 DEF ChildrenTile
<1> QED BY <1>1, <1>2, <1>6, <1>7 DEF IInv

\* Every step of Next, or a stutter, preserves the inductive invariant.
LEMMA NextIInv == IInv /\ [Next]_vars => IInv'
<1> SUFFICES ASSUME IInv, [Next]_vars PROVE IInv'
  OBVIOUS
<1>1. CASE Take
  BY <1>1, TakeIInv
<1>2. CASE Stop
  BY <1>2 DEF Stop, IInv, TypeOK, ChildrenTile
<1>3. CASE Terminated \/ UNCHANGED vars
  BY <1>3 DEF Terminated, vars, IInv, TypeOK, ChildrenTile
<1> QED BY <1>1, <1>2, <1>3 DEF Next

\* Every reachable state satisfies the inductive invariant.
THEOREM Invariance == Spec => []IInv
BY InitIInv, NextIInv, PTL DEF Spec

-----------------------------------------------------------------------------
\* No slice ever leaves the buffer (der.rs:99-118).
THEOREM Typing == Spec => []TypeOK
<1>1. IInv => TypeOK
  BY DEF IInv
<1> QED BY <1>1, Invariance, PTL

\* The children cover what is consumed, end to end (der.rs:110-117).
THEOREM Tiling == Spec => []ChildrenTile
<1>1. IInv => ChildrenTile
  BY DEF IInv
<1> QED BY <1>1, Invariance, PTL

\* Every child moves the loop on by at least its header, so the guard against
\* an advance of 0 or out of the buffer is dead code (der.rs:113-115).
THEOREM Advancing == Spec => [][Len(out') > Len(out) => pos' >= pos + 2]_vars
<1>1. ASSUME IInv, [Next]_vars, Len(out') > Len(out) PROVE pos' >= pos + 2
  <2>1. CASE Take
    <3>1. pos' = pos + TotalLen(Rest) /\ TotalLen(Rest) \in 2..Len(Rest)
      BY <1>1, <2>1, TakeIInv
    <3>2. pos \in Nat /\ Len(Rest) \in Int
      BY <1>1, RestType, LenProperties DEF IInv, TypeOK
    <3> QED BY <3>1, <3>2
  <2>2. CASE ~Take
    <3>1. out' = out
      BY <1>1, <2>2 DEF Next, Stop, Terminated, vars
    <3>2. Len(out) \in Nat
      BY <1>1, LenProperties DEF IInv, TypeOK
    <3> QED BY <1>1, <3>1, <3>2
  <2> QED BY <2>1, <2>2
<1> QED BY <1>1, Invariance, PTL DEF Spec

-----------------------------------------------------------------------------
\* The children found so far, as the reader returns them.
Found == [k \in 1..Len(out) |-> [tag |-> out[k].tag, content |-> Slice(k)]]

\* They are the first of the buffer's children, and when the loop is over
\* there are no others.
FoundFirst ==
  /\ Children(input.octets) = Found \o Children(Rest)
  /\ pc = "done" => ~Readable(Rest)

\* Found is a sequence of elements.
LEMMA FoundType ==
  ASSUME IInv
  PROVE  /\ Found \in Seq(Element) /\ Len(Found) = Len(out) /\ Len(out) \in Nat
         /\ \A k \in 1..Len(out) : Found[k] = [tag |-> out[k].tag, content |-> Slice(k)]
<1>1. Len(out) \in Nat /\ Len(input.octets) \in Nat /\ input.octets \in Seq(Octet)
  BY LenProperties DEF IInv, TypeOK
<1>2. ASSUME NEW k \in 1..Len(out)
      PROVE  out[k].tag \in Octet /\ Slice(k) \in Seq(Octet)
  <2>1. /\ out[k].tag \in Octet /\ out[k].from \in Nat /\ out[k].end \in 0..Len(input.octets)
    <3> DEFINE C == [tag : Octet, start : Nat, from : Nat, end : 0..Len(input.octets)]
    <3>1. out \in Seq(C)
      BY DEF IInv, TypeOK
    <3>2. out[k] \in C
      <4> HIDE DEF C
      <4> QED BY <3>1, ElementOfSeq
    <3> QED BY <3>2
  <2>2. \A j \in (out[k].from + 1)..out[k].end : input.octets[j] \in Octet
    BY <1>1, <2>1, ElementOfSeq
  <2> QED BY <2>1, <2>2, SubSeqProperties DEF Slice
<1>3. Found \in [1..Len(out) -> Element]
  BY <1>2 DEF Found, Element
<1> QED BY <1>1, <1>3 DEF Found

\* Taking a child finds the element at the front of what is left.
LEMMA TakeFound ==
  ASSUME IInv, Take
  PROVE  /\ Found' = Append(Found, Front(Rest))
         /\ Rest \in Seq(Octet) /\ Readable(Rest) /\ Front(Rest) \in Element
         /\ Rest' = From(Rest, TotalLen(Rest) + 1)
         /\ input' = input /\ pc = "walking" /\ pc' = pc /\ Len(out') = Len(out) + 1
<1> DEFINE n == Len(out)
           c == input.octets
<1>1. /\ Found \in Seq(Element) /\ Len(Found) = n /\ n \in Nat
      /\ \A k \in 1..n : Found[k] = [tag |-> out[k].tag, content |-> Slice(k)]
  BY FoundType
<1>2. /\ IInv' /\ pos' = pos + TotalLen(Rest) /\ TotalLen(Rest) \in 2..Len(Rest)
  BY TakeIInv
<1>3. /\ Rest \in Seq(Octet) /\ Len(Rest) = Len(c) - pos /\ c \in Seq(Octet)
      /\ pos \in 0..Len(c) /\ Len(c) \in Nat /\ Readable(Rest)
  BY RestType, LenProperties DEF IInv, TypeOK, Take
<1>4. Front(Rest) \in Element
  BY <1>3, FrontType
<1>5. /\ input' = input /\ pc = "walking" /\ pc' = pc /\ out' = Append(out, Child)
  BY <1>2, <1>3, LenProperties DEF Take
<1>6. n' = n + 1 /\ out'[n + 1] = Child /\ \A k \in 1..n : out'[k] = out[k]
  <2>1. out \in Seq([tag : Octet, start : Nat, from : Nat, end : 0..Len(c)])
        /\ Child \in [tag : Octet, start : Nat, from : Nat, end : 0..Len(c)]
    BY <1>3, ChildBounds DEF IInv, TypeOK
  <2> QED BY <1>5, <2>1, AppendProperties
<1>7. Rest = From(c, pos + 1) /\ Rest' = From(c, pos' + 1)
  BY <1>5 DEF Rest, From
<1>8. Rest' = From(Rest, TotalLen(Rest) + 1)
  <2> DEFINE k == TotalLen(Rest) + 1
             L == Len(c)
  <2>1. /\ pos \in Nat /\ L \in Nat /\ pos <= L /\ TotalLen(Rest) \in Nat /\ TotalLen(Rest) <= L - pos
        /\ pos' = pos + TotalLen(Rest)
    BY <1>2, <1>3
  <2>2. pos + 1 \in 1..(L + 1) /\ k \in 1..(L + 2 - (pos + 1)) /\ (pos + 1) + k - 1 = pos' + 1
    <3> HIDE DEF L
    <3> QED BY <2>1
  <2> HIDE DEF k
  <2>3. From(From(c, pos + 1), k) = From(c, (pos + 1) + k - 1)
    BY <1>3, <2>2, FromFrom
  <2> QED BY <1>7, <2>2, <2>3 DEF k
<1>9. SubSeq(c, out'[n + 1].from + 1, out'[n + 1].end) = Content(Rest)
  <2>1. /\ HeaderLen(Rest) \in 2..Len(Rest) /\ TotalLen(Rest) \in HeaderLen(Rest)..Len(Rest)
    BY <1>3, ReadableBounds
  <2> DEFINE a == HeaderLen(Rest) + 1
             b == TotalLen(Rest)
             L == Len(c)
  <2>0. /\ pos \in Nat /\ L \in Nat /\ pos <= L /\ HeaderLen(Rest) \in Nat
        /\ TotalLen(Rest) \in Nat /\ TotalLen(Rest) <= L - pos
    BY <1>3, <2>1
  <2>2. /\ a \in Nat \ {0} /\ b \in Int /\ b <= L + 1 - (pos + 1) /\ pos + 1 \in 1..(L + 1)
        /\ (pos + 1) + a - 1 = (pos + HeaderLen(Rest)) + 1 /\ (pos + 1) + b - 1 = pos + TotalLen(Rest)
    <3> HIDE DEF L
    <3> QED BY <2>0
  <2> HIDE DEF a, b
  <2>3. SubSeq(From(c, pos + 1), a, b) = SubSeq(c, (pos + 1) + a - 1, (pos + 1) + b - 1)
    BY <1>3, <2>2, SliceOfFrom
  <2>4. Content(Rest) = SubSeq(c, (pos + HeaderLen(Rest)) + 1, pos + TotalLen(Rest))
    BY <1>7, <2>2, <2>3 DEF Content, a, b
  <2>5. out'[n + 1].from = pos + HeaderLen(Rest) /\ out'[n + 1].end = pos + TotalLen(Rest)
    BY <1>6 DEF Child
  <2> QED BY <2>4, <2>5
<1>10. \A k \in 1..n : Slice(k)' = Slice(k)
  BY <1>5, <1>6 DEF Slice
<1>11. Found' = Append(Found, Front(Rest))
  <2> DEFINE A == Append(Found, Front(Rest))
  <2>1. /\ A \in Seq(Element) /\ Len(A) = n + 1 /\ A[n + 1] = Front(Rest)
        /\ \A k \in 1..n : A[k] = Found[k]
    BY <1>1, <1>4, AppendProperties
  <2>2. /\ Found' \in Seq(Element) /\ Len(Found') = n'
        /\ \A k \in 1..n' : Found'[k] = [tag |-> out'[k].tag, content |-> Slice(k)']
    <3>1. Found' = [k \in 1..Len(out') |-> [tag |-> out'[k].tag, content |-> Slice(k)']]
      BY DEF Found, Slice
    <3>2. \A k \in 1..n' : Found'[k] = [tag |-> out'[k].tag, content |-> Slice(k)']
      BY <3>1
    <3>3. IInv' => (Found \in Seq(Element) /\ Len(Found) = Len(out))'
      BY FoundType, PTL
    <3> QED BY <1>2, <3>2, <3>3
  <2>3. out'[n + 1].tag = Rest[1]
    BY <1>6 DEF Child
  <2>4. \A k \in 1..(n + 1) : Found'[k] = A[k]
    <3>1. Found'[n + 1] = A[n + 1]
      <4>1. n + 1 \in 1..n'
        BY <1>1, <1>6
      <4>2. Found'[n + 1] = [tag |-> out'[n + 1].tag,
                             content |-> SubSeq(c, out'[n + 1].from + 1, out'[n + 1].end)]
        <5>1. ASSUME NEW k \in 1..n'
              PROVE  Found'[k] = [tag |-> out'[k].tag, content |-> SubSeq(c, out'[k].from + 1, out'[k].end)]
          BY <1>5, <2>2 DEF Slice
        <5> QED BY <4>1, <5>1
      <4> QED BY <1>9, <2>1, <2>3, <4>2 DEF Front
    <3>2. \A k \in 1..n : Found'[k] = A[k]
      BY <1>1, <1>6, <1>10, <2>1, <2>2
    <3> QED BY <1>1, <3>1, <3>2
  <2> HIDE DEF A
  <2>5. Found' = A
    BY <1>6, <2>1, <2>2, <2>4, SeqEqual
  <2> QED BY <2>5 DEF A
<1> QED BY <1>3, <1>4, <1>5, <1>6, <1>8, <1>11

\* At first nothing is found and everything is left.
LEMMA InitFoundFirst == Init => FoundFirst
<1> SUFFICES ASSUME Init PROVE FoundFirst
  OBVIOUS
<1>1. IInv
  BY InitIInv
<1>2. input.octets \in Seq(Octet) /\ pos = 0 /\ out = <<>> /\ pc = "walking"
  BY <1>1 DEF Init, IInv, TypeOK
<1>3. Rest = input.octets
  BY <1>2, SubSeqFull DEF Rest
<1>4. Found = <<>>
  BY <1>1, <1>2, FoundType, EmptySeq
<1>5. Children(input.octets) \in Seq(Element)
  BY <1>2, ChildrenUnfold
<1> QED BY <1>2, <1>3, <1>4, <1>5, ConcatEmptySeq DEF FoundFirst

\* Every step finds the next child, or finds that there is none.
LEMMA NextFoundFirst ==
  ASSUME IInv, FoundFirst, [Next]_vars
  PROVE  FoundFirst'
<1>1. CASE Take
  <2>1. /\ Found' = Append(Found, Front(Rest)) /\ Found \in Seq(Element)
        /\ Rest \in Seq(Octet) /\ Readable(Rest) /\ Front(Rest) \in Element
        /\ Rest' = From(Rest, TotalLen(Rest) + 1) /\ input' = input /\ pc' = "walking"
    BY <1>1, TakeFound, FoundType
  <2>2. Children(Rest) = <<Front(Rest)>> \o Children(Rest') /\ Children(Rest') \in Seq(Element)
    BY <2>1, ChildrenUnfold
  <2>3. <<Front(Rest)>> \in Seq(Element) /\ Found' = Found \o <<Front(Rest)>>
    BY <2>1, AppendIsConcat
  <2>4. Found \o (<<Front(Rest)>> \o Children(Rest')) = (Found \o <<Front(Rest)>>) \o Children(Rest')
    BY <2>1, <2>2, <2>3, ConcatAssociative
  <2>5. Children(input.octets) = Found \o Children(Rest)
    BY DEF FoundFirst
  <2>6. Children(input.octets) = Found' \o Children(Rest')
    BY <2>2, <2>3, <2>4, <2>5
  <2>7. (Children(input.octets))' = Children(input.octets) /\ (Children(Rest))' = Children(Rest')
    BY <2>1
  <2> QED BY <2>1, <2>6, <2>7 DEF FoundFirst
<1>2. CASE Stop
  BY <1>2 DEF Stop, FoundFirst, Found, Slice, Rest
<1>3. CASE Terminated \/ UNCHANGED vars
  BY <1>3 DEF Terminated, vars, FoundFirst, Found, Slice, Rest
<1> QED BY <1>1, <1>2, <1>3 DEF Next

\* What the loop finds is what the operator returns that ocsp.rs's walk is
\* built from, on every buffer of octets (der.rs:106-119).
THEOREM LoopIsChildren == Spec => []WalkIsChildren
<1>1. ASSUME IInv, FoundFirst PROVE WalkIsChildren
  <2> SUFFICES ASSUME pc = "done"
               PROVE  Children(input.octets) = Found
    BY DEF WalkIsChildren, Found
  <2>1. Children(Rest) = <<>>
    BY <1>1, RestType, ChildrenUnfold DEF FoundFirst, IInv
  <2> QED BY <1>1, <2>1, FoundType, ConcatEmptySeq DEF FoundFirst
<1>2. IInv /\ FoundFirst /\ [Next]_vars => (IInv /\ FoundFirst)'
  BY NextIInv, NextFoundFirst
<1> QED BY <1>1, <1>2, InitIInv, InitFoundFirst, PTL DEF Spec

-----------------------------------------------------------------------------
\* What the values of an input are.
ValuesAreEncodable(v) ==
  v \in Seq(Element) /\ \A m \in 1..Len(v) : Encodable(Len(v[m].content))
Encoding(e) == Tlv(e.tag, e.content)

\* Each encoding is appended to those of the values before it.
LEMMA EncodingsRecursion ==
  ASSUME NEW v, ValuesAreEncodable(v)
  PROVE  /\ Encodings(v) \in [0..Len(v) -> Seq(Octet)]
         /\ Encodings(v)[0] = <<>>
         /\ \A m \in 1..Len(v) : /\ v[m] \in Element /\ Encoding(v[m]) \in Seq(Octet)
                                /\ Encodings(v)[m] = Encodings(v)[m - 1] \o Encoding(v[m])
<1> DEFINE n == Len(v)
           V == Seq(Octet)
           step == [m \in 1..n |-> [s \in V |-> s \o Encoding(v[m])]]
           Rhs(f, m) == IF m = 0 THEN <<>> ELSE f[m - 1] \o Encoding(v[m])
           upto == CHOOSE f : f = [m \in 0..n |-> Rhs(f, m)]
<1>1. v \in Seq(Element) /\ n \in Nat
  BY LenProperties DEF ValuesAreEncodable
<1>2. ASSUME NEW m \in 1..n
      PROVE  v[m] \in Element /\ Encoding(v[m]) \in V
  <2>1. v[m] \in Element /\ Encodable(Len(v[m].content))
    BY <1>1, ElementOfSeq DEF ValuesAreEncodable
  <2>2. v[m].tag \in Octet /\ v[m].content \in Seq(Octet)
    BY <2>1 DEF Element
  <2> QED BY <2>1, <2>2, TlvReads DEF Encoding
<1>3. \A m \in 1..n, s \in V : s \o Encoding(v[m]) \in V
  BY <1>2, ConcatProperties
<1>4. step \in [1..n -> [V -> V]] /\ <<>> \in V
  <2> HIDE DEF V, n
  <2>1. <<>> \in V
    BY EmptySeq DEF V
  <2> QED BY <1>3, <2>1
<1>5. \A m \in 1..n, s \in V : step[m][s] = s \o Encoding(v[m])
  <2> HIDE DEF V, n
  <2> QED OBVIOUS
<1> HIDE DEF V, step, n
<1>6. PICK f \in [0..n -> V] : Iterates(f, n, <<>>, step) /\ IsOnlyIteration(f, V, n, <<>>, step)
  BY <1>1, <1>4, PrimitiveRecursion
<1>7. f[0] = <<>> /\ \A m \in 1..n : f[m] = f[m - 1] \o Encoding(v[m])
  <2>1. \A m \in 1..n : f[m - 1] \in V
    BY <1>1
  <2> QED BY <1>5, <1>6, <2>1 DEF Iterates
<1>8. f = [m \in 0..n |-> Rhs(f, m)]
  BY <1>1, <1>7
<1>9. upto = [m \in 0..n |-> Rhs(upto, m)]
  <2> HIDE DEF Rhs
  <2> QED BY <1>8
<1>10. upto[0] = <<>> /\ \A m \in 1..n : upto[m] = upto[m - 1] \o Encoding(v[m])
  <2>1. \A m \in 0..n : upto[m] = Rhs(upto, m)
    <3> HIDE DEF upto, Rhs
    <3> QED BY <1>9
  <2> HIDE DEF upto
  <2> QED BY <1>1, <2>1
<1>11. Encodings(v) = upto
  BY DEF Encodings, Encoding, n
<1>12. \A m \in 0..n : upto[m] = f[m]
  <2> HIDE DEF upto
  <2> QED BY <1>5, <1>6, <1>10 DEF IsOnlyIteration
<1>13. upto \in [0..n -> V]
  <2> HIDE DEF upto, Rhs
  <2> QED BY <1>9, <1>12
<1> HIDE DEF upto
<1> QED BY <1>2, <1>10, <1>11, <1>13 DEF n, V

\* So every encoding of the first k values is followed by the others, and
\* none of them is shorter.
LEMMA EncodingsSplit ==
  ASSUME NEW v, ValuesAreEncodable(v), NEW k \in 0..Len(v)
  PROVE  LET E == Encodings(v) IN
         /\ \E rest \in Seq(Octet) : E[Len(v)] = E[k] \o rest
         /\ \A m \in 0..k : Len(E[m]) \in Nat /\ Len(E[m]) <= Len(E[k])
<1> DEFINE n == Len(v)
           E == Encodings(v)
           S == {j \in Nat : j <= n => \E rest \in Seq(Octet) : E[n] = E[n - j] \o rest}
           T == {j \in Nat : \A m \in 0..n : m + j <= n => Len(E[m]) <= Len(E[m + j])}
<1>1. n \in Nat
  BY LenProperties DEF ValuesAreEncodable
<1>2. /\ E \in [0..n -> Seq(Octet)]
      /\ \A m \in 1..n : Encoding(v[m]) \in Seq(Octet) /\ E[m] = E[m - 1] \o Encoding(v[m])
  BY EncodingsRecursion
<1>3. \A m \in 0..n : E[m] \in Seq(Octet) /\ Len(E[m]) \in Nat
  BY <1>2, LenProperties
<1> HIDE DEF n, E
<1>4. 0 \in S
  <2>1. E[n] = E[n] \o <<>> /\ <<>> \in Seq(Octet) /\ n - 0 = n
    BY <1>1, <1>3, ConcatEmptySeq, EmptySeq
  <2> QED BY <2>1
<1>5. ASSUME NEW j \in Nat, j \in S PROVE j + 1 \in S
  <2> SUFFICES ASSUME j + 1 <= n PROVE \E rest \in Seq(Octet) : E[n] = E[n - (j + 1)] \o rest
    OBVIOUS
  <2> DEFINE m == n - j
  <2>1. m \in 1..n /\ m - 1 = n - (j + 1) /\ m - 1 \in 0..n /\ j <= n
    BY <1>1
  <2>2. PICK rest \in Seq(Octet) : E[n] = E[m] \o rest
    BY <1>5, <2>1
  <2> HIDE DEF m
  <2> DEFINE e == Encoding(v[m])
             a == E[m - 1]
  <2>3. e \in Seq(Octet) /\ E[m] = a \o e /\ a \in Seq(Octet)
    BY <1>2, <1>3, <2>1
  <2> HIDE DEF e, a
  <2>4. (a \o e) \o rest = a \o (e \o rest)
    BY <2>3, ConcatAssociative
  <2>5. e \o rest \in Seq(Octet)
    BY <2>3, ConcatProperties
  <2>6. E[n] = a \o (e \o rest)
    BY <2>2, <2>3, <2>4
  <2> QED BY <2>1, <2>5, <2>6 DEF a
<1>6. Nat \subseteq S
  <2> HIDE DEF S
  <2> QED BY <1>4, <1>5, SetInduction
<1>7. \E rest \in Seq(Octet) : E[n] = E[k] \o rest
  <2>1. k \in 0..n
    BY DEF n
  <2>2. n - k \in Nat /\ n - k <= n /\ n - (n - k) = k
    BY <1>1, <2>1
  <2>3. n - k \in S
    <3> HIDE DEF S
    <3> QED BY <1>6, <2>2
  <2> QED BY <2>2, <2>3
<1>8. 0 \in T
  BY <1>3
<1>9. ASSUME NEW j \in Nat, j \in T PROVE j + 1 \in T
  <2> SUFFICES ASSUME NEW m \in 0..n, m + (j + 1) <= n PROVE Len(E[m]) <= Len(E[m + (j + 1)])
    OBVIOUS
  <2> DEFINE p == m + (j + 1)
             q == m + j
  <2>1. p \in 1..n /\ p \in 0..n /\ p - 1 = q /\ q \in 0..n /\ q <= n
    BY <1>1
  <2>2. Len(E[m]) <= Len(E[q])
    BY <1>9, <2>1
  <2> HIDE DEF p, q
  <2>3. E[p] = E[q] \o Encoding(v[p]) /\ E[q] \in Seq(Octet) /\ Encoding(v[p]) \in Seq(Octet)
    BY <1>2, <1>3, <2>1
  <2>4. Len(E[p]) = Len(E[q]) + Len(Encoding(v[p])) /\ Len(Encoding(v[p])) \in Nat
    BY <2>3, ConcatProperties, LenProperties
  <2>5. Len(E[m]) \in Nat /\ Len(E[q]) \in Nat
    BY <1>3, <2>1
  <2> DEFINE x == Len(E[m])
             y == Len(E[q])
             z == Len(Encoding(v[p]))
  <2>6. Len(E[m]) <= Len(E[p])
    <3>1. x \in Nat /\ y \in Nat /\ z \in Nat /\ x <= y /\ Len(E[p]) = y + z
      BY <2>2, <2>4, <2>5
    <3> HIDE DEF x, y, z
    <3>2. x <= Len(E[p])
      BY <3>1
    <3> QED BY <3>2 DEF x
  <2> QED BY <2>6 DEF p
<1>10. Nat \subseteq T
  <2> HIDE DEF T
  <2> QED BY <1>8, <1>9, SetInduction
<1>11. ASSUME NEW m \in 0..k PROVE Len(E[m]) \in Nat /\ Len(E[m]) <= Len(E[k])
  <2>1. k \in 0..n
    BY DEF n
  <2>2. k - m \in Nat /\ m \in 0..n /\ m + (k - m) = k /\ m + (k - m) <= n
    BY <1>1, <2>1
  <2>3. k - m \in T
    <3> HIDE DEF T
    <3> QED BY <1>10, <2>2
  <2>4. Len(E[m]) <= Len(E[m + (k - m)])
    BY <2>2, <2>3
  <2> QED BY <1>3, <2>2, <2>4
<1> QED BY <1>7, <1>11 DEF E, n

\* Behind the first n values of a buffer that begins an encoding, exactly the
\* next value reads, and only if it lies wholly before the cut.
LEMMA NextValue ==
  ASSUME NEW v, ValuesAreEncodable(v), NEW c \in Seq(Octet), Begins(c, v),
         NEW n \in 0..Len(v), Len(Encodings(v)[n]) <= Len(c)
  PROVE  LET E == Encodings(v)
             d == From(c, Len(E[n]) + 1)
         IN  /\ Readable(d) <=> n < Len(v) /\ Len(E[n + 1]) <= Len(c)
             /\ Readable(d) => Front(d) = v[n + 1] /\ TotalLen(d) = Len(E[n + 1]) - Len(E[n])
<1> DEFINE E == Encodings(v)
           all == E[Len(v)]
           p == Len(E[n])
           L == Len(c)
           d == From(c, p + 1)
<1>1. /\ Len(v) \in Nat /\ L \in Nat
      /\ E \in [0..Len(v) -> Seq(Octet)]
      /\ \A m \in 1..Len(v) : /\ v[m] \in Element /\ Encoding(v[m]) \in Seq(Octet)
                             /\ E[m] = E[m - 1] \o Encoding(v[m])
  BY EncodingsRecursion, LenProperties DEF ValuesAreEncodable
<1>2. /\ all \in Seq(Octet) /\ E[n] \in Seq(Octet) /\ p \in Nat /\ Len(all) \in Nat
      /\ c = SubSeq(all, 1, L) /\ L <= Len(all) /\ p <= L
  <2>1. all \in Seq(Octet) /\ E[n] \in Seq(Octet)
    BY <1>1
  <2> QED BY <2>1, LenProperties DEF Begins
<1>3. Len(d) = L - p
  <2>1. p + 1 \in 1..(L + 1)
    BY <1>1, <1>2
  <2>2. Len(d) = L + 1 - (p + 1)
    BY <2>1, FromType
  <2> HIDE DEF d, p, L
  <2> QED BY <1>1, <1>2, <2>2
<1> HIDE DEF E, p, L, d, all
<1>4. CASE n = Len(v)
  <2>1. p = Len(all)
    BY <1>4 DEF p, all
  <2>2. Len(d) = 0
    BY <1>1, <1>2, <1>3, <2>1
  <2>3. ~Readable(d)
    BY <2>2 DEF Readable
  <2> QED BY <1>1, <1>4, <2>3 DEF E, p, L, d
<1>5. CASE n # Len(v)
  <2>1. n + 1 \in 1..Len(v) /\ n + 1 \in 0..Len(v) /\ (n + 1) - 1 = n
    BY <1>1, <1>5
  <2> DEFINE e == Encoding(v[n + 1])
  <2>2. /\ v[n + 1] \in Element /\ e \in Seq(Octet) /\ E[n + 1] = E[n] \o e
        /\ Encodable(Len(v[n + 1].content))
    BY <1>1, <2>1 DEF ValuesAreEncodable
  <2>3. PICK rest \in Seq(Octet) : all = E[n + 1] \o rest
    <3>1. \E rest \in Seq(Octet) : Encodings(v)[Len(v)] = Encodings(v)[n + 1] \o rest
      BY <2>1, EncodingsSplit
    <3> QED BY <3>1 DEF all, E
  <2> DEFINE X == e \o rest
  <2>4. X \in Seq(Octet) /\ all = E[n] \o X
    <3> DEFINE a == E[n]
    <3>1. a \in Seq(Octet) /\ e \in Seq(Octet) /\ rest \in Seq(Octet)
      BY <1>2, <2>2
    <3>2. all = (a \o e) \o rest
      BY <2>2, <2>3
    <3> HIDE DEF e, a
    <3>3. X \in Seq(Octet)
      BY <3>1, ConcatProperties
    <3>4. (a \o e) \o rest = a \o (e \o rest)
      BY <3>1, ConcatAssociative
    <3> QED BY <3>2, <3>3, <3>4 DEF a
  <2>5. From(all, p + 1) = X /\ Len(X) \in Nat /\ Len(all) = p + Len(X)
    <3> DEFINE a == E[n]
    <3>1. a \in Seq(Octet) /\ X \in Seq(Octet) /\ all = a \o X /\ p = Len(a)
      BY <1>2, <2>4 DEF p
    <3> HIDE DEF X, a
    <3> QED BY <3>1, PartsOfConcat, LenProperties DEF From
  <2>6. d = SubSeq(all, p + 1, L)
    <3>1. L \in 0..Len(all) /\ p + 1 \in 1..(L + 1) /\ L \in Int /\ L <= L
      BY <1>1, <1>2
    <3>2. SubSeq(SubSeq(all, 1, L), p + 1, L) = SubSeq(all, p + 1, L)
      BY <1>2, <3>1, SliceOfPrefix
    <3> QED BY <1>2, <3>2 DEF d, From, L
  <2> DEFINE m == L - p
  <2>7. d = SubSeq(X, 1, m)
    <3>1. /\ p + 1 \in 1..(Len(all) + 1) /\ 1 \in Nat \ {0} /\ m \in Int
          /\ m <= Len(all) + 1 - (p + 1)
          /\ (p + 1) + 1 - 1 = p + 1 /\ (p + 1) + m - 1 = L
      BY <1>1, <1>2
    <3> HIDE DEF m
    <3>2. SubSeq(From(all, p + 1), 1, m) = SubSeq(all, (p + 1) + 1 - 1, (p + 1) + m - 1)
      BY <1>2, <3>1, SliceOfFrom
    <3> QED BY <2>5, <2>6, <3>1, <3>2
  <2>8. /\ Readable(X) /\ X[1] = v[n + 1].tag /\ Content(X) = v[n + 1].content
        /\ TotalLen(X) = Len(e)
    <3> DEFINE t == v[n + 1].tag
               w == v[n + 1].content
    <3>1. t \in Octet /\ w \in Seq(Octet) /\ Encodable(Len(w)) /\ e = Tlv(t, w)
      BY <2>2 DEF Element, Encoding
    <3> HIDE DEF e, t, w
    <3>2. LET x == Tlv(t, w) \o rest IN
            Readable(x) /\ x[1] = t /\ Content(x) = w /\ TotalLen(x) = Len(Tlv(t, w))
      BY <3>1, TlvReadsFirst
    <3> QED BY <3>1, <3>2 DEF t, w
  <2>9. m \in 0..Len(X)
    BY <1>1, <1>2, <2>5
  <2> HIDE DEF X, m
  <2>10. /\ Readable(d) <=> m >= TotalLen(X)
         /\ Readable(d) => TotalLen(d) = TotalLen(X) /\ d[1] = X[1] /\ Content(d) = Content(X)
    BY <2>4, <2>7, <2>8, <2>9, ReadingIsLocal
  <2>11. Len(E[n + 1]) = p + Len(e) /\ Len(e) \in Nat
    <3> HIDE DEF e
    <3> QED BY <1>2, <2>2, ConcatProperties, LenProperties DEF p
  <2>12. Readable(d) => Front(d) = v[n + 1]
    BY <2>2, <2>8, <2>10 DEF Front, Element
  <2>13. n < Len(v)
    BY <1>1, <1>5
  <2> DEFINE x == Len(e)
             y == Len(E[n + 1])
  <2>14. Readable(d) <=> y <= L
    <3>1. x \in Nat /\ y = p + x /\ (Readable(d) <=> m >= x)
      BY <2>8, <2>10, <2>11
    <3> HIDE DEF x, y
    <3> QED BY <1>1, <1>2, <3>1 DEF m
  <2>15. Readable(d) => TotalLen(d) = y - p
    <3>1. x \in Nat /\ y = p + x /\ (Readable(d) => TotalLen(d) = x)
      BY <2>8, <2>10, <2>11
    <3> HIDE DEF x, y
    <3> QED BY <1>2, <3>1
  <2> QED BY <2>12, <2>13, <2>14, <2>15 DEF E, p, L, d, y
<1> QED BY <1>4, <1>5

\* The children found so far are the first of the values, and what is
\* consumed is their encoding.
ValuesFound ==
  /\ input \in Inputs
  /\ input.values # <<>> =>
       /\ Len(out) <= Len(input.values)
       /\ pos = Len(Encodings(input.values)[Len(out)])
       /\ \A m \in 1..Len(out) : Found[m] = input.values[m]

LEMMA InputValues ==
  ASSUME NEW i \in Inputs, i.values # <<>>
  PROVE  ValuesAreEncodable(i.values) /\ Begins(i.octets, i.values) /\ i.octets \in Seq(Octet)
<1>1. i.values \in Seq(Element) /\ DOMAIN i.values = 1..Len(i.values)
  BY WalkAssumption, LenProperties
<1> QED BY <1>1, WalkAssumption DEF ValuesAreEncodable

LEMMA InitValuesFound == Init => ValuesFound
<1> SUFFICES ASSUME Init PROVE ValuesFound
  OBVIOUS
<1>1. input \in Inputs /\ pos = 0 /\ out = <<>> /\ Len(out) = 0
  BY EmptySeq DEF Init
<1>2. ASSUME input.values # <<>>
      PROVE  Len(input.values) \in Nat /\ Encodings(input.values)[0] = <<>>
  BY <1>1, <1>2, InputValues, EncodingsRecursion, LenProperties DEF ValuesAreEncodable
<1> QED BY <1>1, <1>2, EmptySeq DEF ValuesFound

\* A step finds the value that reads behind those found before.
LEMMA NextValuesFound ==
  ASSUME IInv, ValuesFound, [Next]_vars
  PROVE  ValuesFound'
<1>1. CASE Take
  <2> DEFINE v == input.values
             n == Len(out)
             c == input.octets
             E == Encodings(v)
  <2>1. /\ Found' = Append(Found, Front(Rest)) /\ Found \in Seq(Element) /\ Len(Found) = n
        /\ n \in Nat /\ Readable(Rest) /\ Front(Rest) \in Element
        /\ input' = input /\ Len(out') = n + 1
    BY <1>1, TakeFound, FoundType
  <2>2. pos' = pos + TotalLen(Rest)
    BY <1>1, TakeIInv
  <2>3. ASSUME v # <<>>
        PROVE  /\ Len(out') <= Len(v) /\ pos' = Len(E[Len(out')])
               /\ \A m \in 1..Len(out') : Found'[m] = v[m]
    <3>1. /\ ValuesAreEncodable(v) /\ Begins(c, v) /\ c \in Seq(Octet) /\ Len(v) \in Nat
          /\ n \in 0..Len(v) /\ pos = Len(E[n]) /\ pos \in Nat /\ pos <= Len(c)
      <4>1. ValuesAreEncodable(v) /\ Begins(c, v) /\ c \in Seq(Octet)
        BY <2>3, InputValues DEF ValuesFound
      <4>2. Len(v) \in Nat /\ Len(c) \in Nat /\ pos \in 0..Len(c)
        BY <4>1, LenProperties DEF ValuesAreEncodable, IInv, TypeOK
      <4>3. n <= Len(v) /\ pos = Len(E[n])
        BY <2>3 DEF ValuesFound
      <4> QED BY <2>1, <4>1, <4>2, <4>3
    <3>2. Rest = From(c, pos + 1)
      BY DEF Rest, From
    <3> HIDE DEF v, n, c
    <3>3. n < Len(v) /\ Front(Rest) = v[n + 1] /\ TotalLen(Rest) = Len(E[n + 1]) - Len(E[n])
      BY <2>1, <3>1, <3>2, NextValue
    <3>4. Len(E[n + 1]) \in Nat
      <4>1. n + 1 \in 0..Len(v) /\ n + 1 \in 0..(n + 1)
        BY <2>1, <3>1, <3>3
      <4> QED BY <3>1, <4>1, EncodingsSplit
    <3>5. pos' = Len(E[n + 1])
      <4> DEFINE y == Len(E[n + 1])
      <4>1. y \in Nat /\ TotalLen(Rest) = y - pos
        BY <3>1, <3>3, <3>4
      <4> HIDE DEF y
      <4>2. pos' = y
        BY <2>2, <3>1, <4>1
      <4> QED BY <4>2 DEF y
    <3>6. Found'[n + 1] = v[n + 1] /\ \A m \in 1..n : Found'[m] = Found[m]
      BY <2>1, <3>3, AppendProperties
    <3>7. \A m \in 1..n : Found[m] = v[m]
      BY <2>3 DEF ValuesFound, v, n
    <3>8. \A m \in 1..(n + 1) : Found'[m] = v[m]
      BY <2>1, <3>6, <3>7
    <3>9. n + 1 <= Len(v)
      BY <2>1, <3>1, <3>3
    <3> QED BY <2>1, <3>5, <3>8, <3>9
  <2> QED BY <2>1, <2>3 DEF ValuesFound
<1>2. CASE Stop
  BY <1>2 DEF Stop, ValuesFound, Found, Slice
<1>3. CASE Terminated \/ UNCHANGED vars
  BY <1>3 DEF Terminated, vars, ValuesFound, Found, Slice
<1> QED BY <1>1, <1>2, <1>3 DEF Next

\* Reading undoes writing: whatever values were encoded, of whatever size, and
\* wherever their encoding was cut off, the walk finds exactly the values that
\* lie wholly before the cut (der.rs:13-38, 76-119).
THEOREM ReadingUndoesWriting == Spec => []WalkInvertsEncoding
<1>1. ASSUME IInv, FoundFirst, ValuesFound PROVE WalkInvertsEncoding
  <2> DEFINE v == input.values
             n == Len(out)
             c == input.octets
             E == Encodings(v)
             whole == {m \in 1..Len(v) : Len(E[m]) <= Len(c)}
  <2> SUFFICES ASSUME pc = "done", v # <<>>
               PROVE  /\ whole = 1..n
                      /\ \A m \in whole : out[m].tag = v[m].tag /\ Slice(m) = v[m].content
    BY DEF WalkInvertsEncoding
  <2>1. ValuesAreEncodable(v) /\ Begins(c, v) /\ c \in Seq(Octet)
    BY <1>1, InputValues DEF ValuesFound
  <2>2. /\ Len(v) \in Nat /\ Len(c) \in Nat /\ pos \in 0..Len(c) /\ n \in Nat
        /\ \A k \in 1..n : Found[k] = [tag |-> out[k].tag, content |-> Slice(k)]
    BY <1>1, <2>1, FoundType, LenProperties DEF ValuesAreEncodable, IInv, TypeOK
  <2>3. n <= Len(v) /\ pos = Len(E[n]) /\ \A m \in 1..n : Found[m] = v[m]
    BY <1>1 DEF ValuesFound
  <2>4. n \in 0..Len(v) /\ Len(E[n]) <= Len(c)
    BY <2>2, <2>3
  <2>5. ~Readable(Rest) /\ Rest = From(c, pos + 1)
    BY <1>1 DEF FoundFirst, Rest, From
  <2> HIDE DEF v, n, c
  <2>6. ~(n < Len(v) /\ Len(E[n + 1]) <= Len(c))
    BY <2>1, <2>3, <2>4, <2>5, NextValue
  <2>7. \A m \in 0..n : Len(E[m]) \in Nat /\ Len(E[m]) <= Len(E[n])
    BY <2>1, <2>4, EncodingsSplit
  <2>8. ASSUME NEW m \in 1..n PROVE m \in whole
    <3>1. m \in 0..n /\ m \in 1..Len(v)
      BY <2>2, <2>3
    <3> DEFINE x == Len(E[m])
               y == Len(E[n])
               z == Len(c)
    <3>2. x \in Nat /\ x <= y /\ y \in Nat /\ y <= z /\ z \in Nat
      BY <2>2, <2>3, <2>4, <2>7, <3>1
    <3> HIDE DEF x, y, z
    <3>3. x <= z
      BY <3>2
    <3> QED BY <3>1, <3>3 DEF x, z
  <2>9. ASSUME NEW m \in whole PROVE m \in 1..n
    <3> SUFFICES ASSUME m > n PROVE FALSE
      BY <2>2
    <3>1. n + 1 \in 0..m /\ m \in 0..Len(v) /\ n < Len(v) /\ Len(E[m]) <= Len(c)
      BY <2>2
    <3>2. Len(E[n + 1]) \in Nat /\ Len(E[n + 1]) <= Len(E[m]) /\ Len(E[m]) \in Nat
      <4>1. \A k \in 0..m : Len(E[k]) \in Nat /\ Len(E[k]) <= Len(E[m])
        BY <2>1, <3>1, EncodingsSplit
      <4>2. m \in 0..m
        BY <2>2
      <4> HIDE DEF E
      <4> QED BY <3>1, <4>1, <4>2
    <3> DEFINE x == Len(E[n + 1])
               y == Len(E[m])
               z == Len(c)
    <3>3. x \in Nat /\ y \in Nat /\ z \in Nat /\ x <= y /\ y <= z
      BY <2>2, <3>1, <3>2
    <3>4. ~(x <= z)
      BY <2>6, <3>1
    <3> HIDE DEF x, y, z
    <3> QED BY <3>3, <3>4
  <2>10. whole = 1..n
    <3> HIDE DEF whole
    <3> QED BY <2>8, <2>9
  <2>11. ASSUME NEW m \in 1..n PROVE out[m].tag = v[m].tag /\ Slice(m) = v[m].content
    <3>1. [tag |-> out[m].tag, content |-> Slice(m)] = v[m]
      BY <2>2, <2>3
    <3> HIDE DEF Slice
    <3> QED BY <3>1
  <2> QED BY <2>10, <2>11
<1>2. IInv /\ FoundFirst /\ ValuesFound /\ [Next]_vars => (IInv /\ FoundFirst /\ ValuesFound)'
  BY NextIInv, NextFoundFirst, NextValuesFound
<1> QED BY <1>1, <1>2, InitIInv, InitFoundFirst, InitValuesFound, PTL DEF Spec
=============================================================================
