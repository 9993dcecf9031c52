------------------------- MODULE HttpExchangeProofs -------------------------
(***************************************************************************)
(* Proofs about HttpExchange for any peers and any size of a response.     *)
(***************************************************************************)
EXTENDS HttpExchange, DerProofs

\* A reader makes at most one value of a response.
LEMMA InterpretLen ==
  ASSUME NEW user \in {"ocsp", "ct", "hsts"}, NEW response
  PROVE  Len(Answer(user, response)) <= 1
<1> DEFINE r == response[1]
<1>1. Len(ParseStatus(r.body)) <= 1
  BY DEF ParseStatus, Some, None
<1>2. Len(CountEntries(r.body)) <= 1
  BY DEF CountEntries, JsonLen
<1> QED BY <1>1, <1>2 DEF Answer, Interpret, Some, None

\* What does not read has no status.
LEMMA UnreadableHasNoStatus ==
  ASSUME NEW d, ~Readable(d)
  PROVE  ParseStatus(d) = None
BY DEF ParseStatus, None

\* Of a response that is one value a proper part does not read.
LEMMA PartDoesNotRead ==
  ASSUME peer.body \in Seq(Octet), received \in Nat, received < Whole, HeadUnits \in Nat,
         Readable(peer.body), TotalLen(peer.body) = Len(peer.body)
  PROVE  ~Readable(Body)
<1>1. Len(peer.body) \in Nat
  BY LenProperties
<1>2. CASE received <= HeadUnits
  BY <1>2 DEF Body, Readable
<1>3. CASE ~(received <= HeadUnits)
  <2>1. received - HeadUnits \in 0..Len(peer.body) /\ received - HeadUnits < Len(peer.body)
    BY <1>1, <1>3 DEF Whole
  <2>2. Body = SubSeq(peer.body, 1, received - HeadUnits)
    BY <1>3 DEF Body
  <2>3. Readable(Body) <=> received - HeadUnits >= TotalLen(peer.body)
    BY <2>1, <2>2, ReadingIsLocal
  <2> QED BY <1>1, <2>1, <2>3
<1> QED BY <1>2, <1>3

IInv == TypeOK /\ CutStatusIsNoStatus

\* Nothing has been answered at first.
LEMMA InitIInv == Init => IInv
<1> SUFFICES ASSUME Init PROVE IInv
  OBVIOUS
<1>1. Whole \in Nat
  BY ExchangeAssumption, LenProperties DEF Init, Whole
<1> QED BY <1>1 DEF Init, IInv, TypeOK, CutStatusIsNoStatus, OnNetwork, None

\* While an exchange goes on, or gives up, there is no answer.
LEMMA UnansweredIInv ==
  ASSUME IInv, phase \in OnNetwork, UNCHANGED <<peer, answer>>,
         phase' \in OnNetwork \cup {"lost"}, received' \in 0..Whole
  PROVE  IInv'
<1>1. answer = None
  BY DEF IInv, TypeOK, OnNetwork
<1>2. Whole' = Whole
  BY DEF Whole
<1> QED BY <1>1, <1>2 DEF IInv, TypeOK, CutStatusIsNoStatus, OnNetwork, None

\* At the end of the stream whatever has arrived is interpreted.
LEMMA ClosedIInv ==
  ASSUME IInv, Closed
  PROVE  IInv'
<1>1. /\ peer' = peer /\ received' = received /\ phase' = "closed"
      /\ answer' = Answer(peer.user, Response)
  BY DEF Closed
<1>2. /\ peer \in Peers /\ peer.user \in {"ocsp", "ct", "hsts"} /\ peer.body \in Seq(Octet)
      /\ HeadUnits \in Nat
  BY ExchangeAssumption DEF IInv, TypeOK
<1>3. Whole' = Whole /\ Whole \in Nat /\ received \in 0..Whole
  BY <1>1, <1>2, LenProperties DEF Whole, IInv, TypeOK
<1>4. Len(answer') <= 1
  BY <1>1, <1>2, InterpretLen
<1>5. TypeOK'
  BY <1>1, <1>2, <1>3, <1>4 DEF TypeOK
<1>6. ASSUME peer.user = "ocsp", peer.status = 200, ~Chunked(peer.headers),
             Readable(peer.body), TotalLen(peer.body) = Len(peer.body), received < Whole
      PROVE  answer' = None
  <2>1. CASE Response = None
    BY <1>1, <2>1 DEF Answer
  <2>2. CASE Response # None
    <3>1. Response[1] = [status |-> 200, headers |-> peer.headers, body |-> Body]
      BY <1>6, <2>2 DEF Response, ParseResponse, None
    <3>2. Answer(peer.user, Response) = ParseStatus(Body)
      BY <1>6, <2>2, <3>1 DEF Answer, Interpret
    <3>3. ~Readable(Body)
      BY <1>2, <1>3, <1>6, PartDoesNotRead
    <3> QED BY <1>1, <2>2, <3>2, <3>3, UnreadableHasNoStatus
  <2> QED BY <2>1, <2>2
<1>7. CutStatusIsNoStatus'
  BY <1>1, <1>3, <1>6 DEF CutStatusIsNoStatus
<1> QED BY <1>5, <1>7 DEF IInv

\* Every step of Next, or a stutter, preserves the inductive invariant.
LEMMA NextIInv == IInv /\ [Next]_vars => IInv'
<1> SUFFICES ASSUME IInv, [Next]_vars PROVE IInv'
  OBVIOUS
<1>0. received \in 0..Whole /\ Whole \in Nat
  BY ExchangeAssumption, LenProperties DEF IInv, TypeOK, Whole
<1>1. CASE Connected \/ Secured \/ Failed \/ Expired
  BY <1>0, <1>1, UnansweredIInv DEF Connected, Secured, Failed, Expired, OnNetwork
<1>2. CASE Receive
  BY <1>0, <1>2, UnansweredIInv DEF Receive, OnNetwork
<1>3. CASE Closed
  BY <1>3, ClosedIInv
<1>4. CASE Terminated \/ UNCHANGED vars
  BY <1>4 DEF Terminated, vars, IInv, TypeOK, CutStatusIsNoStatus, Whole
<1> QED BY <1>1, <1>2, <1>3, <1>4 DEF Next

\* Every reachable state satisfies the inductive invariant.
THEOREM Invariance == Spec => []IInv
BY InitIInv, NextIInv, PTL DEF Spec

-----------------------------------------------------------------------------
\* Only an exchange that was closed by the peer has an answer, and at most one
\* (http.rs:79-95).
THEOREM Typing == Spec => []TypeOK
<1>1. IInv => TypeOK
  BY DEF IInv
<1> QED BY <1>1, Invariance, PTL

\* However an OCSP response is built, cut off it yields no status, at whichever
\* of its octets and whatever their size (ocsp.rs:129-172, der.rs:76-104).
THEOREM CutStatus == Spec => []CutStatusIsNoStatus
<1>1. IInv => CutStatusIsNoStatus
  BY DEF IInv
<1> QED BY <1>1, Invariance, PTL

-----------------------------------------------------------------------------
\* The octets that the code has as numbers are octets.
LEMMA CodeOctets ==
  /\ Octet = 0..255 /\ Half = 128
  /\ SequenceTag \in Octet /\ OctetStringTag \in Octet /\ IntegerTag \in Octet
  /\ AlgIdSha1 \in Seq(Octet)
BY OcspAssumption, DerAssumption
   DEF Octet, Half, SequenceTag, OctetStringTag, IntegerTag, AlgIdSha1

\* What may be missing of a walk: an element, or None.
MayBe == {None} \cup {Some(e) : e \in Element}

LEMMA ChildType ==
  ASSUME NEW c \in Seq(Octet), NEW k \in Nat \ {0}
  PROVE  Child(c, k) \in MayBe
<1> DEFINE s == Children(c)
<1>1. s \in Seq(Element)
  BY ChildrenUnfold
<1> HIDE DEF s
<1>2. k <= Len(s) => s[k] \in Element
  BY <1>1, ElementOfSeq, LenProperties
<1> HIDE DEF Element
<1> QED BY <1>2 DEF Child, Nth, MayBe, s

\* Some and None are told apart, and Some gives back what it holds.
LEMMA SomeIsNotNone ==
  \A x : Some(x) # None /\ Some(x)[1] = x
BY DEF Some, None

\* A descent goes one child further with every index.
LEMMA DescendRecursion ==
  ASSUME NEW c \in Seq(Octet), NEW path \in Seq(Nat \ {0})
  PROVE  \E at \in [0..Len(path) -> MayBe] :
           /\ at[0] = Some([tag |-> 0, content |-> c])
           /\ \A i \in 1..Len(path) : at[i] = IF at[i - 1] = None THEN None
                                             ELSE Child(at[i - 1][1].content, path[i])
           /\ Descend(c, path) = at[Len(path)]
<1> DEFINE n == Len(path)
           first == Some([tag |-> 0, content |-> c])
           step == [i \in 1..n |-> [a \in MayBe |->
                      IF a = None THEN None ELSE Child(a[1].content, path[i])]]
           Rhs(f, i) == IF i = 0 THEN first
                        ELSE IF f[i - 1] = None THEN None ELSE Child(f[i - 1][1].content, path[i])
           walk == CHOOSE f : f = [i \in 0..n |-> Rhs(f, i)]
<1>1. n \in Nat
  BY LenProperties
<1>2. first \in MayBe
  BY CodeOctets DEF MayBe, Element
<1>3. ASSUME NEW i \in 1..n, NEW a \in MayBe, a # None
      PROVE  Child(a[1].content, path[i]) \in MayBe
  <2>1. path[i] \in Nat \ {0}
    BY ElementOfSeq
  <2>2. PICK e \in Element : a = Some(e)
    BY <1>3 DEF MayBe
  <2>3. a[1].content \in Seq(Octet)
    BY <2>2, SomeIsNotNone DEF Element
  <2> QED BY <2>1, <2>3, ChildType
<1>4. step \in [1..n -> [MayBe -> MayBe]]
  <2>1. None \in MayBe
    BY DEF MayBe
  <2> HIDE DEF n
  <2> QED BY <1>3, <2>1
<1>5. \A i \in 1..n, a \in MayBe :
        step[i][a] = IF a = None THEN None ELSE Child(a[1].content, path[i])
  <2> HIDE DEF n
  <2> QED OBVIOUS
<1> HIDE DEF n, first, step
<1>6. PICK f \in [0..n -> MayBe] : Iterates(f, n, first, step) /\ IsOnlyIteration(f, MayBe, n, first, step)
  BY <1>1, <1>2, <1>4, PrimitiveRecursion
<1>7. ASSUME NEW i \in 0..n PROVE f[i] = Rhs(f, i)
  <2>1. CASE i = 0
    BY <1>6, <2>1 DEF Iterates
  <2>2. CASE i # 0
    <3>1. i \in 1..n /\ f[i - 1] \in MayBe
      BY <1>1, <2>2
    <3>2. f[i] = step[i][f[i - 1]]
      BY <1>6, <3>1 DEF Iterates
    <3> QED BY <1>5, <2>2, <3>1, <3>2
  <2> QED BY <2>1, <2>2
<1>8. walk = [i \in 0..n |-> Rhs(walk, i)]
  <2> HIDE DEF Rhs
  <2>1. f = [i \in 0..n |-> Rhs(f, i)]
    BY <1>7
  <2> QED BY <2>1
<1>9. \A i \in 0..n : walk[i] = Rhs(walk, i)
  <2> HIDE DEF walk, Rhs
  <2> QED BY <1>8
<1>10. walk[0] = first /\ \A i \in 1..n : walk[i - 1] \in MayBe => walk[i] = step[i][walk[i - 1]]
  <2> HIDE DEF walk
  <2> QED BY <1>1, <1>5, <1>9
<1>11. \A i \in 0..n : walk[i] = f[i]
  <2> HIDE DEF walk
  <2> QED BY <1>6, <1>10 DEF IsOnlyIteration
<1>12. Descend(c, path) = walk[n]
  BY DEF Descend, n, first
<1> HIDE DEF walk
<1>13. Descend(c, path) = f[n]
  BY <1>1, <1>11, <1>12
<1>14. f[0] = first /\ \A i \in 1..n : f[i] = IF f[i - 1] = None THEN None
                                             ELSE Child(f[i - 1][1].content, path[i])
  BY <1>1, <1>7
<1> QED BY <1>13, <1>14 DEF n, first

\* The only child of a value is that value.
LEMMA OnlyChild ==
  ASSUME NEW tag \in Octet, NEW c \in Seq(Octet), Encodable(Len(c))
  PROVE  /\ Tlv(tag, c) \in Seq(Octet)
         /\ Child(Tlv(tag, c), 1) = Some([tag |-> tag, content |-> c])
<1> DEFINE d == Tlv(tag, c)
           e == [tag |-> tag, content |-> c]
<1>1. d \in Seq(Octet)
  BY TlvReads
<1>2. Children(d \o <<>>) = <<e>> \o Children(<<>>) /\ Children(<<>>) = <<>>
  <2>1. <<>> \in Seq(Octet)
    BY EmptySeq
  <2> QED BY <2>1, ChildrenOfEncodings
<1> HIDE DEF d, e
<1>3. d \o <<>> = d
  BY <1>1, ConcatEmptySeq
<1>4. <<e>> \o <<>> = <<e>>
  OBVIOUS
<1>5. Children(d) = <<e>>
  BY <1>2, <1>3, <1>4
<1>6. Child(d, 1) = Some(e)
  BY <1>5 DEF Child, Nth, Some
<1> QED BY <1>1, <1>6 DEF d, e

\* What is put in front comes first; the rest moves back by one.
LEMMA PushFront ==
  ASSUME NEW S, NEW x \in S, NEW s \in Seq(S)
  PROVE  LET t == <<x>> \o s IN
         /\ t \in Seq(S) /\ Len(t) = Len(s) + 1 /\ Len(s) \in Nat
         /\ t[1] = x /\ \A i \in 1..Len(s) : t[i + 1] = s[i]
<1> DEFINE u == <<x>>
<1>1. u \in Seq(S) /\ Len(u) = 1 /\ u[1] = x
  OBVIOUS
<1>2. Len(s) \in Nat
  BY LenProperties
<1> HIDE DEF u
<1>3. /\ u \o s \in Seq(S) /\ Len(u \o s) = 1 + Len(s)
      /\ \A i \in 1..(1 + Len(s)) : (u \o s)[i] = IF i <= 1 THEN u[i] ELSE s[i - 1]
  <2>1. /\ u \o s \in Seq(S) /\ Len(u \o s) = Len(u) + Len(s)
        /\ \A i \in 1..(Len(u) + Len(s)) :
             (u \o s)[i] = IF i <= Len(u) THEN u[i] ELSE s[i - Len(u)]
    BY <1>1, ConcatProperties
  <2> QED BY <1>1, <2>1
<1> DEFINE t == u \o s
<1> HIDE DEF t
<1>4. /\ \A i \in 1..(1 + Len(s)) : t[i] = IF i <= 1 THEN u[i] ELSE s[i - 1]
  BY <1>3 DEF t
<1>5. t[1] = x
  BY <1>1, <1>2, <1>4
<1>6. \A i \in 1..Len(s) : t[i + 1] = s[i]
  BY <1>2, <1>4
<1> QED BY <1>2, <1>3, <1>5, <1>6 DEF t, u

\* The encoding of four values one behind the other has them as children.
LEMMA FourChildren ==
  ASSUME NEW a \in Element, NEW b \in Element, NEW c \in Element, NEW d \in Element,
         \A e \in {a, b, c, d} : Encodable(Len(e.content))
  PROVE  LET E(e) == Tlv(e.tag, e.content)
             s == E(a) \o E(b) \o E(c) \o E(d)
         IN  s \in Seq(Octet) /\ Children(s) = <<a, b, c, d>>
<1> DEFINE E(e) == Tlv(e.tag, e.content)
<1>1. ASSUME NEW e \in {a, b, c, d}, NEW rest \in Seq(Octet)
      PROVE  E(e) \in Seq(Octet) /\ E(e) \o rest \in Seq(Octet)
             /\ Children(E(e) \o rest) = <<e>> \o Children(rest)
  <2> DEFINE t == e.tag
             w == e.content
  <2>1. t \in Octet /\ w \in Seq(Octet) /\ Encodable(Len(w)) /\ e = [tag |-> t, content |-> w]
    BY DEF Element
  <2> HIDE DEF t, w
  <2>2. Tlv(t, w) \in Seq(Octet)
    BY <2>1, TlvReads
  <2>3. Tlv(t, w) \o rest \in Seq(Octet)
    BY <2>2, ConcatProperties
  <2>4. Children(Tlv(t, w) \o rest) = <<[tag |-> t, content |-> w]>> \o Children(rest)
    BY <2>1, ChildrenOfEncodings
  <2> QED BY <2>1, <2>2, <2>3, <2>4 DEF t, w
<1> DEFINE e1 == E(a)
           e2 == E(b)
           e3 == E(c)
           e4 == E(d)
<1>2. <<>> \in Seq(Octet) /\ Children(<<>>) = <<>>
  BY EmptySeq, ChildrenOfEncodings
<1>3. e1 \in Seq(Octet) /\ e2 \in Seq(Octet) /\ e3 \in Seq(Octet) /\ e4 \in Seq(Octet)
  BY <1>1, <1>2
<1> HIDE DEF E
<1>4. e4 \o <<>> \in Seq(Octet) /\ Children(e4 \o <<>>) = <<d>> \o <<>>
  BY <1>1, <1>2
<1>5. e4 \o <<>> = e4 /\ <<d>> \o <<>> = <<d>>
  BY <1>3, ConcatEmptySeq
<1>6. e3 \o e4 \in Seq(Octet) /\ Children(e3 \o e4) = <<c>> \o <<d>>
  BY <1>1, <1>4, <1>5
<1>7. e2 \o (e3 \o e4) \in Seq(Octet) /\ Children(e2 \o (e3 \o e4)) = <<b>> \o (<<c>> \o <<d>>)
  BY <1>1, <1>6
<1>8. /\ e1 \o (e2 \o (e3 \o e4)) \in Seq(Octet)
      /\ Children(e1 \o (e2 \o (e3 \o e4))) = <<a>> \o (<<b>> \o (<<c>> \o <<d>>))
  BY <1>1, <1>7
<1>9. <<a>> \o (<<b>> \o (<<c>> \o <<d>>)) = <<a, b, c, d>>
  <2> DEFINE x == <<c>> \o <<d>>
             y == <<b>> \o x
             z == <<a>> \o y
             t == <<a, b, c, d>>
  <2>1. x \in Seq(Element) /\ Len(x) = 2 /\ x[1] = c /\ x[2] = d
    <3> HIDE DEF Element
    <3> QED BY PushFront, EmptySeq
  <2> HIDE DEF x
  <2>2. y \in Seq(Element) /\ Len(y) = 3 /\ y[1] = b /\ y[2] = c /\ y[3] = d
    <3>1. y \in Seq(Element) /\ Len(y) = Len(x) + 1 /\ y[1] = b
          /\ \A i \in 1..Len(x) : y[i + 1] = x[i]
      <4>1. x \in Seq(Element)
        BY <2>1
      <4> HIDE DEF Element
      <4> QED BY <4>1, PushFront
    <3>2. 1 \in 1..2 /\ 2 \in 1..2
      OBVIOUS
    <3>3. y[1 + 1] = x[1] /\ y[2 + 1] = x[2]
      BY <2>1, <3>1, <3>2
    <3> QED BY <2>1, <3>1, <3>3
  <2> HIDE DEF y
  <2>3. z \in Seq(Element) /\ Len(z) = 4 /\ z[1] = a /\ z[2] = b /\ z[3] = c /\ z[4] = d
    <3>1. z \in Seq(Element) /\ Len(z) = Len(y) + 1 /\ z[1] = a
          /\ \A i \in 1..Len(y) : z[i + 1] = y[i]
      <4>1. y \in Seq(Element)
        BY <2>2
      <4> HIDE DEF Element
      <4> QED BY <4>1, PushFront
    <3>2. 1 \in 1..3 /\ 2 \in 1..3 /\ 3 \in 1..3
      OBVIOUS
    <3>3. z[1 + 1] = y[1] /\ z[2 + 1] = y[2] /\ z[3 + 1] = y[3]
      BY <2>2, <3>1, <3>2
    <3> QED BY <2>2, <3>1, <3>3
  <2>4. t \in Seq(Element) /\ Len(t) = 4 /\ t[1] = a /\ t[2] = b /\ t[3] = c /\ t[4] = d
    <3> HIDE DEF Element
    <3> QED OBVIOUS
  <2> HIDE DEF z, t
  <2>5. \A i \in 1..4 : z[i] = t[i]
    <3>1. \A i \in 1..4 : i = 1 \/ i = 2 \/ i = 3 \/ i = 4
      OBVIOUS
    <3> QED BY <2>3, <2>4, <3>1
  <2>6. z = t
    BY <2>3, <2>4, <2>5, SeqEqual
  <2> QED BY <2>6 DEF z, y, x, t
<1> HIDE DEF e1, e2, e3, e4
<1>10. ((e1 \o e2) \o e3) \o e4 = e1 \o (e2 \o (e3 \o e4))
  <2>1. ASSUME NEW u \in Seq(Octet), NEW v \in Seq(Octet), NEW w \in Seq(Octet)
        PROVE  (u \o v) \o w = u \o (v \o w)
    BY ConcatAssociative
  <2> DEFINE x == e2 \o e3
  <2>2. x \in Seq(Octet)
    BY <1>3, ConcatProperties
  <2>3. (e1 \o e2) \o e3 = e1 \o x /\ x \o e4 = e2 \o (e3 \o e4)
    BY <1>3, <2>1
  <2> HIDE DEF x
  <2>4. (e1 \o x) \o e4 = e1 \o (x \o e4)
    BY <1>3, <2>1, <2>2
  <2> QED BY <2>3, <2>4
<1>11. LET s == ((e1 \o e2) \o e3) \o e4 IN s \in Seq(Octet) /\ Children(s) = <<a, b, c, d>>
  BY <1>8, <1>9, <1>10
<1> QED BY <1>11 DEF e1, e2, e3, e4, E

\* A sum of four lengths is at least each of them.
LEMMA FourLengths ==
  ASSUME NEW a \in Seq(Nat), NEW b \in Seq(Nat), NEW c \in Seq(Nat), NEW d \in Seq(Nat)
  PROVE  LET s == a \o b \o c \o d IN
         /\ s \in Seq(Nat) /\ Len(s) \in Nat
         /\ \A e \in {a, b, c, d} : Len(e) \in 0..Len(s)
<1>1. a \o b \in Seq(Nat) /\ Len(a \o b) = Len(a) + Len(b)
  BY ConcatProperties
<1> DEFINE x == a \o b
<1> HIDE DEF x
<1>2. x \o c \in Seq(Nat) /\ Len(x \o c) = Len(x) + Len(c)
  BY <1>1, ConcatProperties DEF x
<1> DEFINE y == x \o c
<1> HIDE DEF y
<1>3. y \o d \in Seq(Nat) /\ Len(y \o d) = Len(y) + Len(d)
  BY <1>2, ConcatProperties DEF y
<1>4. Len(a) \in Nat /\ Len(b) \in Nat /\ Len(c) \in Nat /\ Len(d) \in Nat
  BY LenProperties
<1>5. Len(x) = Len(a) + Len(b) /\ Len(y) = Len(x) + Len(c)
  BY <1>1, <1>2 DEF x, y
<1>6. Len(y \o d) \in Nat /\ \A e \in {a, b, c, d} : Len(e) \in 0..Len(y \o d)
  BY <1>3, <1>4, <1>5
<1> QED BY <1>3, <1>6 DEF x, y

\* A number that is not empty and has no sign bit is encoded as it is.
LEMMA PlainInteger ==
  ASSUME NEW i \in Seq(Octet), i # <<>>, i[1] < Half
  PROVE  DerInteger(i) = Tlv(IntegerTag, i)
<1>1. Len(i) \in Nat \ {0}
  BY EmptySeq
<1>2. 1 \in 1..Len(i)
  BY <1>1
<1>3. i[1] \in Octet
  BY <1>2, ElementOfSeq
<1>4. ~(i[1] >= Half)
  <2> DEFINE x == i[1]
  <2>1. x \in 0..255 /\ x < Half /\ Half = 128
    BY <1>3, CodeOctets
  <2> HIDE DEF x
  <2>2. ~(x >= Half)
    BY <2>1
  <2> QED BY <2>2 DEF x
<1> QED BY <1>4 DEF DerInteger

\* In an OCSP request that any length octets can tell the length of, every
\* part of it has a length they can tell.
LEMMA PartsAreEncodable ==
  ASSUME NEW m \in Seq(Octet), NEW k \in Seq(Octet), NEW i \in Seq(Octet),
         i # <<>>, i[1] < Half, Encodable(Len(BuildRequest(m, k, i)))
  PROVE  LET c == CertId(m, k, i) IN
         /\ Encodable(Len(m)) /\ Encodable(Len(k)) /\ Encodable(Len(i))
         /\ Encodable(Len(c)) /\ Encodable(Len(Sequence(c)))
         /\ Encodable(Len(Sequence(Sequence(c)))) /\ Encodable(Len(Sequence(Sequence(Sequence(c)))))
         /\ Encodable(Len(Sequence(Sequence(Sequence(Sequence(c))))))
<1> DEFINE M == Tlv(OctetStringTag, m)
           K == Tlv(OctetStringTag, k)
           I == Tlv(IntegerTag, i)
           c == CertId(m, k, i)
<1>1. Octet \subseteq Nat /\ SequenceTag \in Nat /\ OctetStringTag \in Nat /\ IntegerTag \in Nat
  BY CodeOctets
<1>2. m \in Seq(Nat) /\ k \in Seq(Nat) /\ i \in Seq(Nat) /\ AlgIdSha1 \in Seq(Nat)
  BY <1>1, CodeOctets, SeqMonotonic
<1>3. c = AlgIdSha1 \o M \o K \o I
  <2>1. DerInteger(i) = Tlv(IntegerTag, i)
    BY PlainInteger
  <2> QED BY <2>1 DEF CertId
<1>4. /\ M \in Seq(Nat) /\ Len(m) \in 0..Len(M) /\ Len(M) \in Nat
      /\ K \in Seq(Nat) /\ Len(k) \in 0..Len(K) /\ Len(K) \in Nat
      /\ I \in Seq(Nat) /\ Len(i) \in 0..Len(I) /\ Len(I) \in Nat
  BY <1>1, <1>2, TlvIsLonger
<1> HIDE DEF M, K, I, c
<1>5. /\ c \in Seq(Nat) /\ Len(c) \in Nat
      /\ Len(M) \in 0..Len(c) /\ Len(K) \in 0..Len(c) /\ Len(I) \in 0..Len(c)
  BY <1>2, <1>3, <1>4, FourLengths
<1> DEFINE c1 == Sequence(c)
           c2 == Sequence(c1)
           c3 == Sequence(c2)
           c4 == Sequence(c3)
           c5 == Sequence(c4)
<1>6. \A d \in Seq(Nat) : /\ Sequence(d) \in Seq(Nat) /\ Len(Sequence(d)) \in Nat
                          /\ Len(d) \in 0..Len(Sequence(d))
  BY <1>1, TlvIsLonger DEF Sequence
<1>7. /\ c1 \in Seq(Nat) /\ Len(c1) \in Nat /\ Len(c) \in 0..Len(c1)
      /\ c2 \in Seq(Nat) /\ Len(c2) \in Nat /\ Len(c1) \in 0..Len(c2)
      /\ c3 \in Seq(Nat) /\ Len(c3) \in Nat /\ Len(c2) \in 0..Len(c3)
      /\ c4 \in Seq(Nat) /\ Len(c4) \in Nat /\ Len(c3) \in 0..Len(c4)
      /\ c5 \in Seq(Nat) /\ Len(c5) \in Nat /\ Len(c4) \in 0..Len(c5)
  <2>1. c1 \in Seq(Nat) /\ Len(c1) \in Nat /\ Len(c) \in 0..Len(c1)
    BY <1>5, <1>6
  <2> HIDE DEF c1
  <2>2. c2 \in Seq(Nat) /\ Len(c2) \in Nat /\ Len(c1) \in 0..Len(c2)
    BY <1>6, <2>1
  <2> HIDE DEF c2
  <2>3. c3 \in Seq(Nat) /\ Len(c3) \in Nat /\ Len(c2) \in 0..Len(c3)
    BY <1>6, <2>2
  <2> HIDE DEF c3
  <2>4. c4 \in Seq(Nat) /\ Len(c4) \in Nat /\ Len(c3) \in 0..Len(c4)
    BY <1>6, <2>3
  <2> HIDE DEF c4
  <2>5. c5 \in Seq(Nat) /\ Len(c5) \in Nat /\ Len(c4) \in 0..Len(c5)
    BY <1>6, <2>4
  <2> QED BY <2>1, <2>2, <2>3, <2>4, <2>5
<1>8. Encodable(Len(c5))
  BY DEF BuildRequest, c
<1> HIDE DEF c1, c2, c3, c4, c5
<1>9. Encodable(Len(c4))
  BY <1>7, <1>8, ShorterIsEncodable
<1>10. Encodable(Len(c3))
  BY <1>7, <1>9, ShorterIsEncodable
<1>11. Encodable(Len(c2))
  BY <1>7, <1>10, ShorterIsEncodable
<1>12. Encodable(Len(c1))
  BY <1>7, <1>11, ShorterIsEncodable
<1>13. Encodable(Len(c))
  BY <1>5, <1>7, <1>12, ShorterIsEncodable
<1>14. Encodable(Len(M)) /\ Encodable(Len(K)) /\ Encodable(Len(I))
  BY <1>4, <1>5, <1>13, ShorterIsEncodable
<1>15. Encodable(Len(m)) /\ Encodable(Len(k)) /\ Encodable(Len(i))
  BY <1>4, <1>14, ShorterIsEncodable
<1> QED BY <1>9, <1>10, <1>11, <1>12, <1>13, <1>15 DEF c1, c2, c3, c4, c

\* The CertID's fourth part is the serial number, unchanged.
LEMMA CertIdParts ==
  ASSUME NEW m \in Seq(Octet), NEW k \in Seq(Octet), NEW i \in Seq(Octet),
         i # <<>>, i[1] < Half,
         Encodable(Len(m)), Encodable(Len(k)), Encodable(Len(i))
  PROVE  /\ CertId(m, k, i) \in Seq(Octet)
         /\ Child(CertId(m, k, i), 4) = Some([tag |-> IntegerTag, content |-> i])
<1> DEFINE sha1 == <<6, 5, 43, 14, 3, 2, 26, 5, 0>>
           a == [tag |-> SequenceTag, content |-> sha1]
           b == [tag |-> OctetStringTag, content |-> m]
           c == [tag |-> OctetStringTag, content |-> k]
           d == [tag |-> IntegerTag, content |-> i]
           E(e) == Tlv(e.tag, e.content)
<1>1. sha1 \in Seq(Octet) /\ Len(sha1) = 9
  BY CodeOctets
<1>2. Tlv(SequenceTag, sha1) = AlgIdSha1
  <2>1. EncodeLen(9) = <<9>>
    BY CodeOctets DEF EncodeLen
  <2>2. Tlv(SequenceTag, sha1) = <<48>> \o <<9>> \o sha1
    BY <1>1, <2>1 DEF Tlv, SequenceTag
  <2> QED BY <2>2 DEF AlgIdSha1
<1>3. Encodable(9)
  <2> DEFINE n == 9
             q == n \div Base
             r == n % Base
  <2>1. n \in Nat \ {0} /\ q = 0 /\ 0 \in Nat
    BY OcspAssumption
  <2> HIDE DEF n, r
  <2>2. BigEndian(0) = <<>> /\ BigEndian(n) = Append(BigEndian(0), r)
    BY <2>1, BigEndianUnfold DEF r
  <2>3. Len(BigEndian(n)) = 1
    BY <2>2
  <2>4. Encodable(n)
    BY <2>3, DerAssumption DEF Encodable
  <2> QED BY <2>4 DEF n
<1> HIDE DEF sha1
<1>4. CertId(m, k, i) = E(a) \o E(b) \o E(c) \o E(d)
  <2>1. DerInteger(i) = Tlv(IntegerTag, i)
    BY PlainInteger
  <2> QED BY <1>2, <2>1 DEF CertId
<1>5. /\ a \in Element /\ b \in Element /\ c \in Element /\ d \in Element
      /\ \A e \in {a, b, c, d} : Encodable(Len(e.content))
  <2>1. a \in Element /\ b \in Element /\ c \in Element /\ d \in Element
    BY <1>1, CodeOctets DEF Element
  <2>2. /\ Encodable(Len(a.content)) /\ Encodable(Len(b.content))
        /\ Encodable(Len(c.content)) /\ Encodable(Len(d.content))
    BY <1>1, <1>3
  <2> HIDE DEF a, b, c, d
  <2> QED BY <2>1, <2>2
<1> HIDE DEF a, b, c, d
<1>6. CertId(m, k, i) \in Seq(Octet) /\ Children(CertId(m, k, i)) = <<a, b, c, d>>
  BY <1>4, <1>5, FourChildren
<1>7. Child(CertId(m, k, i), 4) = Some(d)
  BY <1>6 DEF Child, Nth
<1> QED BY <1>6, <1>7 DEF d

\* The way down an OCSP request: five SEQUENCEs, then the fourth part.
LEMMA RequestCarriesSerial ==
  ASSUME NEW m \in Seq(Octet), NEW k \in Seq(Octet), NEW i \in Seq(Octet),
         i # <<>>, i[1] < Half, Encodable(Len(BuildRequest(m, k, i)))
  PROVE  Descend(BuildRequest(m, k, i), <<1, 1, 1, 1, 1, 4>>)
           = Some([tag |-> IntegerTag, content |-> i])
<1> DEFINE c == CertId(m, k, i)
           c1 == Sequence(c)
           c2 == Sequence(c1)
           c3 == Sequence(c2)
           c4 == Sequence(c3)
           c5 == Sequence(c4)
           path == <<1, 1, 1, 1, 1, 4>>
           Tagged(x) == [tag |-> SequenceTag, content |-> x]
<1>1. BuildRequest(m, k, i) = c5
  BY DEF BuildRequest
<1>2. /\ Encodable(Len(m)) /\ Encodable(Len(k)) /\ Encodable(Len(i))
      /\ Encodable(Len(c)) /\ Encodable(Len(c1)) /\ Encodable(Len(c2)) /\ Encodable(Len(c3))
      /\ Encodable(Len(c4))
  BY PartsAreEncodable
<1>3. c \in Seq(Octet) /\ Child(c, 4) = Some([tag |-> IntegerTag, content |-> i])
  BY <1>2, CertIdParts
<1>4. \A x \in Seq(Octet) : Encodable(Len(x)) =>
        Sequence(x) \in Seq(Octet) /\ Child(Sequence(x), 1) = Some(Tagged(x))
  BY CodeOctets, OnlyChild DEF Sequence
<1> HIDE DEF c, Tagged
<1>5. c1 \in Seq(Octet) /\ Child(c1, 1) = Some(Tagged(c))
  BY <1>2, <1>3, <1>4
<1> HIDE DEF c1
<1>6. c2 \in Seq(Octet) /\ Child(c2, 1) = Some(Tagged(c1))
  BY <1>2, <1>4, <1>5
<1> HIDE DEF c2
<1>7. c3 \in Seq(Octet) /\ Child(c3, 1) = Some(Tagged(c2))
  BY <1>2, <1>4, <1>6
<1> HIDE DEF c3
<1>8. c4 \in Seq(Octet) /\ Child(c4, 1) = Some(Tagged(c3))
  BY <1>2, <1>4, <1>7
<1> HIDE DEF c4
<1>9. c5 \in Seq(Octet) /\ Child(c5, 1) = Some(Tagged(c4))
  BY <1>2, <1>4, <1>8
<1> HIDE DEF c5
<1>10. path \in Seq(Nat \ {0}) /\ Len(path) = 6
       /\ path[1] = 1 /\ path[2] = 1 /\ path[3] = 1 /\ path[4] = 1 /\ path[5] = 1 /\ path[6] = 4
  OBVIOUS
<1> HIDE DEF path
<1>11. PICK at \in [0..Len(path) -> MayBe] :
         /\ at[0] = Some([tag |-> 0, content |-> c5])
         /\ \A j \in 1..Len(path) : at[j] = IF at[j - 1] = None THEN None
                                           ELSE Child(at[j - 1][1].content, path[j])
         /\ Descend(c5, path) = at[Len(path)]
  BY <1>9, <1>10, DescendRecursion
<1>12. ASSUME NEW j \in 1..6, NEW e, at[j - 1] = Some(e)
       PROVE  at[j] = Child(e.content, path[j])
  <2>1. at[j - 1] # None /\ at[j - 1][1] = e
    BY <1>12, SomeIsNotNone
  <2> QED BY <1>10, <1>11, <2>1
<1>13. ASSUME NEW j \in 1..6, NEW x, at[j - 1] = Some(Tagged(x))
       PROVE  at[j] = Child(x, path[j])
  <2>1. Tagged(x).content = x
    BY DEF Tagged
  <2> QED BY <1>12, <1>13, <2>1
<1>14. at[1] = Some(Tagged(c4))
  <2>1. 1 \in 1..6 /\ at[1 - 1] = Some([tag |-> 0, content |-> c5])
    BY <1>11
  <2> QED BY <1>9, <1>10, <1>12, <2>1
<1>15. at[2] = Some(Tagged(c3))
  <2>1. 2 \in 1..6 /\ at[2 - 1] = Some(Tagged(c4))
    BY <1>14
  <2> QED BY <1>8, <1>10, <1>13, <2>1
<1>16. at[3] = Some(Tagged(c2))
  <2>1. 3 \in 1..6 /\ at[3 - 1] = Some(Tagged(c3))
    BY <1>15
  <2> QED BY <1>7, <1>10, <1>13, <2>1
<1>17. at[4] = Some(Tagged(c1))
  <2>1. 4 \in 1..6 /\ at[4 - 1] = Some(Tagged(c2))
    BY <1>16
  <2> QED BY <1>6, <1>10, <1>13, <2>1
<1>18. at[5] = Some(Tagged(c))
  <2>1. 5 \in 1..6 /\ at[5 - 1] = Some(Tagged(c1))
    BY <1>17
  <2> QED BY <1>5, <1>10, <1>13, <2>1
<1>19. at[6] = Some([tag |-> IntegerTag, content |-> i])
  <2>1. 6 \in 1..6 /\ at[6 - 1] = Some(Tagged(c))
    BY <1>18
  <2> QED BY <1>3, <1>10, <1>13, <2>1
<1> QED BY <1>1, <1>10, <1>11, <1>19 DEF path

\* How the least and the greatest of a set are found.
LEMMA MinIs ==
  ASSUME NEW S, S \subseteq Int, NEW x \in S, \A y \in S : x <= y
  PROVE  Min(S) = x
<1>1. Min(S) \in S /\ \A y \in S : Min(S) <= y
  BY DEF Min
<1>2. Min(S) <= x /\ x <= Min(S) /\ Min(S) \in Int /\ x \in Int
  BY <1>1
<1> QED BY <1>2

LEMMA MaxIs ==
  ASSUME NEW S, S \subseteq Int, NEW x \in S, \A y \in S : x >= y
  PROVE  Max(S) = x
<1>1. Max(S) \in S /\ \A y \in S : Max(S) >= y
  BY DEF Max
<1>2. Max(S) >= x /\ x >= Max(S) /\ Max(S) \in Int /\ x \in Int
  BY <1>1
<1> QED BY <1>2

\* The port numbers.
LEMMA PortNames == DOMAIN Ports = {"80", "443", "8080"}
BY DEF Ports

\* An authority is its host and its port.
LEMMA AuthorityIsRead ==
  ASSUME NEW T, ":" \in T, DOMAIN Ports \subseteq T,
         NEW scheme, NEW h \in Seq(T), \A i \in 1..Len(h) : h[i] # ":",
         NEW port \in {<<>>} \cup {<<":", p>> : p \in DOMAIN Ports}, NEW path
  PROVE  Url(scheme, h \o port, path)
           = [scheme |-> scheme, host |-> h,
              port |-> IF port = <<>> THEN Schemes[scheme] ELSE Ports[port[2]], path |-> path]
<1> DEFINE s == h \o port
           colons == {i \in DOMAIN s : s[i] = ":"}
           named == IF colons = {} THEN <<>> ELSE SubSeq(s, Max(colons) + 1, Len(s))
<1>1. Len(h) \in Nat
  BY LenProperties
<1>2. CASE port = <<>>
  <2>1. s = h
    BY <1>2, ConcatEmptySeq
  <2>2. colons = {}
    <3>1. DOMAIN h = 1..Len(h)
      BY LenProperties
    <3> QED BY <2>1, <3>1
  <2>3. named = <<>> /\ Len(named) = 0
    BY <2>2
  <2> HIDE DEF named, s, colons
  <2> QED BY <1>2, <2>1, <2>2, <2>3 DEF Url, named, s, colons
<1>3. CASE port # <<>>
  <2>1. PICK p \in DOMAIN Ports : port = <<":", p>>
    BY <1>3
  <2>2. p \in T /\ p # ":" /\ port \in Seq(T) /\ Len(port) = 2 /\ port[1] = ":" /\ port[2] = p
    <3>1. p \in T /\ p # ":"
      BY PortNames
    <3> DEFINE t == <<":", p>>
    <3>3. t \in Seq(T) /\ Len(t) = 2 /\ t[1] = ":" /\ t[2] = p
      BY <3>1
    <3>4. port = t
      BY <2>1
    <3> HIDE DEF t
    <3> QED BY <3>1, <3>3, <3>4
  <2> HIDE DEF s
  <2>3. /\ s \in Seq(T) /\ Len(s) = Len(h) + 2
        /\ \A i \in 1..(Len(h) + 2) : s[i] = IF i <= Len(h) THEN h[i] ELSE port[i - Len(h)]
    <3> DEFINE t == h \o port
    <3>1. port \in Seq(T)
      BY <2>2
    <3>2. /\ t \in Seq(T) /\ Len(t) = Len(h) + Len(port)
          /\ \A i \in 1..(Len(h) + Len(port)) : t[i] = IF i <= Len(h) THEN h[i] ELSE port[i - Len(h)]
      BY <3>1, ConcatProperties
    <3> HIDE DEF t
    <3>3. Len(port) = 2
      BY <2>2
    <3>4. s = t
      BY DEF s, t
    <3> QED BY <3>2, <3>3, <3>4
  <2>4. /\ DOMAIN s = 1..(Len(h) + 2) /\ s[Len(h) + 1] = ":" /\ s[Len(h) + 2] = p
        /\ \A i \in 1..Len(h) : s[i] # ":"
    <3>1. DOMAIN s = 1..(Len(h) + 2)
      BY <2>3, LenProperties
    <3>2. s[Len(h) + 1] = port[Len(h) + 1 - Len(h)] /\ s[Len(h) + 2] = port[Len(h) + 2 - Len(h)]
      BY <1>1, <2>3
    <3>3. \A i \in 1..Len(h) : s[i] = h[i]
      BY <1>1, <2>3
    <3>4. Len(h) + 1 - Len(h) = 1 /\ Len(h) + 2 - Len(h) = 2
      BY <1>1
    <3> QED BY <2>2, <3>1, <3>2, <3>3, <3>4
  <2>5. colons = {Len(h) + 1}
    <3>1. \A i \in 1..(Len(h) + 2) : i \in 1..Len(h) \/ i = Len(h) + 1 \/ i = Len(h) + 2
      BY <1>1
    <3>2. Len(h) + 1 \in 1..(Len(h) + 2)
      BY <1>1
    <3> QED BY <2>2, <2>4, <3>1, <3>2
  <2>6. Max(colons) = Len(h) + 1
    <3> DEFINE x == Len(h) + 1
    <3>1. x \in Int /\ x \in {x} /\ {x} \subseteq Int /\ \A y \in {x} : x >= y
      BY <1>1
    <3>2. colons = {x}
      BY <2>5
    <3> HIDE DEF x, colons
    <3>3. Max({x}) = x
      BY <3>1, MaxIs
    <3> QED BY <3>2, <3>3 DEF x
  <2>7. named = <<p>>
    <3> DEFINE m == Len(h) + 2
    <3>1. m \in Int /\ \A i \in m..m : s[i] \in T
      BY <1>1, <2>2, <2>4
    <3>2. named = SubSeq(s, m, m)
      <4>1. colons # {}
        BY <2>5
      <4>2. named = SubSeq(s, Max(colons) + 1, Len(s))
        BY <4>1
      <4>3. Max(colons) + 1 = m /\ Len(s) = m
        <5> HIDE DEF colons
        <5> QED BY <1>1, <2>3, <2>6
      <4> HIDE DEF named, colons
      <4> QED BY <4>2, <4>3
    <3>3. s[m] = p
      BY <2>4
    <3> HIDE DEF m
    <3>4. SubSeq(s, m, m) \in Seq(T) /\ Len(SubSeq(s, m, m)) = 1 /\ SubSeq(s, m, m)[1] = s[m]
      <4>1. /\ SubSeq(s, m, m) \in Seq(T)
            /\ Len(SubSeq(s, m, m)) = IF m <= m THEN m - m + 1 ELSE 0
            /\ \A i \in 1..(m - m + 1) : SubSeq(s, m, m)[i] = s[m + i - 1]
        BY <3>1, SubSeqProperties
      <4>2. m <= m /\ m - m + 1 = 1 /\ 1 \in 1..1 /\ m + 1 - 1 = m
        BY <3>1
      <4> QED BY <4>1, <4>2
    <3> HIDE DEF named
    <3> DEFINE t == <<p>>
    <3>5. t \in Seq(T) /\ Len(t) = 1 /\ t[1] = p
      BY <2>2
    <3>6. \A i \in 1..1 : named[i] = t[i]
      BY <3>2, <3>3, <3>4, <3>5
    <3> HIDE DEF t
    <3>7. named = t
      BY <3>2, <3>4, <3>5, <3>6, SeqEqual
    <3> QED BY <3>7 DEF t
  <2>8. SubSeq(s, 1, (Len(h) + 1) - 1) = h
    <3>1. (Len(h) + 1) - 1 = Len(h)
      BY <1>1
    <3>2. SubSeq(s, 1, Len(h)) = h
      BY <2>2, PartsOfConcat DEF s
    <3> QED BY <3>1, <3>2
  <2>9. Len(named) = 1 /\ named[1] = p /\ p \in DOMAIN Ports /\ colons # {}
    <3>1. colons # {}
      BY <2>5
    <3> HIDE DEF named, colons
    <3> QED BY <2>7, <3>1
  <2> DEFINE last == Max(colons)
  <2>10. Url(scheme, s, path)
           = [scheme |-> scheme,
              host |-> IF colons = {} THEN s ELSE SubSeq(s, 1, last - 1),
              port |-> IF Len(named) = 1 /\ named[1] \in DOMAIN Ports THEN Ports[named[1]]
                       ELSE Schemes[scheme],
              path |-> path]
    BY DEF Url
  <2> HIDE DEF named, colons, last, s
  <2>11. last = Len(h) + 1
    BY <2>6 DEF last
  <2>12. Url(scheme, s, path) = [scheme |-> scheme, host |-> h, port |-> Ports[p], path |-> path]
    BY <2>8, <2>9, <2>10, <2>11
  <2> QED BY <1>3, <2>2, <2>12 DEF s
<1> QED BY <1>2, <1>3

\* A URL is read as the address that was written out.
LEMMA UrlIsRead ==
  ASSUME NEW url, NEW a, Names(url, a)
  PROVE  ParseUrl(url) = Some(a)
<1> DEFINE T == STRING \cup {":", "/"} \cup DOMAIN Ports \cup DOMAIN Schemes
           h == a.host
<1>1. /\ a.scheme \in DOMAIN Schemes /\ h \in Seq(STRING) /\ a.path \in Seq(STRING)
      /\ a = [scheme |-> a.scheme, host |-> h, port |-> a.port, path |-> a.path]
  <2> HIDE DEF Schemes
  <2> QED BY DEF Names, Addresses
<1>2. h \in Seq(T) /\ a.path \in Seq(T)
  <2>1. STRING \subseteq T
    OBVIOUS
  <2> HIDE DEF T, h
  <2> QED BY <1>1, <2>1, SeqMonotonic
<1>3. \A i \in 1..Len(h) : h[i] # ":" /\ h[i] # "/"
  <2>1. DOMAIN h = 1..Len(h)
    BY <1>1, LenProperties
  <2> QED BY <2>1 DEF Names
<1>4. PICK port \in {<<>>} \cup {<<":", p>> : p \in DOMAIN Ports}, path \in {<<>>, a.path} :
        /\ url = <<a.scheme>> \o h \o port \o path
        /\ a.port = IF port = <<>> THEN Schemes[a.scheme] ELSE Ports[port[2]]
        /\ IF path = <<>> THEN a.path = <<"/">> ELSE path[1] = "/"
  BY DEF Names
<1>5. /\ port \in Seq(T) /\ Len(port) \in {0, 2}
      /\ \A i \in 1..Len(port) : port[i] # "/"
  <2>1. CASE port = <<>>
    BY <2>1
  <2>2. CASE port # <<>>
    <3>1. PICK p \in DOMAIN Ports : port = <<":", p>>
      BY <2>2
    <3>2. p # "/" /\ p \in T /\ ":" \in T
      BY PortNames
    <3> HIDE DEF T
    <3>3. port \in Seq(T) /\ Len(port) = 2 /\ port[1] = ":" /\ port[2] = p
      BY <3>1, <3>2
    <3>4. \A i \in 1..2 : i = 1 \/ i = 2
      OBVIOUS
    <3> QED BY <3>2, <3>3, <3>4
  <2> QED BY <2>1, <2>2
<1>6. path \in Seq(T)
  <2> HIDE DEF T
  <2> QED BY <1>2, EmptySeq
<1>7. ":" \in T /\ DOMAIN Ports \subseteq T /\ a.scheme \in T
  <2> HIDE DEF Ports, Schemes
  <2> QED BY <1>1
<1> DEFINE auth == h \o port
           rest == auth \o path
           n == Len(auth)
           slashes == {i \in DOMAIN rest : rest[i] = "/"}
           cut == IF slashes = {} THEN Len(rest) + 1 ELSE Min(slashes)
<1> HIDE DEF T, h
<1>8. /\ auth \in Seq(T) /\ n \in Nat
      /\ \A i \in 1..n : auth[i] # "/"
  <2> DEFINE b == h \o port
  <2>1. /\ b \in Seq(T) /\ Len(b) = Len(h) + Len(port)
        /\ \A i \in 1..(Len(h) + Len(port)) : b[i] = IF i <= Len(h) THEN h[i] ELSE port[i - Len(h)]
    BY <1>2, <1>5, ConcatProperties
  <2>2. Len(h) \in Nat /\ Len(port) \in Nat
    BY <1>2, <1>5, LenProperties
  <2> HIDE DEF b
  <2>3. ASSUME NEW i \in 1..Len(b) PROVE b[i] # "/"
    <3>1. CASE i <= Len(h)
      <4>1. i \in 1..Len(h)
        BY <2>1, <2>2, <3>1
      <4>2. b[i] = h[i]
        BY <2>1, <3>1
      <4> QED BY <1>3, <4>1, <4>2
    <3>2. CASE ~(i <= Len(h))
      <4>1. i - Len(h) \in 1..Len(port)
        BY <2>1, <2>2, <3>2
      <4>2. b[i] = port[i - Len(h)]
        BY <2>1, <3>2
      <4> QED BY <1>5, <4>1, <4>2
    <3> QED BY <3>1, <3>2
  <2>4. Len(b) \in Nat
    BY <2>1, LenProperties
  <2> QED BY <2>1, <2>3, <2>4 DEF b
<1>9. url = <<a.scheme>> \o rest
  <2> DEFINE z == <<a.scheme>>
  <2>1. z \in Seq(T) /\ url = ((z \o h) \o port) \o path
    BY <1>4, <1>7
  <2> HIDE DEF z
  <2>2. (z \o h) \o port = z \o (h \o port)
    BY <1>2, <1>5, <2>1, ConcatAssociative
  <2>3. (z \o auth) \o path = z \o (auth \o path)
    <3>1. z \in Seq(T) /\ auth \in Seq(T) /\ path \in Seq(T)
      BY <1>6, <1>8, <2>1
    <3> HIDE DEF auth
    <3> QED BY <3>1, ConcatAssociative
  <2> QED BY <2>1, <2>2, <2>3 DEF z
<1> HIDE DEF auth
<1>10. /\ rest \in Seq(T) /\ Len(rest) = n + Len(path) /\ Len(path) \in Nat
       /\ SubSeq(rest, 1, n) = auth /\ SubSeq(rest, n + 1, Len(rest)) = path
       /\ DOMAIN rest = 1..Len(rest)
       /\ \A i \in 1..(n + Len(path)) : rest[i] = IF i <= n THEN auth[i] ELSE path[i - n]
  BY <1>6, <1>8, PartsOfConcat, ConcatProperties, LenProperties
<1> HIDE DEF rest
<1>11. url # <<>> /\ url[1] = a.scheme /\ Tail(url) = rest
  <2> DEFINE x == a.scheme
             z == <<x>>
             u == z \o rest
  <2>0. x \in T /\ rest \in Seq(T)
    BY <1>7, <1>10
  <2> HIDE DEF x
  <2>1. z \in Seq(T) /\ Len(z) = 1
    BY <2>0
  <2>2. /\ u \in Seq(T) /\ Len(u) = Len(rest) + 1 /\ Len(rest) \in Nat /\ u[1] = x
    BY <2>0, PushFront
  <2> HIDE DEF z
  <2>3. SubSeq(u, Len(z) + 1, Len(u)) = rest
    <3>1. z \in Seq(T)
      BY <2>1
    <3> QED BY <2>0, <3>1, PartsOfConcat
  <2> HIDE DEF u
  <2>4. u # <<>>
    BY <2>2
  <2>5. Tail(u) = SubSeq(u, 2, Len(u))
    BY <2>2, <2>4, TailIsSubSeq
  <2>6. Len(z) + 1 = 2
    BY <2>1
  <2>7. url = u
    BY <1>9 DEF u, z, x
  <2> QED BY <2>2, <2>3, <2>4, <2>5, <2>6, <2>7 DEF x
<1>12. ParseUrl(url) = Some(Url(a.scheme, SubSeq(rest, 1, cut - 1),
                                IF slashes = {} THEN <<"/">> ELSE SubSeq(rest, cut, Len(rest))))
  <2> HIDE DEF Schemes, Url
  <2> QED BY <1>1, <1>11 DEF ParseUrl
<1>13. Url(a.scheme, auth, a.path) = a
  <2> DEFINE q == IF port = <<>> THEN Schemes[a.scheme] ELSE Ports[port[2]]
  <2>1. Url(a.scheme, auth, a.path) = [scheme |-> a.scheme, host |-> h, port |-> q, path |-> a.path]
    BY <1>2, <1>3, <1>7, AuthorityIsRead DEF auth
  <2> QED BY <1>1, <1>4, <2>1
<1>14. CASE path = <<>>
  <2>1. Len(path) = 0
    BY <1>14
  <2>2. slashes = {}
    <3>1. \A i \in 1..n : rest[i] = auth[i]
      BY <1>8, <1>10, <2>1
    <3>2. DOMAIN rest = 1..n
      BY <1>8, <1>10, <2>1
    <3> QED BY <1>8, <3>1, <3>2
  <2>3. cut - 1 = n
    <3> HIDE DEF slashes
    <3> QED BY <1>8, <1>10, <2>1, <2>2
  <2>4. a.path = <<"/">>
    BY <1>4, <1>14
  <2> HIDE DEF slashes, cut
  <2> QED BY <1>10, <1>12, <1>13, <2>2, <2>3, <2>4
<1>15. CASE path # <<>>
  <2>1. a.path = path /\ path[1] = "/" /\ Len(path) \in Nat \ {0}
    BY <1>4, <1>6, <1>15, EmptySeq
  <2>2. rest[n + 1] = path[1] /\ n + 1 \in DOMAIN rest
    <3>1. n + 1 \in 1..(n + Len(path)) /\ ~(n + 1 <= n) /\ n + 1 - n = 1
      BY <1>8, <2>1
    <3> QED BY <1>10, <3>1
  <2>3. n + 1 \in slashes /\ slashes \subseteq Int /\ \A i \in slashes : n + 1 <= i
    <3>1. n + 1 \in slashes
      BY <2>1, <2>2
    <3>2. ASSUME NEW i \in slashes PROVE n + 1 <= i
      <4>1. i \in 1..(n + Len(path)) /\ rest[i] = "/"
        BY <1>10
      <4>2. ~(i <= n)
        <5>1. ASSUME i <= n PROVE FALSE
          <6>1. i \in 1..n /\ rest[i] = auth[i]
            BY <1>8, <1>10, <4>1, <5>1
          <6> QED BY <1>8, <4>1, <6>1
        <5> QED BY <5>1
      <4> QED BY <1>8, <4>1, <4>2
    <3> QED BY <1>10, <3>1, <3>2
  <2> HIDE DEF slashes
  <2>4. cut = n + 1 /\ slashes # {}
    <3>1. Min(slashes) = n + 1
      BY <1>8, <2>3, MinIs
    <3> QED BY <2>3, <3>1
  <2>5. cut - 1 = n
    BY <1>8, <2>4
  <2> HIDE DEF cut
  <2> QED BY <1>10, <1>12, <1>13, <2>1, <2>4, <2>5
<1> QED BY <1>14, <1>15

\* Whoever is asked about whatever leaf: the request goes to where the URL
\* points, and the responder reads the leaf's serial number out of it
\* (ocsp.rs:90-114, 174-194, der.rs:50-64).
THEOREM Request == Spec => []RequestNamesTheLeaf
<1>1. ASSUME TypeOK PROVE RequestNamesTheLeaf
  <2> SUFFICES ASSUME peer.user = "ocsp"
               PROVE  /\ ParseUrl(peer.url) = Some(peer.address)
                      /\ Descend(BuildRequest(peer.serial, peer.serial, peer.serial), <<1, 1, 1, 1, 1, 4>>)
                           = Some([tag |-> IntegerTag, content |-> peer.serial])
    BY DEF RequestNamesTheLeaf
  <2> DEFINE i == peer.serial
  <2>1. /\ Names(peer.url, peer.address)
        /\ i \in Seq(Octet) /\ i # <<>> /\ i[1] < Half /\ Encodable(Len(BuildRequest(i, i, i)))
    BY <1>1, OcspPeersAssumption DEF TypeOK
  <2> HIDE DEF i
  <2>2. Descend(BuildRequest(i, i, i), <<1, 1, 1, 1, 1, 4>>) = Some([tag |-> IntegerTag, content |-> i])
    BY <2>1, RequestCarriesSerial
  <2>3. ParseUrl(peer.url) = Some(peer.address)
    BY <2>1, UrlIsRead
  <2> QED BY <2>2, <2>3 DEF i
<1> QED BY <1>1, Typing, PTL

-----------------------------------------------------------------------------
\* A set of numbers that is not empty has a least, and if it is bounded a
\* greatest.
LEMMA MinExists ==
  ASSUME NEW S, S \subseteq Nat, S # {}
  PROVE  Min(S) \in S /\ \A y \in S : Min(S) <= y
<1>1. \E x \in S : \A y \in S : x <= y
  BY LeastNumber
<1> QED BY <1>1 DEF Min

LEMMA MaxExists ==
  ASSUME NEW n \in Nat, NEW S, S \subseteq 0..n, S # {}
  PROVE  Max(S) \in S /\ \A y \in S : Max(S) >= y
<1> DEFINE T == {n - y : y \in S}
<1>1. T \subseteq Nat /\ T # {}
  OBVIOUS
<1>2. PICK t \in T : \A u \in T : t <= u
  <2> HIDE DEF T
  <2> QED BY <1>1, LeastNumber
<1>3. PICK x \in S : t = n - x
  OBVIOUS
<1>4. ASSUME NEW y \in S PROVE x >= y
  <2>1. n - y \in T /\ x \in Nat /\ y \in Nat
    OBVIOUS
  <2>2. n - x <= n - y
    BY <1>2, <1>3, <2>1
  <2> QED BY <2>1, <2>2
<1>5. \E z \in S : \A y \in S : z >= y
  BY <1>4
<1> QED BY <1>5 DEF Max

\* What trimming leaves begins and ends with something else than space.
LEMMA TrimIs ==
  ASSUME NEW s \in Seq(Octet), NEW space
  PROVE  /\ Trim(s, space) \in Seq(Octet)
         /\ Trim(s, space) # <<>> =>
              \E a \in 1..Len(s), b \in 1..Len(s) :
                /\ a <= b /\ s[a] \notin space /\ s[b] \notin space
                /\ \A i \in 1..Len(s) : s[i] \notin space => a <= i /\ i <= b
                /\ Trim(s, space) = SubSeq(s, a, b)
         /\ Trim(s, space) = <<>> => \A i \in 1..Len(s) : s[i] \in space
<1> DEFINE inked == {i \in DOMAIN s : s[i] \notin space}
<1>1. Len(s) \in Nat /\ DOMAIN s = 1..Len(s)
  BY LenProperties
<1>2. inked \subseteq 0..Len(s) /\ inked \subseteq Nat
  BY <1>1
<1>3. \A i : i \in inked <=> i \in 1..Len(s) /\ s[i] \notin space
  BY <1>1
<1>4. Trim(s, space) = IF inked = {} THEN <<>> ELSE SubSeq(s, Min(inked), Max(inked))
  BY DEF Trim
<1> HIDE DEF inked
<1>5. CASE inked = {}
  BY <1>3, <1>4, <1>5, EmptySeq
<1>6. CASE inked # {}
  <2> DEFINE a == Min(inked)
             b == Max(inked)
  <2>1. /\ a \in inked /\ b \in inked /\ \A i \in inked : a <= i /\ i <= b
    <3>1. a \in inked /\ \A i \in inked : a <= i
      BY <1>2, <1>6, MinExists
    <3>2. b \in inked /\ \A i \in inked : b >= i
      BY <1>1, <1>2, <1>6, MaxExists
    <3>3. \A i \in inked : i \in Nat
      BY <1>2
    <3> HIDE DEF a, b
    <3> QED BY <3>1, <3>2, <3>3
  <2>2. Trim(s, space) = SubSeq(s, a, b)
    BY <1>4, <1>6
  <2> HIDE DEF a, b
  <2>3. a \in 1..Len(s) /\ b \in 1..Len(s) /\ s[a] \notin space /\ s[b] \notin space /\ a <= b
    BY <1>3, <2>1
  <2>4. SubSeq(s, a, b) \in Seq(Octet) /\ SubSeq(s, a, b) # <<>>
    <3>1. \A i \in a..b : s[i] \in Octet
      BY <1>1, <2>3, ElementOfSeq
    <3>2. a \in Int /\ b \in Int /\ b - a + 1 # 0
      BY <1>1, <2>3
    <3>3. SubSeq(s, a, b) \in Seq(Octet) /\ Len(SubSeq(s, a, b)) = b - a + 1
      BY <2>3, <3>1, <3>2, SubSeqProperties
    <3> QED BY <3>2, <3>3, EmptySeq
  <2>5. \A i \in 1..Len(s) : s[i] \notin space => a <= i /\ i <= b
    BY <1>3, <2>1
  <2> QED BY <2>2, <2>3, <2>4, <2>5
<1> QED BY <1>5, <1>6

\* A hexadecimal digit has a value.
LEMMA DigitType == \A o \in DOMAIN HexValue : HexValue[o] \in Nat
<1> SUFFICES ASSUME NEW o \in DOMAIN HexValue PROVE HexValue[o] \in Nat
  OBVIOUS
<1>1. o \in 48..57 \/ o \in 65..70 \/ o \in 97..102
  BY DEF HexValue
<1>2. HexValue[o] = IF o <= 57 THEN o - 48 ELSE IF o <= 70 THEN o - 55 ELSE o - 87
  BY DEF HexValue
<1> QED BY <1>1, <1>2

\* A number that is read is a number.
Number == {<<>>} \cup {<<n>> : n \in Nat}

\* What the digits of a hexadecimal number come to.
Summed(digits) ==
  LET upto[i \in 0..Len(digits)] ==
        IF i = 0 THEN 0 ELSE 16 * upto[i - 1] + HexValue[digits[i]]
  IN  upto[Len(digits)]

\* v adds up the digits from the first on.
AddsUp(v, digits) ==
  v[0] = 0 /\ \A i \in 1..Len(digits) : v[i] = 16 * v[i - 1] + HexValue[digits[i]]

LEMMA SummedIs ==
  ASSUME NEW digits \in Seq(Octet), \A i \in 1..Len(digits) : digits[i] \in DOMAIN HexValue
  PROVE  /\ Summed(digits) \in Nat
         /\ \A v \in [0..Len(digits) -> Nat] : AddsUp(v, digits) => v[Len(digits)] = Summed(digits)
<1> DEFINE n == Len(digits)
           Rhs(f, i) == IF i = 0 THEN 0 ELSE 16 * f[i - 1] + HexValue[digits[i]]
           upto == CHOOSE f : f = [i \in 0..n |-> Rhs(f, i)]
           step == [i \in 1..n |-> [v \in Nat |-> 16 * v + HexValue[digits[i]]]]
<1>1. Summed(digits) = upto[n]
  BY DEF Summed
<1>2. n \in Nat /\ \A i \in 1..n : HexValue[digits[i]] \in Nat
  BY LenProperties, DigitType
<1>3. step \in [1..n -> [Nat -> Nat]]
  <2> HIDE DEF n
  <2>1. \A i \in 1..n, v \in Nat : 16 * v + HexValue[digits[i]] \in Nat
    BY <1>2
  <2> QED BY <2>1
<1>4. \A i \in 1..n, v \in Nat : step[i][v] = 16 * v + HexValue[digits[i]]
  OBVIOUS
<1> HIDE DEF n, step
<1>5. PICK f \in [0..n -> Nat] : Iterates(f, n, 0, step) /\ IsOnlyIteration(f, Nat, n, 0, step)
  BY <1>2, <1>3, PrimitiveRecursion
<1>6. ASSUME NEW i \in 0..n PROVE f[i] = Rhs(f, i)
  <2>1. CASE i = 0
    BY <1>5, <2>1 DEF Iterates
  <2>2. CASE i # 0
    <3>1. i \in 1..n /\ f[i - 1] \in Nat
      BY <1>2, <2>2
    <3>2. f[i] = step[i][f[i - 1]]
      BY <1>5, <3>1 DEF Iterates
    <3> QED BY <1>4, <2>2, <3>1, <3>2
  <2> QED BY <2>1, <2>2
<1>7. upto = [i \in 0..n |-> Rhs(upto, i)]
  <2> HIDE DEF Rhs
  <2>1. f = [i \in 0..n |-> Rhs(f, i)]
    BY <1>6
  <2> QED BY <2>1
<1>8. \A i \in 0..n : upto[i] = Rhs(upto, i)
  <2> HIDE DEF upto, Rhs
  <2> QED BY <1>7
<1>9. upto[0] = 0 /\ \A i \in 1..n : upto[i - 1] \in Nat => upto[i] = step[i][upto[i - 1]]
  <2> HIDE DEF upto
  <2>1. upto[0] = 0
    BY <1>2, <1>8
  <2>2. ASSUME NEW i \in 1..n, upto[i - 1] \in Nat PROVE upto[i] = step[i][upto[i - 1]]
    <3>1. i \in 0..n /\ i # 0
      BY <1>2
    <3> QED BY <1>4, <1>8, <2>2, <3>1
  <2> QED BY <2>1, <2>2
<1> HIDE DEF upto
<1>10. n \in 0..n
  BY <1>2
<1>11. upto[n] = f[n] /\ f[n] \in Nat
  BY <1>5, <1>9, <1>10 DEF IsOnlyIteration
<1>12. ASSUME NEW v \in [0..n -> Nat], AddsUp(v, digits) PROVE v[n] = f[n]
  <2>1. v[0] = 0 /\ \A i \in 1..n : v[i] = 16 * v[i - 1] + HexValue[digits[i]]
    BY <1>12 DEF AddsUp, n
  <2>2. \A i \in 1..n : v[i - 1] \in Nat => v[i] = step[i][v[i - 1]]
    BY <1>4, <2>1
  <2> QED BY <1>5, <1>10, <2>1, <2>2 DEF IsOnlyIteration
<1> QED BY <1>1, <1>11, <1>12 DEF n

LEMMA HexNumberType ==
  ASSUME NEW s \in Seq(Octet)
  PROVE  HexNumber(s) \in Number
<1> DEFINE digits == IF s # <<>> /\ s[1] = Plus THEN Tail(s) ELSE s
           bad == digits = <<>> \/ \E i \in DOMAIN digits : digits[i] \notin DOMAIN HexValue
<1>1. HexNumber(s) = IF bad THEN <<>> ELSE <<Summed(digits)>>
  BY DEF HexNumber, Summed
<1>2. digits \in Seq(Octet)
  BY HeadTailProperties
<1> HIDE DEF digits
<1>3. DOMAIN digits = 1..Len(digits)
  BY <1>2, LenProperties
<1>4. CASE bad
  BY <1>1, <1>4 DEF Number
<1>5. CASE ~bad
  BY <1>1, <1>2, <1>3, <1>5, SummedIs DEF Number
<1> QED BY <1>4, <1>5

\* A part up to some octet.
LEMMA PrefixIs ==
  ASSUME NEW d \in Seq(Octet), NEW n \in 0..Len(d)
  PROVE  LET e == SubSeq(d, 1, n) IN
         /\ e \in Seq(Octet) /\ Len(e) = n /\ Len(d) \in Nat
         /\ \A j \in 1..n : e[j] = d[j]
<1> DEFINE e == SubSeq(d, 1, n)
<1>1. Len(d) \in Nat
  BY LenProperties
<1>2. \A j \in 1..n : d[j] \in Octet
  <2>1. \A j \in 1..n : j \in 1..Len(d)
    BY <1>1
  <2> QED BY <2>1, ElementOfSeq
<1>3. /\ e \in Seq(Octet) /\ Len(e) = (IF 1 <= n THEN n - 1 + 1 ELSE 0)
      /\ \A j \in 1..(n - 1 + 1) : e[j] = d[1 + j - 1]
  BY <1>1, <1>2, SubSeqProperties
<1> HIDE DEF e
<1>4. Len(e) = n /\ \A j \in 1..n : e[j] = d[j]
  BY <1>1, <1>3
<1> QED BY <1>1, <1>3, <1>4 DEF e

\* Of a part of the data an end of line that it has is where the whole has it.
LEMMA CrlfIs ==
  ASSUME NEW d \in Seq(Octet), NEW i \in 1..(Len(d) + 1), Crlf(d, i) # 0
  PROVE  /\ Crlf(d, i) \in i..(Len(d) - 1)
         /\ d[Crlf(d, i)] = CR /\ d[Crlf(d, i) + 1] = LF
         /\ \A j \in i..(Len(d) - 1) : d[j] = CR /\ d[j + 1] = LF => Crlf(d, i) <= j
<1> DEFINE at == {j \in i..(Len(d) - 1) : d[j] = CR /\ d[j + 1] = LF}
<1>1. Len(d) \in Nat
  BY LenProperties
<1>2. Crlf(d, i) = IF at = {} THEN 0 ELSE Min(at)
  BY DEF Crlf
<1>3. at # {} /\ at \subseteq Nat
  BY <1>1, <1>2
<1>4. Min(at) \in at /\ \A j \in at : Min(at) <= j
  <2> HIDE DEF at
  <2> QED BY <1>3, MinExists
<1>5. Crlf(d, i) = Min(at)
  <2> HIDE DEF at
  <2> QED BY <1>2, <1>3
<1>6. \A j : j \in at <=> j \in i..(Len(d) - 1) /\ d[j] = CR /\ d[j + 1] = LF
  OBVIOUS
<1> HIDE DEF at
<1> QED BY <1>4, <1>5, <1>6

LEMMA CrlfOfPart ==
  ASSUME NEW d \in Seq(Octet), NEW n \in 0..Len(d), NEW i \in 1..(n + 1),
         Crlf(SubSeq(d, 1, n), i) # 0
  PROVE  Crlf(d, i) = Crlf(SubSeq(d, 1, n), i)
<1> DEFINE e == SubSeq(d, 1, n)
           m == Crlf(e, i)
           at == {j \in i..(Len(d) - 1) : d[j] = CR /\ d[j + 1] = LF}
<1>1. /\ e \in Seq(Octet) /\ Len(e) = n /\ Len(d) \in Nat
      /\ \A j \in 1..n : e[j] = d[j]
  BY PrefixIs
<1> HIDE DEF e
<1>2. /\ m \in i..(n - 1) /\ e[m] = CR /\ e[m + 1] = LF
      /\ \A j \in i..(n - 1) : e[j] = CR /\ e[j + 1] = LF => m <= j
  BY <1>1, CrlfIs DEF e
<1> HIDE DEF m
<1>3. d[m] = CR /\ d[m + 1] = LF /\ m \in i..(Len(d) - 1)
  <2>1. m \in 1..n /\ m + 1 \in 1..n /\ m \in i..(Len(d) - 1)
    BY <1>1, <1>2
  <2> QED BY <1>1, <1>2, <2>1
<1>4. m \in at /\ at \subseteq Int
  BY <1>1, <1>3
<1>5. ASSUME NEW j \in at PROVE m <= j
  <2> SUFFICES ASSUME j < m PROVE FALSE
    BY <1>1, <1>2
  <2>1. j \in i..(n - 1) /\ j \in 1..n /\ j + 1 \in 1..n
    BY <1>1, <1>2
  <2>2. d[j] = CR /\ d[j + 1] = LF
    OBVIOUS
  <2>3. e[j] = CR /\ e[j + 1] = LF
    BY <1>1, <2>1, <2>2
  <2>4. m <= j
    BY <1>2, <2>1, <2>3
  <2> QED BY <1>2, <2>1, <2>4
<1>6. Crlf(d, i) = IF at = {} THEN 0 ELSE Min(at)
  BY DEF Crlf
<1> HIDE DEF at
<1>7. Min(at) = m /\ at # {}
  BY <1>4, <1>5, MinIs
<1> QED BY <1>6, <1>7 DEF m, e

-----------------------------------------------------------------------------
\* The size line at i of chunked data, where the chunk's data ends and where
\* the next chunk begins.
SizeAt(d, i) == IF Crlf(d, i) = 0 THEN <<>> ELSE ChunkSize(SubSeq(d, i, Crlf(d, i) - 1))
EndAt(d, i) == Crlf(d, i) + 2 + SizeAt(d, i)[1]
NextAt(d, i) == IF Len(d) + 1 - EndAt(d, i) >= 2 THEN EndAt(d, i) + 2 ELSE EndAt(d, i)
DataAt(d, i) == SubSeq(d, Crlf(d, i) + 2, EndAt(d, i) - 1)

\* A chunk with data, all of which is there.
ChunkAt(d, i) ==
  /\ SizeAt(d, i) # <<>> /\ SizeAt(d, i) # <<0>>
  /\ ~(Len(d) - Crlf(d, i) - 1 < SizeAt(d, i)[1])

\* f decodes d from every octet on.
Decodes(f, d) ==
  \A i \in 1..(Len(d) + 1) :
    f[i] = CASE SizeAt(d, i) = <<>> -> <<>>
             [] SizeAt(d, i) = <<0>> -> <<<<>>>>
             [] OTHER -> IF Len(d) - Crlf(d, i) - 1 < SizeAt(d, i)[1] \/ f[NextAt(d, i)] = <<>> THEN <<>>
                         ELSE <<DataAt(d, i) \o f[NextAt(d, i)][1]>>

\* What is read of a size line.
LEMMA SizeType ==
  ASSUME NEW d \in Seq(Octet), NEW i \in 1..(Len(d) + 1)
  PROVE  SizeAt(d, i) \in Number
<1>1. CASE Crlf(d, i) = 0
  BY <1>1 DEF SizeAt, Number
<1>2. CASE Crlf(d, i) # 0
  <2> DEFINE m == Crlf(d, i)
             line == SubSeq(d, i, m - 1)
             ext == {j \in DOMAIN line : line[j] = Semicolon}
             k == IF ext = {} THEN Len(line) ELSE Min(ext) - 1
             size == SubSeq(line, 1, k)
  <2>1. m \in i..(Len(d) - 1) /\ Len(d) \in Nat
    BY <1>2, CrlfIs, LenProperties
  <2>2. line \in Seq(Octet)
    <3> HIDE DEF m
    <3>1. \A j \in i..(m - 1) : d[j] \in Octet
      <4>1. \A j \in i..(m - 1) : j \in 1..Len(d)
        BY <2>1
      <4> QED BY <4>1, ElementOfSeq
    <3>2. m - 1 \in Int /\ i \in Int
      BY <2>1
    <3> QED BY <3>1, <3>2, SubSeqProperties
  <2>3. SizeAt(d, i) = HexNumber(Trim(size, Space))
    BY <1>2 DEF SizeAt, ChunkSize
  <2> HIDE DEF line
  <2>4. Len(line) \in Nat /\ DOMAIN line = 1..Len(line)
    BY <2>2, LenProperties
  <2>5. k \in 0..Len(line)
    <3>1. ext \subseteq 1..Len(line) /\ ext \subseteq Nat
      BY <2>4
    <3> HIDE DEF ext
    <3>2. CASE ext = {}
      BY <2>4, <3>2
    <3>3. CASE ext # {}
      <4>1. Min(ext) \in 1..Len(line)
        BY <3>1, <3>3, MinExists
      <4> QED BY <2>4, <3>3, <4>1
    <3> QED BY <3>2, <3>3
  <2> HIDE DEF k
  <2>6. size \in Seq(Octet)
    <3>1. \A j \in 1..k : line[j] \in Octet
      <4>1. \A j \in 1..k : j \in 1..Len(line)
        BY <2>4, <2>5
      <4> QED BY <2>2, <4>1, ElementOfSeq
    <3>2. k \in Int /\ 1 \in Int
      BY <2>5
    <3> QED BY <3>1, <3>2, SubSeqProperties
  <2> HIDE DEF size
  <2> QED BY <2>3, <2>6, TrimIs, HexNumberType
<1> QED BY <1>1, <1>2

\* A chunk lies in the data, and the next one begins behind it.
LEMMA ChunkBounds ==
  ASSUME NEW d \in Seq(Octet), NEW i \in 1..(Len(d) + 1), ChunkAt(d, i)
  PROVE  /\ Crlf(d, i) # 0 /\ Crlf(d, i) \in i..(Len(d) - 1) /\ SizeAt(d, i)[1] \in Nat \ {0}
         /\ EndAt(d, i) \in (i + 2)..(Len(d) + 1)
         /\ NextAt(d, i) \in (i + 1)..(Len(d) + 1)
<1> DEFINE m == Crlf(d, i)
           n == SizeAt(d, i)[1]
           L == Len(d)
<1>1. m # 0
  BY DEF ChunkAt, SizeAt
<1>2. m \in i..(L - 1) /\ L \in Nat
  BY <1>1, CrlfIs, LenProperties
<1>3. PICK k \in Nat : SizeAt(d, i) = <<k>>
  BY SizeType DEF ChunkAt, Number
<1>4. n = k /\ k # 0 /\ ~(L - m - 1 < k)
  BY <1>3 DEF ChunkAt
<1>5. EndAt(d, i) = m + 2 + n
  BY DEF EndAt
<1> DEFINE t == EndAt(d, i)
<1>6. NextAt(d, i) = IF L + 1 - t >= 2 THEN t + 2 ELSE t
  BY DEF NextAt
<1> HIDE DEF m, n, L
<1>7. t = m + 2 + k
  BY <1>4, <1>5
<1> HIDE DEF t
<1>8. t \in (i + 2)..(L + 1)
  BY <1>2, <1>4, <1>7
<1>9. NextAt(d, i) \in (i + 1)..(L + 1)
  BY <1>2, <1>6, <1>8
<1> QED BY <1>1, <1>2, <1>4, <1>8, <1>9 DEF m, n, L, t

\* Chunked data is decoded from its first octet on.
LEMMA ChunksRecursion ==
  ASSUME NEW d \in Seq(Octet)
  PROVE  \E f : Decodes(f, d) /\ DecodeChunked(d) = f[1]
<1> DEFINE n == Len(d)
           D == 1..(n + 1)
           V == {<<>>} \cup {<<s>> : s \in Seq(Octet)}
           last == {i \in D : ~ChunkAt(d, i)}
           base == [i \in D |-> IF SizeAt(d, i) = <<0>> THEN <<<<>>>> ELSE <<>>]
           next == [i \in D |-> NextAt(d, i)]
           step == [i \in D |-> [v \in V |-> IF i \in last \/ v = <<>> THEN <<>>
                                            ELSE <<DataAt(d, i) \o v[1]>>]]
           rank == [i \in D |-> n + 1 - i]
           Rhs(f, i) == CASE SizeAt(d, i) = <<>> -> <<>>
                          [] SizeAt(d, i) = <<0>> -> <<<<>>>>
                          [] OTHER -> IF n - Crlf(d, i) - 1 < SizeAt(d, i)[1] \/ f[NextAt(d, i)] = <<>> THEN <<>>
                                      ELSE <<DataAt(d, i) \o f[NextAt(d, i)][1]>>
           from == CHOOSE f : f = [i \in D |-> Rhs(f, i)]
<1>1. n \in Nat /\ 1 \in D
  BY LenProperties
<1>2. ASSUME NEW i \in D, i \notin last
      PROVE  /\ ChunkAt(d, i) /\ NextAt(d, i) \in D /\ NextAt(d, i) > i
             /\ DataAt(d, i) \in Seq(Octet)
  <2>1. ChunkAt(d, i)
    BY <1>2
  <2>2. /\ Crlf(d, i) \in i..(n - 1) /\ EndAt(d, i) \in (i + 2)..(n + 1)
        /\ NextAt(d, i) \in (i + 1)..(n + 1)
    BY <2>1, ChunkBounds
  <2>3. DataAt(d, i) \in Seq(Octet)
    <3> DEFINE a == Crlf(d, i) + 2
               b == EndAt(d, i) - 1
    <3>1. a \in Int /\ b \in Int /\ \A j \in a..b : j \in 1..n
      BY <1>1, <2>2
    <3>2. \A j \in a..b : d[j] \in Octet
      BY <3>1, ElementOfSeq
    <3> HIDE DEF a, b
    <3>3. SubSeq(d, a, b) \in Seq(Octet)
      BY <3>1, <3>2, SubSeqProperties
    <3> QED BY <3>3 DEF DataAt, a, b
  <2> QED BY <1>1, <2>1, <2>2, <2>3
<1>3. \A i \in D : i \in last <=> ~ChunkAt(d, i)
  OBVIOUS
<1>4. <<>> \in V /\ <<<<>>>> \in V
  <2>1. <<>> \in Seq(Octet)
    BY EmptySeq
  <2> QED BY <2>1
<1>5. ASSUME NEW i \in D, i \notin last, NEW v \in V, v # <<>>
      PROVE  <<DataAt(d, i) \o v[1]>> \in V
  <2>1. v[1] \in Seq(Octet)
    BY <1>5
  <2>2. DataAt(d, i) \o v[1] \in Seq(Octet)
    BY <1>2, <1>5, <2>1, ConcatProperties
  <2> QED BY <2>2
<1>6. WellFounded(D, V, last, base, next, step, rank, n)
  <2>1. rank \in [D -> 0..n]
    BY <1>1
  <2>2. base \in [D -> V]
    <3> HIDE DEF V, D
    <3> QED BY <1>4
  <2>3. step \in [D -> [V -> V]]
    <3> HIDE DEF D, V, last
    <3> QED BY <1>4, <1>5
  <2>4. \A i \in D \ last : next[i] \in D /\ rank[next[i]] < rank[i]
    <3> SUFFICES ASSUME NEW i \in D, i \notin last PROVE next[i] \in D /\ rank[next[i]] < rank[i]
      OBVIOUS
    <3>1. NextAt(d, i) \in D /\ NextAt(d, i) > i /\ next[i] = NextAt(d, i)
      BY <1>2
    <3> QED BY <1>1, <3>1
  <2> HIDE DEF D, V, last, base, next, step, rank
  <2> QED BY <1>1, <2>1, <2>2, <2>3, <2>4 DEF WellFounded
<1>7. \A i \in D : base[i] = IF SizeAt(d, i) = <<0>> THEN <<<<>>>> ELSE <<>>
  OBVIOUS
<1>8. \A i \in D : next[i] = NextAt(d, i)
  OBVIOUS
<1>9. \A i \in D, v \in V : i \notin last =>
        step[i][v] = IF v = <<>> THEN <<>> ELSE <<DataAt(d, i) \o v[1]>>
  <2> HIDE DEF D, V, last
  <2> QED OBVIOUS
<1> HIDE DEF V, last, base, next, step, rank
<1>10. PICK f \in [D -> V] : Solves(f, D, last, base, next, step)
  <2> HIDE DEF D
  <2> QED BY <1>6, RecursionTheorem
<1>11. ASSUME NEW i \in D PROVE f[i] = Rhs(f, i)
  <2>1. f[i] = Unfold(f, i, last, base, next, step)
    BY <1>10, <1>11 DEF Solves
  <2>2. CASE i \in last
    <3>1. f[i] = base[i]
      BY <2>1, <2>2 DEF Unfold
    <3>2. SizeAt(d, i) = <<>> \/ SizeAt(d, i) = <<0>> \/ n - Crlf(d, i) - 1 < SizeAt(d, i)[1]
      BY <1>3, <2>2 DEF ChunkAt
    <3>3. <<>> # <<0>>
      OBVIOUS
    <3> HIDE DEF D, n
    <3> QED BY <1>7, <3>1, <3>2, <3>3
  <2>3. CASE i \notin last
    <3>1. f[i] = step[i][f[NextAt(d, i)]] /\ f[NextAt(d, i)] \in V
      BY <1>2, <1>8, <1>10, <2>1, <2>3 DEF Unfold
    <3>2. /\ SizeAt(d, i) # <<>> /\ SizeAt(d, i) # <<0>>
          /\ ~(n - Crlf(d, i) - 1 < SizeAt(d, i)[1])
      BY <1>3, <2>3 DEF ChunkAt
    <3> HIDE DEF D, n
    <3> QED BY <1>9, <2>3, <3>1, <3>2
  <2> QED BY <2>2, <2>3
<1>12. from = [i \in D |-> Rhs(from, i)]
  <2> HIDE DEF Rhs
  <2>1. f = [i \in D |-> Rhs(f, i)]
    BY <1>10, <1>11
  <2> QED BY <2>1
<1>13. \A i \in D : from[i] = Rhs(from, i)
  <2> HIDE DEF from, Rhs
  <2> QED BY <1>12
<1>14. DecodeChunked(d) = from[1]
  BY DEF DecodeChunked, SizeAt, EndAt, NextAt, DataAt
<1>15. Decodes(from, d)
  <2> HIDE DEF from
  <2> QED BY <1>13 DEF Decodes
<1> HIDE DEF from
<1> QED BY <1>14, <1>15

\* A part that has a size line has the one of the whole.
LEMMA SizeOfPart ==
  ASSUME NEW d \in Seq(Octet), NEW n \in 0..Len(d), NEW i \in 1..(n + 1),
         SizeAt(SubSeq(d, 1, n), i) # <<>>
  PROVE  LET e == SubSeq(d, 1, n) IN
         /\ Crlf(e, i) \in i..(n - 1)
         /\ Crlf(d, i) = Crlf(e, i) /\ SizeAt(d, i) = SizeAt(e, i)
<1> DEFINE e == SubSeq(d, 1, n)
           m == Crlf(e, i)
<1>1. e \in Seq(Octet) /\ Len(e) = n /\ Len(d) \in Nat
  BY PrefixIs
<1>2. m # 0
  BY DEF SizeAt
<1>3. m \in i..(n - 1)
  <2> HIDE DEF e
  <2> QED BY <1>1, <1>2, CrlfIs
<1>4. Crlf(d, i) = m
  BY <1>2, CrlfOfPart
<1>5. SubSeq(e, i, m - 1) = SubSeq(d, i, m - 1)
  <2>1. m - 1 \in Int /\ m - 1 <= n
    BY <1>1, <1>3
  <2> DEFINE j == m - 1
  <2> HIDE DEF j
  <2>2. j \in Int /\ j <= n
    BY <2>1 DEF j
  <2>3. SubSeq(SubSeq(d, 1, n), i, j) = SubSeq(d, i, j)
    BY <2>2, SliceOfPrefix
  <2> QED BY <2>3 DEF j
<1> HIDE DEF m
<1>6. SizeAt(d, i) = SizeAt(e, i)
  <2>1. SizeAt(e, i) = ChunkSize(SubSeq(e, i, m - 1))
    BY <1>2 DEF SizeAt, m
  <2>2. SizeAt(d, i) = ChunkSize(SubSeq(d, i, m - 1))
    BY <1>2, <1>4 DEF SizeAt
  <2> QED BY <1>5, <2>1, <2>2
<1> QED BY <1>3, <1>4, <1>6 DEF m

\* A chunk that is all in the part is a chunk of the whole, with the same data
\* and, if the part has another size line behind it, the same next chunk.
LEMMA ChunkOfPart ==
  ASSUME NEW d \in Seq(Octet), NEW n \in 0..Len(d), NEW i \in 1..(n + 1),
         ChunkAt(SubSeq(d, 1, n), i)
  PROVE  LET e == SubSeq(d, 1, n) IN
         /\ ChunkAt(d, i) /\ DataAt(d, i) = DataAt(e, i)
         /\ NextAt(e, i) \in (i + 1)..(n + 1)
         /\ SizeAt(e, NextAt(e, i)) # <<>> => NextAt(d, i) = NextAt(e, i)
<1> DEFINE e == SubSeq(d, 1, n)
           m == Crlf(e, i)
           size == SizeAt(e, i)[1]
           t == EndAt(e, i)
<1>1. e \in Seq(Octet) /\ Len(e) = n /\ Len(d) \in Nat
  BY PrefixIs
<1>2. /\ m \in i..(n - 1) /\ Crlf(d, i) = m /\ SizeAt(d, i) = SizeAt(e, i)
  BY SizeOfPart DEF ChunkAt
<1>3. SizeAt(e, i) # <<>> /\ SizeAt(e, i) # <<0>> /\ ~(n - m - 1 < size)
  BY <1>1 DEF ChunkAt
<1>4. size \in Nat \ {0} /\ t \in (i + 2)..(n + 1) /\ NextAt(e, i) \in (i + 1)..(n + 1)
  <2> HIDE DEF e
  <2> QED BY <1>1, ChunkBounds DEF e
<1>5. t = m + 2 + size /\ EndAt(d, i) = t
  BY <1>2 DEF EndAt
<1>6. NextAt(e, i) = IF n + 1 - t >= 2 THEN t + 2 ELSE t
  BY <1>1 DEF NextAt
<1>7. NextAt(d, i) = IF Len(d) + 1 - t >= 2 THEN t + 2 ELSE t
  BY <1>5 DEF NextAt
<1>8. DataAt(d, i) = SubSeq(d, m + 2, t - 1) /\ DataAt(e, i) = SubSeq(e, m + 2, t - 1)
  BY <1>2, <1>5 DEF DataAt
<1> HIDE DEF m, size, t
<1>9. ChunkAt(d, i)
  <2> DEFINE L == Len(d)
  <2>1. ~(L - m - 1 < size)
    <3>1. L \in Nat /\ n \in 0..L
      BY <1>1
    <3> HIDE DEF L, e
    <3> QED BY <1>2, <1>3, <1>4, <3>1
  <2> QED BY <1>2, <1>3, <2>1 DEF ChunkAt, size
<1>10. DataAt(d, i) = DataAt(e, i)
  <2> DEFINE a == m + 2
             b == t - 1
  <2>1. a \in 1..(n + 1) /\ b \in Int /\ b <= n
    BY <1>1, <1>2, <1>4
  <2>2. DataAt(d, i) = SubSeq(d, a, b) /\ DataAt(e, i) = SubSeq(e, a, b)
    BY <1>8
  <2> HIDE DEF a, b
  <2>3. SubSeq(SubSeq(d, 1, n), a, b) = SubSeq(d, a, b)
    BY <2>1, SliceOfPrefix
  <2> QED BY <2>2, <2>3
<1>11. ASSUME SizeAt(e, NextAt(e, i)) # <<>>
       PROVE  NextAt(d, i) = NextAt(e, i)
  <2> DEFINE k == NextAt(e, i)
  <2>1. k \in 1..(n + 1)
    BY <1>1, <1>4
  <2> HIDE DEF k
  <2>2. Crlf(e, k) \in k..(n - 1)
    BY <1>11, <2>1, SizeOfPart DEF k
  <2>3. k <= n - 1
    BY <1>1, <2>1, <2>2
  <2>4. n + 1 - t >= 2 /\ Len(d) + 1 - t >= 2
    <3> DEFINE L == Len(d)
    <3>1. L \in Nat /\ n \in 0..L /\ k = IF n + 1 - t >= 2 THEN t + 2 ELSE t
      BY <1>1, <1>6 DEF k
    <3> HIDE DEF L, e
    <3> QED BY <1>4, <2>3, <3>1 DEF L
  <2> QED BY <1>6, <1>7, <2>4
<1> QED BY <1>4, <1>9, <1>10, <1>11

\* What decodes is decoded the same with more octets behind it.
LEMMA DecodingOfPart ==
  ASSUME NEW d \in Seq(Octet), NEW n \in 0..Len(d), DecodeChunked(SubSeq(d, 1, n)) # <<>>
  PROVE  DecodeChunked(d) = DecodeChunked(SubSeq(d, 1, n))
<1> DEFINE e == SubSeq(d, 1, n)
<1>1. e \in Seq(Octet) /\ Len(e) = n /\ Len(d) \in Nat /\ n \in Nat
  BY PrefixIs
<1>2. PICK f : Decodes(f, d) /\ DecodeChunked(d) = f[1]
  BY ChunksRecursion
<1>3. PICK g : Decodes(g, e) /\ DecodeChunked(e) = g[1]
  <2> HIDE DEF e
  <2> QED BY <1>1, ChunksRecursion
<1>4. \A j \in 1..(n + 1) : g[j] # <<>> => SizeAt(e, j) # <<>>
  <2> SUFFICES ASSUME NEW j \in 1..(n + 1), SizeAt(e, j) = <<>> PROVE g[j] = <<>>
    OBVIOUS
  <2>1. j \in 1..(Len(e) + 1)
    BY <1>1
  <2>2. <<>> # <<0>>
    OBVIOUS
  <2> HIDE DEF e
  <2> QED BY <1>3, <2>1, <2>2 DEF Decodes
<1> DEFINE Same(i) == g[i] # <<>> => f[i] = g[i]
           S == {k \in Nat : \A i \in 1..(n + 1) : n + 1 - i <= k => Same(i)}
<1>5. ASSUME NEW i \in 1..(n + 1), \A j \in (i + 1)..(n + 1) : Same(j)
      PROVE  Same(i)
  <2> SUFFICES ASSUME g[i] # <<>> PROVE f[i] = g[i]
    OBVIOUS
  <2>1. i \in 1..(Len(d) + 1) /\ i \in 1..(Len(e) + 1)
    BY <1>1
  <2>2. SizeAt(e, i) # <<>>
    BY <1>4
  <2>3. SizeAt(d, i) = SizeAt(e, i)
    BY <2>2, SizeOfPart
  <2>4. CASE SizeAt(e, i) = <<0>>
    BY <1>2, <1>3, <2>1, <2>2, <2>3, <2>4 DEF Decodes
  <2>5. CASE SizeAt(e, i) # <<0>>
    <3>1. /\ ~(Len(e) - Crlf(e, i) - 1 < SizeAt(e, i)[1]) /\ g[NextAt(e, i)] # <<>>
          /\ g[i] = <<DataAt(e, i) \o g[NextAt(e, i)][1]>>
      BY <1>3, <2>1, <2>2, <2>5 DEF Decodes
    <3>2. ChunkAt(e, i)
      BY <2>2, <2>5, <3>1 DEF ChunkAt
    <3>3. /\ ChunkAt(d, i) /\ DataAt(d, i) = DataAt(e, i)
          /\ NextAt(e, i) \in (i + 1)..(n + 1)
          /\ SizeAt(e, NextAt(e, i)) # <<>> => NextAt(d, i) = NextAt(e, i)
      BY <3>2, ChunkOfPart
    <3>4. NextAt(e, i) \in 1..(Len(e) + 1)
      BY <1>1, <3>3
    <3>5. SizeAt(e, NextAt(e, i)) # <<>>
      BY <1>1, <1>4, <3>1, <3>4
    <3>6. f[NextAt(d, i)] = g[NextAt(e, i)]
      BY <1>5, <3>1, <3>3, <3>5
    <3>7. f[i] = <<DataAt(d, i) \o f[NextAt(d, i)][1]>>
      BY <1>2, <2>1, <3>1, <3>3, <3>6 DEF Decodes, ChunkAt
    <3> QED BY <3>1, <3>3, <3>6, <3>7
  <2> QED BY <2>4, <2>5
<1> HIDE DEF Same, e
<1>6. 0 \in S
  <2> SUFFICES ASSUME NEW i \in 1..(n + 1), n + 1 - i <= 0 PROVE Same(i)
    OBVIOUS
  <2>1. \A j \in (i + 1)..(n + 1) : Same(j)
    BY <1>1
  <2> QED BY <1>5, <2>1
<1>7. ASSUME NEW k \in Nat, k \in S PROVE k + 1 \in S
  <2> SUFFICES ASSUME NEW i \in 1..(n + 1), n + 1 - i <= k + 1 PROVE Same(i)
    OBVIOUS
  <2>1. ASSUME NEW j \in (i + 1)..(n + 1) PROVE Same(j)
    <3>1. j \in 1..(n + 1) /\ n + 1 - j <= k
      BY <1>1
    <3> QED BY <1>7, <3>1
  <2> QED BY <1>5, <2>1
<1>8. n \in S
  <2> HIDE DEF S
  <2> QED BY <1>1, <1>6, <1>7, SetInduction
<1>9. Same(1)
  <2>1. 1 \in 1..(n + 1) /\ n + 1 - 1 <= n
    BY <1>1
  <2> QED BY <1>8, <2>1
<1> QED BY <1>2, <1>3, <1>9 DEF Same, e

\* A part of an OCSP response with a status has the status of the whole.
LEMMA StatusOfPart ==
  ASSUME NEW d \in Seq(Octet), NEW n \in 0..Len(d), ParseStatus(SubSeq(d, 1, n)) # None
  PROVE  ParseStatus(d) = ParseStatus(SubSeq(d, 1, n))
<1> DEFINE e == SubSeq(d, 1, n)
<1>1. Readable(e)
  BY UnreadableHasNoStatus
<1>2. Readable(d) /\ Content(d) = Content(e)
  BY <1>1, ReadingExtends
<1> HIDE DEF e
<1>3. ParseStatus(d) = ParseStatus(e)
  BY <1>1, <1>2 DEF ParseStatus
<1> QED BY <1>3 DEF e

\* The closing bracket is only at the end of an array.
LEMMA JsonArrayIs ==
  ASSUME NEW k \in Nat
  PROVE  LET a == JsonArray(k) IN
         /\ a \in Seq(Octet) /\ Len(a) \in Nat /\ Len(a) >= 2
         /\ a[1] = 91 /\ a[Len(a)] = 93
         /\ \A j \in 1..(Len(a) - 1) : a[j] # 93
         /\ Len(a) = (IF k = 0 THEN 0 ELSE 2 * k - 1) + 2
<1> DEFINE h == IF k = 0 THEN 0 ELSE 2 * k - 1
           mid == [i \in 1..(2 * k - 1) |-> IF i % 2 = 1 THEN 49 ELSE 44]
           l == <<91>>
           r == <<93>>
           lm == l \o mid
           a == lm \o r
<1>0. 44 \in Octet /\ 49 \in Octet /\ 91 \in Octet /\ 93 \in Octet
  BY CodeOctets
<1>1. h \in Nat /\ 1..(2 * k - 1) = 1..h
  OBVIOUS
<1>2. /\ mid \in Seq(Octet) /\ Len(mid) = h
      /\ \A i \in 1..h : mid[i] = 49 \/ mid[i] = 44
  <2>1. mid = [i \in 1..h |-> IF i % 2 = 1 THEN 49 ELSE 44]
    BY <1>1
  <2> HIDE DEF h, mid
  <2>2. DOMAIN mid = 1..h /\ \A i \in 1..h : mid[i] = 49 \/ mid[i] = 44
    BY <2>1
  <2>3. mid \in [1..h -> Octet]
    BY <1>0, <2>1
  <2>4. mid \in Seq(Octet)
    BY <1>1, <2>3, SeqDef
  <2>5. Len(mid) \in Nat /\ 1..Len(mid) = 1..h
    BY <2>2, <2>4, LenProperties
  <2>6. Len(mid) = h
    BY <1>1, <2>5
  <2> QED BY <2>2, <2>4, <2>6
<1>3. l \in Seq(Octet) /\ Len(l) = 1 /\ l[1] = 91 /\ r \in Seq(Octet) /\ Len(r) = 1 /\ r[1] = 93
  BY <1>0
<1>4. JsonArray(k) = a
  BY DEF JsonArray
<1> HIDE DEF h, mid, l, r
<1>5. /\ lm \in Seq(Octet) /\ Len(lm) = h + 1
      /\ \A i \in 1..(h + 1) : lm[i] = IF i <= 1 THEN l[i] ELSE mid[i - 1]
  <2>1. l \in Seq(Octet) /\ mid \in Seq(Octet)
    BY <1>2, <1>3
  <2>2. /\ lm \in Seq(Octet) /\ Len(lm) = Len(l) + Len(mid)
        /\ \A i \in 1..(Len(l) + Len(mid)) : lm[i] = IF i <= Len(l) THEN l[i] ELSE mid[i - Len(l)]
    BY <2>1, ConcatProperties
  <2> HIDE DEF lm
  <2>3. Len(l) + Len(mid) = h + 1
    BY <1>1, <1>2, <1>3
  <2> QED BY <1>3, <2>2, <2>3
<1> HIDE DEF lm
<1>6. /\ a \in Seq(Octet) /\ Len(a) = h + 2
      /\ \A i \in 1..(h + 2) : a[i] = IF i <= h + 1 THEN lm[i] ELSE r[i - (h + 1)]
  <2>1. lm \in Seq(Octet) /\ r \in Seq(Octet)
    BY <1>3, <1>5
  <2>2. /\ a \in Seq(Octet) /\ Len(a) = Len(lm) + Len(r)
        /\ \A i \in 1..(Len(lm) + Len(r)) : a[i] = IF i <= Len(lm) THEN lm[i] ELSE r[i - Len(lm)]
    BY <2>1, ConcatProperties
  <2> HIDE DEF a
  <2>3. Len(lm) + Len(r) = h + 2
    BY <1>1, <1>3, <1>5
  <2> QED BY <1>5, <2>2, <2>3
<1> HIDE DEF a
<1>7. a[1] = 91 /\ a[h + 2] = 93
  BY <1>1, <1>3, <1>5, <1>6
<1>8. ASSUME NEW j \in 1..(h + 1) PROVE a[j] # 93
  <2>1. a[j] = lm[j]
    BY <1>1, <1>6
  <2>2. CASE j = 1
    BY <1>1, <1>6, <1>7, <2>2
  <2>3. CASE j # 1
    <3>1. j - 1 \in 1..h /\ lm[j] = mid[j - 1]
      BY <1>1, <1>5, <2>3
    <3> QED BY <1>2, <2>1, <3>1
  <2> QED BY <2>2, <2>3
<1>9. Len(a) - 1 = h + 1
  BY <1>1, <1>6
<1>10. h = IF k = 0 THEN 0 ELSE 2 * k - 1
  BY DEF h
<1> QED BY <1>1, <1>4, <1>6, <1>7, <1>8, <1>9, <1>10

\* A part that is not only space trims to a part.
LEMMA TrimOfPart ==
  ASSUME NEW d \in Seq(Octet), NEW n \in 0..Len(d), NEW space,
         Trim(SubSeq(d, 1, n), space) # <<>>
  PROVE  LET s == Trim(SubSeq(d, 1, n), space)
             t == Trim(d, space)
         IN  /\ s \in Seq(Octet) /\ t \in Seq(Octet) /\ t # <<>>
             /\ Len(s) \in 1..Len(t)
             /\ \A i \in 1..Len(s) : s[i] = t[i]
<1> DEFINE e == SubSeq(d, 1, n)
           s == Trim(e, space)
           t == Trim(d, space)
           L == Len(d)
<1>1. e \in Seq(Octet) /\ Len(e) = n /\ L \in Nat /\ \A j \in 1..n : e[j] = d[j]
  BY PrefixIs
<1> HIDE DEF e
<1>2. PICK a \in 1..n, b \in 1..n :
        /\ a <= b /\ e[a] \notin space /\ e[b] \notin space
        /\ \A i \in 1..n : e[i] \notin space => a <= i /\ i <= b
        /\ s = SubSeq(e, a, b)
  <2>1. s # <<>>
    BY DEF e
  <2>2. Len(e) = n /\ e \in Seq(Octet)
    BY <1>1
  <2>3. \E a \in 1..Len(e), b \in 1..Len(e) :
          /\ a <= b /\ e[a] \notin space /\ e[b] \notin space
          /\ \A i \in 1..Len(e) : e[i] \notin space => a <= i /\ i <= b
          /\ s = SubSeq(e, a, b)
    BY <2>1, <2>2, TrimIs
  <2> QED BY <2>2, <2>3
<1>3. a \in 1..L /\ b \in 1..L /\ d[a] \notin space /\ d[b] \notin space
  BY <1>1, <1>2
<1>4. t # <<>>
  BY <1>3, TrimIs
<1>5. PICK p \in 1..L, q \in 1..L :
        /\ p <= q /\ d[p] \notin space /\ d[q] \notin space
        /\ \A i \in 1..L : d[i] \notin space => p <= i /\ i <= q
        /\ t = SubSeq(d, p, q)
  BY <1>4, TrimIs
<1>6. p = a /\ b <= q
  <2>1. p <= a /\ b <= q
    BY <1>3, <1>5
  <2>2. p \in 1..n
    BY <1>1, <1>2, <2>1
  <2>3. e[p] \notin space
    BY <1>1, <1>5, <2>2
  <2>4. a <= p
    BY <1>2, <2>2, <2>3
  <2> QED BY <2>1, <2>4
<1>7. s = SubSeq(d, a, b)
  <2>1. a \in 1..(n + 1) /\ b \in Int /\ b <= n
    BY <1>1
  <2> QED BY <1>2, <2>1, SliceOfPrefix DEF e
<1> HIDE DEF s, t
<1>8. /\ s \in Seq(Octet) /\ Len(s) = b - a + 1
      /\ \A i \in 1..(b - a + 1) : s[i] = d[a + i - 1]
  <2>1. \A i \in a..b : d[i] \in Octet
    <3>1. \A i \in a..b : i \in 1..L
      BY <1>1
    <3> QED BY <3>1, ElementOfSeq
  <2>2. a \in Int /\ b \in Int /\ a <= b
    BY <1>2
  <2> QED BY <1>7, <2>1, <2>2, SubSeqProperties
<1>9. /\ t \in Seq(Octet) /\ Len(t) = q - a + 1
      /\ \A i \in 1..(q - a + 1) : t[i] = d[a + i - 1]
  <2>1. \A i \in a..q : d[i] \in Octet
    <3>1. \A i \in a..q : i \in 1..L
      BY <1>1
    <3> QED BY <3>1, ElementOfSeq
  <2>2. a \in Int /\ q \in Int /\ a <= q /\ t = SubSeq(d, a, q)
    BY <1>5, <1>6
  <2> QED BY <2>1, <2>2, SubSeqProperties
<1>10. Len(s) \in 1..Len(t) /\ \A i \in 1..Len(s) : s[i] = t[i]
  <2>1. b - a + 1 \in 1..(q - a + 1)
    BY <1>1, <1>2, <1>6
  <2>2. \A i \in 1..(b - a + 1) : i \in 1..(q - a + 1)
    BY <1>1, <2>1
  <2> QED BY <1>8, <1>9, <2>1, <2>2
<1> QED BY <1>4, <1>8, <1>9, <1>10 DEF s, t, e

\* A part of an array of records that is an array is all of it.
LEMMA ArrayOfPart ==
  ASSUME NEW d \in Seq(Octet), NEW n \in 0..Len(d),
         Trim(SubSeq(d, 1, n), AsciiSpace) # <<>>, CountEntries(SubSeq(d, 1, n)) # None,
         LET t == Trim(d, JsonSpace)
         IN  t # <<>> /\ t[1] = 91 => \E k \in 0..Len(t) : t = JsonArray(k)
  PROVE  CountEntries(d) = CountEntries(SubSeq(d, 1, n))
<1> DEFINE e == SubSeq(d, 1, n)
           s == Trim(e, JsonSpace)
           t == Trim(d, JsonSpace)
<1>1. CountEntries(e) = JsonLen(s) /\ CountEntries(d) = JsonLen(t)
  <2>1. Trim(e, AsciiSpace) # <<>> /\ Trim(d, AsciiSpace) # <<>>
    BY TrimOfPart
  <2> HIDE DEF e
  <2> QED BY <2>1 DEF CountEntries
<1>2. PICK k \in Nat : s = JsonArray(k)
  <2>1. e \in Seq(Octet)
    BY PrefixIs
  <2>2. s \in Seq(Octet)
    <3> HIDE DEF e
    <3> QED BY <2>1, TrimIs
  <2>3. JsonLen(s) # <<>>
    BY <1>1 DEF None
  <2> HIDE DEF s
  <2> QED BY <2>2, <2>3, LenProperties DEF JsonLen
<1>3. s # <<>>
  <2> HIDE DEF s
  <2>1. Len(s) >= 2
    BY <1>2, JsonArrayIs
  <2> QED BY <2>1, EmptySeq
<1>4. /\ s \in Seq(Octet) /\ t \in Seq(Octet) /\ t # <<>>
      /\ Len(s) \in 1..Len(t) /\ \A i \in 1..Len(s) : s[i] = t[i]
  BY <1>3, TrimOfPart
<1>5. /\ t[1] = 91 => \E j \in 0..Len(t) : t = JsonArray(j)
      /\ Len(s) \in Nat /\ Len(t) \in Nat
  BY <1>4, LenProperties
<1> HIDE DEF s, t, e
<1>6. /\ Len(s) >= 2 /\ s[1] = 91 /\ s[Len(s)] = 93
  BY <1>2, JsonArrayIs
<1>7. t[1] = 91 /\ t[Len(s)] = 93
  BY <1>4, <1>5, <1>6
<1>8. PICK m \in Nat : t = JsonArray(m)
  BY <1>5, <1>7
<1>9. \A j \in 1..(Len(t) - 1) : t[j] # 93
  <2>1. \A j \in 1..(Len(JsonArray(m)) - 1) : JsonArray(m)[j] # 93
    BY JsonArrayIs
  <2> QED BY <1>8, <2>1
<1>10. Len(s) = Len(t)
  BY <1>4, <1>5, <1>7, <1>9
<1>11. s = t
  BY <1>4, <1>10, SeqEqual
<1> QED BY <1>1, <1>11 DEF e

-----------------------------------------------------------------------------
\* What its user makes of the response of a peer if it arrives whole.
Meaning(p) == Answer(p.user, ParseResponse(TRUE, p.status, p.headers, p.body))

\* The exception: a body that is not chunked and of which only space arrived.
NothingYet ==
  /\ peer.user = "ct" /\ answer = Some([entries |-> 0])
  /\ received < Whole /\ ~Chunked(peer.headers) /\ Trim(Body, AsciiSpace) = <<>>

AnswerInv ==
  /\ phase \in {"reading", "closed"} /\ peer.scheme = "https" => peer.trusted
  /\ answer # None => phase = "closed" /\ (answer = Meaning(peer) \/ NothingYet)

\* What has arrived of a body is a part of it.
LEMMA BodyIsPart ==
  ASSUME peer \in Peers, received \in HeadUnits..Whole
  PROVE  /\ peer.body \in Seq(Octet)
         /\ \E n \in 0..Len(peer.body) :
              /\ Body = SubSeq(peer.body, 1, n)
              /\ received < Whole <=> n < Len(peer.body)
<1> DEFINE b == peer.body
           n == received - HeadUnits
<1>1. b \in Seq(Octet) /\ HeadUnits \in Nat
  BY ExchangeAssumption
<1>2. Len(b) \in Nat
  BY <1>1, LenProperties
<1>3. n \in 0..Len(b) /\ (received < Whole <=> n < Len(b))
  <2> DEFINE L == Len(b)
  <2>1. Whole = HeadUnits + L /\ L \in Nat
    BY <1>2 DEF Whole
  <2>2. \A h \in Nat : \A r \in h..(h + L) : r - h \in 0..L /\ (r < h + L <=> r - h < L)
    <3> HIDE DEF L
    <3> QED BY <2>1
  <2>3. received - HeadUnits \in 0..L /\ (received < Whole <=> received - HeadUnits < L)
    <3> HIDE DEF L
    <3> QED BY <1>1, <2>1, <2>2
  <2> QED BY <2>3 DEF L
<1>4. Body = SubSeq(b, 1, n)
  <2>1. CASE received = HeadUnits
    <3>1. Body = <<>> /\ n = 0
      BY <1>1, <2>1 DEF Body
    <3> HIDE DEF n, b
    <3>2. SubSeq(b, 1, n) \in Seq(Octet) /\ Len(SubSeq(b, 1, n)) = 0
      BY <1>1, <1>3, <3>1, PrefixIs
    <3> QED BY <3>1, <3>2, EmptySeq
  <2>2. CASE received # HeadUnits
    BY <1>1, <2>2 DEF Body
  <2> QED BY <2>1, <2>2
<1> QED BY <1>1, <1>3, <1>4

\* All of a sequence is the sequence.
LEMMA PartIsWhole ==
  ASSUME NEW d \in Seq(Octet)
  PROVE  SubSeq(d, 1, Len(d)) = d
<1> DEFINE n == Len(d)
           e == SubSeq(d, 1, n)
<1>1. n \in 0..Len(d)
  BY LenProperties
<1>2. e \in Seq(Octet) /\ Len(e) = n /\ \A j \in 1..n : e[j] = d[j]
  BY <1>1, PrefixIs
<1> HIDE DEF e
<1> QED BY <1>2, SeqEqual DEF e

\* An answer that a part of a response gives is the answer of the whole.
LEMMA PartOfResponse ==
  ASSUME peer \in Peers, received \in 0..Whole, Answer(peer.user, Response) # None
  PROVE  \/ Answer(peer.user, Response) = Meaning(peer)
         \/ /\ peer.user = "ct" /\ Answer(peer.user, Response) = Some([entries |-> 0])
            /\ received < Whole /\ ~Chunked(peer.headers) /\ Trim(Body, AsciiSpace) = <<>>
<1> DEFINE d == peer.body
           whole == ParseResponse(TRUE, peer.status, peer.headers, d)
<1>1. Response # None /\ Answer(peer.user, Response) = Interpret(peer.user, Response[1])
  BY DEF Answer
<1>2. received >= HeadUnits /\ peer.status # NoStatus
  BY <1>1 DEF Response, ParseResponse, None
<1>3. received \in HeadUnits..Whole
  BY <1>2, ExchangeAssumption
<1>4. peer.user \in {"ocsp", "ct", "hsts"} /\ d \in Seq(Octet)
  BY ExchangeAssumption
<1>5. PICK n \in 0..Len(d) : Body = SubSeq(d, 1, n) /\ (received < Whole <=> n < Len(d))
  BY <1>3, BodyIsPart
<1>6. CASE Chunked(peer.headers)
  <2>1. DecodeChunked(Body) # <<>>
    BY <1>1, <1>6 DEF Response, ParseResponse, None
  <2>2. DecodeChunked(d) = DecodeChunked(Body)
    BY <1>4, <1>5, <2>1, DecodingOfPart
  <2>3. Response = whole
    BY <1>2, <1>6, <2>2 DEF Response, ParseResponse
  <2> QED BY <2>3 DEF Meaning
<1>7. CASE ~Chunked(peer.headers)
  <2>1. Response[1] = [status |-> peer.status, headers |-> peer.headers, body |-> Body]
    BY <1>2, <1>7 DEF Response, ParseResponse
  <2>2. Meaning(peer) = Interpret(peer.user, [status |-> peer.status, headers |-> peer.headers, body |-> d])
    BY <1>2, <1>7 DEF Meaning, Answer, ParseResponse, None
  <2>3. CASE peer.user = "ocsp"
    <3>1. CASE peer.status # 200
      BY <1>1, <2>1, <2>2, <2>3, <3>1 DEF Interpret
    <3>2. CASE peer.status = 200
      <4>1. Answer(peer.user, Response) = ParseStatus(Body) /\ Meaning(peer) = ParseStatus(d)
        BY <1>1, <2>1, <2>2, <2>3, <3>2 DEF Interpret
      <4>2. ParseStatus(d) = ParseStatus(Body)
        BY <1>4, <1>5, <4>1, StatusOfPart
      <4> QED BY <4>1, <4>2
    <3> QED BY <3>1, <3>2
  <2>4. CASE peer.user = "ct"
    <3>1. /\ Answer(peer.user, Response) = CountEntries(Body) /\ CountEntries(Body) # None
          /\ Meaning(peer) = CountEntries(d)
      BY <1>1, <2>1, <2>2, <2>4 DEF Interpret
    <3>2. CASE Trim(Body, AsciiSpace) # <<>>
      <4> DEFINE text == Trim(d, JsonSpace)
      <4>1. text # <<>> /\ text[1] = 91 => \E k \in 0..Len(text) : text = JsonArray(k)
        BY <2>4, CtPeersAssumption
      <4>2. CountEntries(d) = CountEntries(Body)
        BY <1>4, <1>5, <3>1, <3>2, <4>1, ArrayOfPart
      <4> QED BY <3>1, <4>2
    <3>3. CASE Trim(Body, AsciiSpace) = <<>>
      <4>1. CountEntries(Body) = Some([entries |-> 0])
        BY <3>3 DEF CountEntries, Some
      <4>2. CASE n < Len(d)
        BY <1>5, <1>7, <2>4, <3>1, <3>3, <4>1, <4>2
      <4>3. CASE ~(n < Len(d))
        <5>1. n = Len(d)
          BY <1>4, <4>3, LenProperties
        <5>2. Body = d
          BY <1>4, <1>5, <5>1, PartIsWhole
        <5> QED BY <3>1, <5>2
      <4> QED BY <4>2, <4>3
    <3> QED BY <3>2, <3>3
  <2>5. CASE peer.user = "hsts"
    BY <1>1, <2>1, <2>2, <2>5 DEF Interpret
  <2> QED BY <1>4, <2>3, <2>4, <2>5
<1> QED BY <1>6, <1>7

LEMMA NextAnswerInv == TypeOK /\ AnswerInv /\ [Next]_vars => AnswerInv'
<1> SUFFICES ASSUME TypeOK, AnswerInv, [Next]_vars PROVE AnswerInv'
  OBVIOUS
<1>1. ASSUME answer = None, answer' = None, peer' = peer,
             phase' = "reading" /\ peer.scheme = "https" => peer.trusted, phase' # "closed"
      PROVE  AnswerInv'
  BY <1>1 DEF AnswerInv
<1>2. phase \in OnNetwork => answer = None
  BY DEF TypeOK, OnNetwork
<1>3. CASE Connected
  BY <1>1, <1>2, <1>3 DEF Connected, OnNetwork
<1>4. CASE Secured
  BY <1>1, <1>2, <1>4 DEF Secured, OnNetwork
<1>5. CASE Receive
  BY <1>1, <1>2, <1>5 DEF Receive, OnNetwork, AnswerInv
<1>6. CASE Closed
  <2>1. /\ peer' = peer /\ received' = received /\ phase = "reading" /\ phase' = "closed"
        /\ answer' = Answer(peer.user, Response)
    BY <1>6 DEF Closed
  <2>2. peer.scheme = "https" => peer.trusted
    BY <2>1 DEF AnswerInv
  <2>3. ASSUME answer' # None PROVE answer' = Meaning(peer) \/ NothingYet'
    <3>1. \/ answer' = Meaning(peer)
          \/ /\ peer.user = "ct" /\ answer' = Some([entries |-> 0])
             /\ received < Whole /\ ~Chunked(peer.headers) /\ Trim(Body, AsciiSpace) = <<>>
      BY <2>1, <2>3, PartOfResponse DEF TypeOK
    <3>2. Whole' = Whole /\ Body' = Body
      BY <2>1 DEF Whole, Body
    <3> QED BY <2>1, <3>1, <3>2 DEF NothingYet
  <2> QED BY <2>1, <2>2, <2>3 DEF AnswerInv
<1>7. CASE Failed \/ Expired
  BY <1>1, <1>2, <1>7 DEF Failed, Expired
<1>8. CASE Terminated \/ UNCHANGED vars
  BY <1>8 DEF Terminated, vars, AnswerInv, NothingYet, Whole, Body
<1> QED BY <1>3, <1>4, <1>5, <1>6, <1>7, <1>8 DEF Next

\* Whoever asks, however the response is framed and wherever it is cut off:
\* what is reported is what the whole response says, or the exception
\* (ocsp.rs:48-71, ct.rs:34-49, http.rs:97-182).
THEOREM PartsAnswerLikeTheWhole == Spec => []AnswerInv
<1>1. Init => AnswerInv
  BY DEF Init, AnswerInv, None
<1> QED BY <1>1, NextAnswerInv, Typing, PTL DEF Spec

-----------------------------------------------------------------------------
\* The children of an encoding with more behind it: the value encoded, then the
\* children of what is behind.
LEMMA ChildrenOfFront ==
  ASSUME NEW tag \in Octet, NEW w \in Seq(Octet), Encodable(Len(w)), NEW rest \in Seq(Octet)
  PROVE  LET d == Tlv(tag, w) \o rest
             s == Children(d)
             t == Children(rest)
         IN  /\ d \in Seq(Octet) /\ Tlv(tag, w) \in Seq(Octet)
             /\ s \in Seq(Element) /\ t \in Seq(Element)
             /\ Len(t) \in Nat /\ Len(s) = Len(t) + 1
             /\ s[1] = [tag |-> tag, content |-> w] /\ \A i \in 1..Len(t) : s[i + 1] = t[i]
<1> DEFINE e == [tag |-> tag, content |-> w]
           t == Children(rest)
           d == Tlv(tag, w) \o rest
<1>1. Tlv(tag, w) \in Seq(Octet) /\ d \in Seq(Octet)
  <2>1. Tlv(tag, w) \in Seq(Octet)
    BY TlvReads
  <2> QED BY <2>1, ConcatProperties
<1>2. t \in Seq(Element) /\ e \in Element
  BY ChildrenUnfold DEF Element
<1>3. Children(d) = <<e>> \o t
  BY ChildrenOfEncodings
<1> HIDE DEF e, t, d
<1> DEFINE s == <<e>> \o t
<1>4. /\ s \in Seq(Element) /\ Len(s) = Len(t) + 1 /\ Len(t) \in Nat
      /\ s[1] = e /\ \A i \in 1..Len(t) : s[i + 1] = t[i]
  <2> HIDE DEF Element
  <2> QED BY <1>2, PushFront
<1> QED BY <1>1, <1>2, <1>3, <1>4 DEF e, t, d

LEMMA FirstChild ==
  ASSUME NEW tag \in Octet, NEW w \in Seq(Octet), Encodable(Len(w)), NEW rest \in Seq(Octet)
  PROVE  Child(Tlv(tag, w) \o rest, 1) = Some([tag |-> tag, content |-> w])
<1> DEFINE s == Children(Tlv(tag, w) \o rest)
           t == Children(rest)
<1>1. Len(t) \in Nat /\ Len(s) = Len(t) + 1 /\ s[1] = [tag |-> tag, content |-> w]
  BY ChildrenOfFront
<1> HIDE DEF s, t
<1>2. 1 <= Len(s)
  BY <1>1
<1> QED BY <1>1, <1>2 DEF Child, Nth, s

LEMMA LaterChild ==
  ASSUME NEW tag \in Octet, NEW w \in Seq(Octet), Encodable(Len(w)), NEW rest \in Seq(Octet),
         NEW k \in Nat \ {0}
  PROVE  Child(Tlv(tag, w) \o rest, k + 1) = Child(rest, k)
<1> DEFINE s == Children(Tlv(tag, w) \o rest)
           t == Children(rest)
<1>1. Len(t) \in Nat /\ Len(s) = Len(t) + 1 /\ \A i \in 1..Len(t) : s[i + 1] = t[i]
  BY ChildrenOfFront
<1>2. /\ Child(Tlv(tag, w) \o rest, k + 1) = IF k + 1 <= Len(s) THEN Some(s[k + 1]) ELSE None
      /\ Child(rest, k) = IF k <= Len(t) THEN Some(t[k]) ELSE None
  BY DEF Child, Nth
<1> HIDE DEF s, t
<1>3. k + 1 <= Len(s) <=> k <= Len(t)
  BY <1>1
<1> QED BY <1>1, <1>2, <1>3

\* The first plain SEQUENCE, and one behind a value that is none.
LEMMA ResponsesFirst ==
  ASSUME NEW w \in Seq(Octet), Encodable(Len(w)), NEW rest \in Seq(Octet)
  PROVE  Responses(Sequence(w) \o rest) = Some([tag |-> SequenceTag, content |-> w])
<1> DEFINE e == [tag |-> SequenceTag, content |-> w]
           s == Children(Sequence(w) \o rest)
           t == Children(rest)
           plain == {i \in DOMAIN s : s[i].tag = SequenceTag}
<1>1. /\ s \in Seq(Element) /\ Len(t) \in Nat /\ Len(s) = Len(t) + 1 /\ s[1] = e
  <2>1. SequenceTag \in Octet
    BY CodeOctets
  <2>2. Sequence(w) = Tlv(SequenceTag, w)
    BY DEF Sequence
  <2> QED BY <2>1, <2>2, ChildrenOfFront
<1>2. DOMAIN s = 1..Len(s)
  BY <1>1, LenProperties
<1>3. Responses(Sequence(w) \o rest) = IF plain = {} THEN None ELSE Some(s[Min(plain)])
  BY DEF Responses
<1>4. e.tag = SequenceTag
  OBVIOUS
<1> HIDE DEF s, t, e
<1>5. 1 \in plain /\ plain \subseteq Int /\ \A i \in plain : 1 <= i
  BY <1>1, <1>2, <1>4
<1> HIDE DEF plain
<1>6. Min(plain) = 1 /\ plain # {}
  BY <1>5, MinIs
<1> QED BY <1>1, <1>3, <1>6 DEF e

LEMMA ResponsesBehind ==
  ASSUME NEW tag \in Octet, tag # SequenceTag, NEW w \in Seq(Octet), Encodable(Len(w)),
         NEW rest \in Seq(Octet), Responses(rest) # None
  PROVE  Responses(Tlv(tag, w) \o rest) = Responses(rest)
<1> DEFINE e == [tag |-> tag, content |-> w]
           s == Children(Tlv(tag, w) \o rest)
           t == Children(rest)
           P == {i \in DOMAIN s : s[i].tag = SequenceTag}
           Q == {i \in DOMAIN t : t[i].tag = SequenceTag}
<1>1. /\ s \in Seq(Element) /\ t \in Seq(Element) /\ Len(t) \in Nat /\ Len(s) = Len(t) + 1
      /\ s[1] = e /\ \A i \in 1..Len(t) : s[i + 1] = t[i]
  BY ChildrenOfFront
<1>2. DOMAIN s = 1..Len(s) /\ DOMAIN t = 1..Len(t)
  BY <1>1, LenProperties
<1>3. /\ Responses(Tlv(tag, w) \o rest) = IF P = {} THEN None ELSE Some(s[Min(P)])
      /\ Responses(rest) = IF Q = {} THEN None ELSE Some(t[Min(Q)])
  BY DEF Responses
<1>4. e.tag # SequenceTag
  OBVIOUS
<1> HIDE DEF s, t, e
<1>5. Q # {} /\ Q \subseteq Nat
  BY <1>2, <1>3
<1>6. Min(Q) \in Q /\ \A i \in Q : Min(Q) <= i
  <2> HIDE DEF Q
  <2> QED BY <1>5, MinExists
<1> DEFINE q == Min(Q)
<1>7. q \in 1..Len(t) /\ t[q].tag = SequenceTag
      /\ \A i \in 1..Len(t) : t[i].tag = SequenceTag => q <= i
  <2>1. \A i : i \in Q <=> i \in 1..Len(t) /\ t[i].tag = SequenceTag
    BY <1>2
  <2> HIDE DEF Q
  <2> QED BY <1>6, <2>1
<1> HIDE DEF q
<1>8. q + 1 \in P /\ P \subseteq Int /\ s[q + 1] = t[q]
  BY <1>1, <1>2, <1>7
<1>9. ASSUME NEW i \in P PROVE q + 1 <= i
  <2>1. i \in 1..(Len(t) + 1) /\ s[i].tag = SequenceTag
    BY <1>1, <1>2
  <2>2. i # 1
    BY <1>1, <1>4, <2>1
  <2>3. i - 1 \in 1..Len(t) /\ s[(i - 1) + 1] = t[i - 1] /\ (i - 1) + 1 = i
    BY <1>1, <2>1, <2>2
  <2>4. q <= i - 1
    BY <1>7, <2>1, <2>3
  <2> QED BY <1>7, <2>1, <2>4
<1> HIDE DEF P
<1>10. Min(P) = q + 1 /\ P # {}
  BY <1>8, <1>9, MinIs
<1> QED BY <1>3, <1>5, <1>8, <1>10 DEF q

-----------------------------------------------------------------------------
\* An OCSP response as RFC 6960 has it, with everything in it that the code
\* passes over left open.
Other == {e \in Element : e.tag # SequenceTag}
Parts == [id : Seq(Octet), status : Element, more : Seq(Octet), others : Seq(Octet),
          version : {None} \cup {Some(e) : e \in Other}, responder : Other, time : Other,
          extensions : Seq(Octet), signature : Seq(Octet), oid : Seq(Octet), beyond : Seq(Octet)]

\* An encoding and what is behind it.
Before(tag, content, rest) == Tlv(tag, content) \o rest

SingleResponse(p) == Before(SequenceTag, p.id, Before(p.status.tag, p.status.content, p.more))
ResponseList(p) == Before(SequenceTag, SingleResponse(p), p.others)
Known(p) ==
  Before(p.responder.tag, p.responder.content,
         Before(p.time.tag, p.time.content, Before(SequenceTag, ResponseList(p), p.extensions)))
ResponseData(p) ==
  IF p.version = None THEN Known(p)
  ELSE Before(p.version[1].tag, p.version[1].content, Known(p))
BasicResponse(p) == Before(SequenceTag, ResponseData(p), p.signature)
ResponseBytes(p) == Before(6, p.oid, Before(OctetStringTag, Sequence(BasicResponse(p)), p.beyond))
Outermost(p) == Before(EnumeratedTag, <<0>>, Before(160, Sequence(ResponseBytes(p)), <<>>))
OcspResponse(p) == Sequence(Outermost(p))

\* If an encoding can be told the length of, its parts can.
LEMMA BeforeIsLonger ==
  ASSUME NEW tag \in Nat, NEW w \in Seq(Nat), NEW rest \in Seq(Nat)
  PROVE  /\ Before(tag, w, rest) \in Seq(Nat)
         /\ Encodable(Len(Before(tag, w, rest))) => Encodable(Len(w)) /\ Encodable(Len(rest))
<1> DEFINE t == Tlv(tag, w)
           d == t \o rest
<1>1. t \in Seq(Nat) /\ Len(t) \in Nat /\ Len(w) \in 0..Len(t)
  BY TlvIsLonger
<1> HIDE DEF t
<1>2. d \in Seq(Nat) /\ Len(d) = Len(t) + Len(rest) /\ Len(rest) \in Nat
  BY <1>1, ConcatProperties, LenProperties
<1>3. Before(tag, w, rest) = d
  BY DEF Before, t
<1> HIDE DEF d
<1> DEFINE x == Len(w)
           y == Len(rest)
           z == Len(d)
<1>4. z \in Nat /\ x \in 0..z /\ y \in 0..z
  BY <1>1, <1>2
<1> HIDE DEF x, y, z
<1>5. Encodable(z) => Encodable(x) /\ Encodable(y)
  BY <1>4, ShorterIsEncodable
<1> QED BY <1>2, <1>3, <1>5 DEF x, y, z

LEMMA SequenceIsLonger ==
  ASSUME NEW w \in Seq(Nat)
  PROVE  Sequence(w) \in Seq(Nat) /\ (Encodable(Len(Sequence(w))) => Encodable(Len(w)))
<1>1. SequenceTag \in Nat
  BY CodeOctets
<1>2. Sequence(w) \in Seq(Nat) /\ Len(Sequence(w)) \in Nat /\ Len(w) \in 0..Len(Sequence(w))
  BY <1>1, TlvIsLonger DEF Sequence
<1> HIDE DEF Sequence
<1> QED BY <1>2, ShorterIsEncodable

\* In a response that any length octets can tell the length of, every part of
\* it has a length they can tell.
LEMMA ResponseFits ==
  ASSUME NEW p \in Parts, Encodable(Len(Outermost(p)))
  PROVE  /\ Encodable(Len(p.id)) /\ Encodable(Len(p.status.content))
         /\ Encodable(Len(SingleResponse(p))) /\ Encodable(Len(ResponseList(p)))
         /\ Encodable(Len(p.responder.content)) /\ Encodable(Len(p.time.content))
         /\ p.version # None => Encodable(Len(p.version[1].content))
         /\ Encodable(Len(ResponseData(p))) /\ Encodable(Len(BasicResponse(p)))
         /\ Encodable(Len(p.oid)) /\ Encodable(Len(Sequence(BasicResponse(p))))
         /\ Encodable(Len(ResponseBytes(p))) /\ Encodable(Len(Sequence(ResponseBytes(p))))
         /\ Encodable(Len(<<0>>))
<1>1. Octet \subseteq Nat /\ SequenceTag \in Nat /\ OctetStringTag \in Nat /\ EnumeratedTag \in Nat
  BY CodeOctets DEF EnumeratedTag
<1>2. \A s \in Seq(Octet) : s \in Seq(Nat)
  BY <1>1, SeqMonotonic
<1>3. \A e \in Element : e.tag \in Nat /\ e.content \in Seq(Nat)
  BY <1>1, <1>2 DEF Element
<1>4. /\ p.id \in Seq(Nat) /\ p.more \in Seq(Nat) /\ p.others \in Seq(Nat) /\ p.extensions \in Seq(Nat)
      /\ p.signature \in Seq(Nat) /\ p.oid \in Seq(Nat) /\ p.beyond \in Seq(Nat)
  BY <1>2 DEF Parts
<1>5. /\ p.status.tag \in Nat /\ p.status.content \in Seq(Nat)
      /\ p.responder.tag \in Nat /\ p.responder.content \in Seq(Nat)
      /\ p.time.tag \in Nat /\ p.time.content \in Seq(Nat)
  BY <1>3 DEF Parts, Other
<1>6. p.version # None => p.version[1].tag \in Nat /\ p.version[1].content \in Seq(Nat)
  <2> SUFFICES ASSUME p.version # None
               PROVE  p.version[1].tag \in Nat /\ p.version[1].content \in Seq(Nat)
    OBVIOUS
  <2>1. PICK e \in Other : p.version = Some(e)
    BY DEF Parts
  <2>2. p.version[1] \in Element
    BY <2>1, SomeIsNotNone DEF Other
  <2> QED BY <1>3, <2>2
<1> DEFINE s1 == Before(p.status.tag, p.status.content, p.more)
           s2 == SingleResponse(p)
           s3 == ResponseList(p)
           k1 == Before(SequenceTag, s3, p.extensions)
           k2 == Before(p.time.tag, p.time.content, k1)
           k3 == Known(p)
           s4 == ResponseData(p)
           s5 == BasicResponse(p)
           s6 == Sequence(s5)
           s7 == Before(OctetStringTag, s6, p.beyond)
           s8 == ResponseBytes(p)
           s9 == Sequence(s8)
           s10 == Before(160, s9, <<>>)
           s11 == Outermost(p)
<1>7. /\ s2 = Before(SequenceTag, p.id, s1) /\ s3 = Before(SequenceTag, s2, p.others)
      /\ k3 = Before(p.responder.tag, p.responder.content, k2)
      /\ s4 = IF p.version = None THEN k3 ELSE Before(p.version[1].tag, p.version[1].content, k3)
      /\ s5 = Before(SequenceTag, s4, p.signature) /\ s8 = Before(6, p.oid, s7)
      /\ s11 = Before(EnumeratedTag, <<0>>, s10)
  BY DEF SingleResponse, ResponseList, Known, ResponseData, BasicResponse, ResponseBytes, Outermost
<1> HIDE DEF s2, s3, k3, s4, s5, s8, s11
<1>8. s1 \in Seq(Nat) /\ (Encodable(Len(s1)) => Encodable(Len(p.status.content)))
  BY <1>4, <1>5, BeforeIsLonger
<1> HIDE DEF s1
<1>9. s2 \in Seq(Nat) /\ (Encodable(Len(s2)) => Encodable(Len(p.id)) /\ Encodable(Len(s1)))
  BY <1>1, <1>4, <1>7, <1>8, BeforeIsLonger
<1>10. s3 \in Seq(Nat) /\ (Encodable(Len(s3)) => Encodable(Len(s2)))
  BY <1>1, <1>4, <1>7, <1>9, BeforeIsLonger
<1>11. k1 \in Seq(Nat) /\ (Encodable(Len(k1)) => Encodable(Len(s3)))
  BY <1>1, <1>4, <1>10, BeforeIsLonger
<1> HIDE DEF k1
<1>12. k2 \in Seq(Nat) /\ (Encodable(Len(k2)) => Encodable(Len(p.time.content)) /\ Encodable(Len(k1)))
  BY <1>5, <1>11, BeforeIsLonger
<1> HIDE DEF k2
<1>13. k3 \in Seq(Nat) /\ (Encodable(Len(k3)) => Encodable(Len(p.responder.content)) /\ Encodable(Len(k2)))
  BY <1>5, <1>7, <1>12, BeforeIsLonger
<1>14. s4 \in Seq(Nat)
       /\ (Encodable(Len(s4)) => /\ Encodable(Len(k3))
                                 /\ p.version # None => Encodable(Len(p.version[1].content)))
  <2>1. CASE p.version = None
    BY <1>7, <1>13, <2>1
  <2>2. CASE p.version # None
    BY <1>6, <1>7, <1>13, <2>2, BeforeIsLonger
  <2> QED BY <2>1, <2>2
<1>15. s5 \in Seq(Nat) /\ (Encodable(Len(s5)) => Encodable(Len(s4)))
  BY <1>1, <1>4, <1>7, <1>14, BeforeIsLonger
<1>16. s6 \in Seq(Nat) /\ (Encodable(Len(s6)) => Encodable(Len(s5)))
  BY <1>15, SequenceIsLonger
<1> HIDE DEF s6
<1>17. s7 \in Seq(Nat) /\ (Encodable(Len(s7)) => Encodable(Len(s6)))
  BY <1>1, <1>4, <1>16, BeforeIsLonger
<1> HIDE DEF s7
<1>18. s8 \in Seq(Nat) /\ (Encodable(Len(s8)) => Encodable(Len(p.oid)) /\ Encodable(Len(s7)))
  BY <1>4, <1>7, <1>17, BeforeIsLonger
<1>19. s9 \in Seq(Nat) /\ (Encodable(Len(s9)) => Encodable(Len(s8)))
  BY <1>18, SequenceIsLonger
<1> HIDE DEF s9
<1>20. s10 \in Seq(Nat) /\ (Encodable(Len(s10)) => Encodable(Len(s9)))
  <2> DEFINE e == <<>>
             t == 160
  <2>1. e \in Seq(Nat) /\ t \in Nat
    BY EmptySeq
  <2>2. s10 = Before(t, s9, e)
    OBVIOUS
  <2> HIDE DEF e, t, s10
  <2> QED BY <1>19, <2>1, <2>2, BeforeIsLonger
<1> HIDE DEF s10
<1>21. Encodable(Len(s11)) => Encodable(Len(<<0>>)) /\ Encodable(Len(s10))
  <2>1. <<0>> \in Seq(Nat)
    OBVIOUS
  <2> QED BY <1>1, <1>7, <1>20, <2>1, BeforeIsLonger
<1>22. Encodable(Len(s11))
  BY DEF s11
<1>23. /\ Encodable(Len(s10)) /\ Encodable(Len(s9)) /\ Encodable(Len(s8)) /\ Encodable(Len(s7))
       /\ Encodable(Len(s6)) /\ Encodable(Len(s5)) /\ Encodable(Len(s4)) /\ Encodable(Len(k3))
       /\ Encodable(Len(k2)) /\ Encodable(Len(k1)) /\ Encodable(Len(s3)) /\ Encodable(Len(s2))
       /\ Encodable(Len(s1)) /\ Encodable(Len(<<0>>))
  BY <1>9, <1>10, <1>11, <1>12, <1>13, <1>14, <1>15, <1>16, <1>17, <1>18, <1>19, <1>20, <1>21, <1>22
<1>24. /\ Encodable(Len(p.id)) /\ Encodable(Len(p.status.content))
       /\ Encodable(Len(p.responder.content)) /\ Encodable(Len(p.time.content))
       /\ p.version # None => Encodable(Len(p.version[1].content))
       /\ Encodable(Len(p.oid))
  BY <1>8, <1>9, <1>12, <1>13, <1>14, <1>18, <1>23
<1> QED BY <1>23, <1>24 DEF s2, s3, s4, s5, s6, s8, s9

\* A response of that form is read as a sequence of octets, and the ways down
\* its parts lead where the code goes.
LEMMA BeforeIsRead ==
  ASSUME NEW tag \in Octet, NEW w \in Seq(Octet), Encodable(Len(w)), NEW rest \in Seq(Octet)
  PROVE  /\ Before(tag, w, rest) \in Seq(Octet)
         /\ Child(Before(tag, w, rest), 1) = Some([tag |-> tag, content |-> w])
         /\ Child(Before(tag, w, rest), 2) = Child(rest, 1)
<1>1. Tlv(tag, w) \in Seq(Octet)
  BY TlvReads
<1>2. Before(tag, w, rest) = Tlv(tag, w) \o rest
  BY DEF Before
<1>3. Tlv(tag, w) \o rest \in Seq(Octet)
  BY <1>1, ConcatProperties
<1>4. Child(Tlv(tag, w) \o rest, 1) = Some([tag |-> tag, content |-> w])
  BY FirstChild
<1>5. Child(Tlv(tag, w) \o rest, 2) = Child(rest, 1)
  <2>1. 1 \in Nat \ {0} /\ 1 + 1 = 2
    OBVIOUS
  <2> QED BY <2>1, LaterChild
<1> QED BY <1>2, <1>3, <1>4, <1>5

LEMMA SequenceIsRead ==
  ASSUME NEW w \in Seq(Octet), Encodable(Len(w))
  PROVE  Sequence(w) \in Seq(Octet) /\ Child(Sequence(w), 1) = Some([tag |-> SequenceTag, content |-> w])
BY CodeOctets, OnlyChild DEF Sequence

\* The responses of a response's data are found behind everything else, with a
\* version in front or without.
LEMMA DataIsRead ==
  ASSUME NEW p \in Parts, Encodable(Len(Outermost(p)))
  PROVE  /\ SingleResponse(p) \in Seq(Octet) /\ ResponseList(p) \in Seq(Octet)
         /\ ResponseData(p) \in Seq(Octet)
         /\ Responses(ResponseData(p)) = Some([tag |-> SequenceTag, content |-> ResponseList(p)])
         /\ Child(ResponseList(p), 1) = Some([tag |-> SequenceTag, content |-> SingleResponse(p)])
         /\ Child(SingleResponse(p), 2) = Some(p.status)
<1>1. /\ Encodable(Len(p.id)) /\ Encodable(Len(p.status.content))
      /\ Encodable(Len(SingleResponse(p))) /\ Encodable(Len(ResponseList(p)))
      /\ Encodable(Len(p.responder.content)) /\ Encodable(Len(p.time.content))
      /\ p.version # None => Encodable(Len(p.version[1].content))
  BY ResponseFits
<1>2. /\ p.id \in Seq(Octet) /\ p.more \in Seq(Octet) /\ p.others \in Seq(Octet)
      /\ p.extensions \in Seq(Octet) /\ SequenceTag \in Octet
  BY CodeOctets DEF Parts
<1>3. /\ p.status.tag \in Octet /\ p.status.content \in Seq(Octet)
      /\ p.status = [tag |-> p.status.tag, content |-> p.status.content]
      /\ p.responder.tag \in Octet /\ p.responder.content \in Seq(Octet) /\ p.responder.tag # SequenceTag
      /\ p.time.tag \in Octet /\ p.time.content \in Seq(Octet) /\ p.time.tag # SequenceTag
  BY DEF Parts, Other, Element
<1> DEFINE s1 == Before(p.status.tag, p.status.content, p.more)
           s2 == SingleResponse(p)
           s3 == ResponseList(p)
           k1 == Before(SequenceTag, s3, p.extensions)
           k2 == Before(p.time.tag, p.time.content, k1)
           k3 == Known(p)
           found == Some([tag |-> SequenceTag, content |-> s3])
<1>4. /\ s2 = Before(SequenceTag, p.id, s1) /\ s3 = Before(SequenceTag, s2, p.others)
      /\ k3 = Before(p.responder.tag, p.responder.content, k2)
      /\ ResponseData(p) = IF p.version = None THEN k3
                           ELSE Before(p.version[1].tag, p.version[1].content, k3)
  BY DEF SingleResponse, ResponseList, Known, ResponseData
<1> HIDE DEF s2, s3, k3
<1>5. s1 \in Seq(Octet) /\ Child(s1, 1) = Some(p.status)
  BY <1>1, <1>2, <1>3, BeforeIsRead
<1> HIDE DEF s1
<1>6. s2 \in Seq(Octet) /\ Child(s2, 2) = Some(p.status) /\ Encodable(Len(s2)) /\ Encodable(Len(s3))
  <2>1. s2 \in Seq(Octet) /\ Child(s2, 2) = Child(s1, 1)
    BY <1>1, <1>2, <1>4, <1>5, BeforeIsRead
  <2> QED BY <1>1, <1>5, <2>1 DEF s2, s3
<1>7. s3 \in Seq(Octet) /\ Child(s3, 1) = Some([tag |-> SequenceTag, content |-> s2])
  BY <1>2, <1>4, <1>6, BeforeIsRead
<1>8. ASSUME NEW tag \in Octet, tag # SequenceTag, NEW w \in Seq(Octet), Encodable(Len(w)),
             NEW rest \in Seq(Octet), Responses(rest) = found
      PROVE  Before(tag, w, rest) \in Seq(Octet) /\ Responses(Before(tag, w, rest)) = found
  <2>1. Before(tag, w, rest) \in Seq(Octet)
    BY <1>8, BeforeIsRead
  <2>2. Responses(rest) # None
    BY <1>8, SomeIsNotNone
  <2>3. Responses(Tlv(tag, w) \o rest) = found
    BY <1>8, <2>2, ResponsesBehind
  <2> QED BY <2>1, <2>3 DEF Before
<1>9. k1 \in Seq(Octet) /\ Responses(k1) = found
  <2>1. k1 \in Seq(Octet)
    BY <1>2, <1>6, <1>7, BeforeIsRead
  <2>2. Responses(Sequence(s3) \o p.extensions) = found
    BY <1>2, <1>6, <1>7, ResponsesFirst
  <2> QED BY <2>1, <2>2 DEF Before, Sequence
<1> HIDE DEF k1, found
<1>10. k2 \in Seq(Octet) /\ Responses(k2) = found
  BY <1>1, <1>3, <1>8, <1>9
<1> HIDE DEF k2
<1>11. k3 \in Seq(Octet) /\ Responses(k3) = found
  BY <1>1, <1>3, <1>4, <1>8, <1>10
<1>12. ResponseData(p) \in Seq(Octet) /\ Responses(ResponseData(p)) = found
  <2>1. CASE p.version = None
    BY <1>4, <1>11, <2>1
  <2>2. CASE p.version # None
    <3>1. PICK e \in Other : p.version = Some(e)
      BY <2>2 DEF Parts
    <3>2. p.version[1] = e
      BY <3>1, SomeIsNotNone
    <3>3. e.tag \in Octet /\ e.content \in Seq(Octet) /\ e.tag # SequenceTag /\ Encodable(Len(e.content))
      BY <1>1, <2>2, <3>2 DEF Other, Element
    <3> QED BY <1>4, <1>8, <1>11, <2>2, <3>2, <3>3
  <2> QED BY <2>1, <2>2
<1> QED BY <1>6, <1>7, <1>12 DEF s2, s3, found

\* A way down is gone child by child.
LEMMA WayDown ==
  ASSUME NEW c \in Seq(Octet), NEW path \in Seq(Nat \ {0}), path # <<>>, NEW e,
         Child(c, path[1]) = Some(e[1]),
         \A i \in 1..(Len(path) - 1) : Child(e[i].content, path[i + 1]) = Some(e[i + 1])
  PROVE  Descend(c, path) = Some(e[Len(path)])
<1> DEFINE n == Len(path)
<1>1. PICK at \in [0..n -> MayBe] :
        /\ at[0] = Some([tag |-> 0, content |-> c])
        /\ \A i \in 1..n : at[i] = IF at[i - 1] = None THEN None
                                    ELSE Child(at[i - 1][1].content, path[i])
        /\ Descend(c, path) = at[n]
  BY DescendRecursion
<1>2. n \in Nat \ {0}
  BY EmptySeq
<1>3. at[1] = Some(e[1])
  <2>1. 1 \in 1..n /\ at[1 - 1] # None /\ at[1 - 1][1].content = c
    BY <1>1, <1>2, SomeIsNotNone
  <2> QED BY <1>1, <2>1
<1>4. ASSUME NEW i \in 1..(n - 1), at[i] = Some(e[i])
      PROVE  at[i + 1] = Some(e[i + 1])
  <2>1. i + 1 \in 1..n /\ (i + 1) - 1 = i /\ at[i] # None /\ at[i][1] = e[i]
    BY <1>2, <1>4, SomeIsNotNone
  <2>2. at[i + 1] = Child(e[i].content, path[i + 1])
    BY <1>1, <2>1
  <2> QED BY <2>2
<1> DEFINE T == {k \in Nat : k + 1 \in 1..n => at[k + 1] = Some(e[k + 1])}
<1> HIDE DEF n
<1>5. 0 \in T
  BY <1>3
<1>6. ASSUME NEW k \in Nat, k \in T PROVE k + 1 \in T
  <2> SUFFICES ASSUME (k + 1) + 1 \in 1..n PROVE at[(k + 1) + 1] = Some(e[(k + 1) + 1])
    OBVIOUS
  <2>1. k + 1 \in 1..(n - 1) /\ k + 1 \in 1..n
    BY <1>2
  <2>2. at[k + 1] = Some(e[k + 1])
    BY <1>6, <2>1
  <2> QED BY <1>4, <2>1, <2>2
<1>7. n - 1 \in T
  <2>1. n - 1 \in Nat
    BY <1>2
  <2> HIDE DEF T
  <2> QED BY <1>5, <1>6, <2>1, SetInduction
<1>8. at[n] = Some(e[n])
  <2>1. (n - 1) + 1 = n /\ n \in 1..n
    BY <1>2
  <2> QED BY <1>7, <2>1
<1> QED BY <1>1, <1>8 DEF n

\* Of every response of that form parse_status finds the status, wherever the
\* lengths of its parts leave it.
LEMMA StatusIsFound ==
  ASSUME NEW p \in Parts, Encodable(Len(Outermost(p)))
  PROVE  ParseStatus(OcspResponse(p)) = Some(CertStatus(p.status.tag))
<1> DEFINE top == Outermost(p)
           d == OcspResponse(p)
           s4 == ResponseData(p)
           s5 == BasicResponse(p)
           s6 == Sequence(s5)
           s7 == Before(OctetStringTag, s6, p.beyond)
           s8 == ResponseBytes(p)
           s9 == Sequence(s8)
           oidTag == 6
           empty == <<>>
           zero == <<0>>
           s10 == Before(160, s9, empty)
           Tagged(tag, x) == [tag |-> tag, content |-> x]
<1>1. /\ Encodable(Len(s4)) /\ Encodable(Len(s5)) /\ Encodable(Len(s6)) /\ Encodable(Len(s8))
      /\ Encodable(Len(s9)) /\ Encodable(Len(p.oid)) /\ Encodable(Len(zero)) /\ Encodable(Len(top))
  BY ResponseFits
<1>2. /\ SequenceTag \in Octet /\ OctetStringTag \in Octet /\ EnumeratedTag \in Octet
      /\ oidTag \in Octet /\ 160 \in Octet /\ zero \in Seq(Octet) /\ empty \in Seq(Octet)
  BY CodeOctets DEF EnumeratedTag
<1>3. p.signature \in Seq(Octet) /\ p.oid \in Seq(Octet) /\ p.beyond \in Seq(Octet)
  BY DEF Parts
<1>4. /\ SingleResponse(p) \in Seq(Octet) /\ ResponseList(p) \in Seq(Octet) /\ s4 \in Seq(Octet)
      /\ Responses(s4) = Some([tag |-> SequenceTag, content |-> ResponseList(p)])
      /\ Child(ResponseList(p), 1) = Some([tag |-> SequenceTag, content |-> SingleResponse(p)])
      /\ Child(SingleResponse(p), 2) = Some(p.status)
  BY DataIsRead
<1>5. /\ s5 = Before(SequenceTag, s4, p.signature) /\ s8 = Before(oidTag, p.oid, s7)
      /\ top = Before(EnumeratedTag, zero, s10) /\ d = Sequence(top)
  BY DEF BasicResponse, ResponseBytes, Outermost, OcspResponse
<1>6. zero # <<>> /\ zero[1] = 0
  OBVIOUS
<1> HIDE DEF s4, s5, s8, top, d, oidTag, empty, zero
<1>7. s5 \in Seq(Octet) /\ Child(s5, 1) = Some(Tagged(SequenceTag, s4))
  BY <1>1, <1>2, <1>3, <1>4, <1>5, BeforeIsRead
<1>8. s6 \in Seq(Octet) /\ Child(s6, 1) = Some(Tagged(SequenceTag, s5))
  BY <1>1, <1>7, SequenceIsRead
<1> HIDE DEF s6
<1>9. s7 \in Seq(Octet) /\ Child(s7, 1) = Some(Tagged(OctetStringTag, s6))
  BY <1>1, <1>2, <1>3, <1>8, BeforeIsRead
<1> HIDE DEF s7
<1>10. s8 \in Seq(Octet) /\ Child(s8, 2) = Some(Tagged(OctetStringTag, s6))
  <2> DEFINE t == Before(oidTag, p.oid, s7)
             c == Child(s7, 1)
  <2>1. oidTag \in Octet /\ p.oid \in Seq(Octet) /\ Encodable(Len(p.oid)) /\ s7 \in Seq(Octet)
    BY <1>1, <1>2, <1>3, <1>9
  <2>2. t \in Seq(Octet) /\ Child(t, 2) = c
    BY <2>1, BeforeIsRead
  <2> HIDE DEF t
  <2>3. s8 = t
    BY <1>5 DEF t
  <2> QED BY <1>9, <2>2, <2>3
<1>11. s9 \in Seq(Octet) /\ Child(s9, 1) = Some(Tagged(SequenceTag, s8))
  BY <1>1, <1>10, SequenceIsRead
<1> HIDE DEF s9
<1>12. s10 \in Seq(Octet) /\ Child(s10, 1) = Some(Tagged(160, s9))
  BY <1>1, <1>2, <1>11, BeforeIsRead
<1> HIDE DEF s10
<1>13. /\ top \in Seq(Octet) /\ Child(top, 1) = Some(Tagged(EnumeratedTag, zero))
       /\ Child(top, 2) = Some(Tagged(160, s9))
  BY <1>1, <1>2, <1>5, <1>12, BeforeIsRead
<1>14. Readable(d) /\ Content(d) = top
  BY <1>1, <1>2, <1>5, <1>13, TlvReads DEF Sequence
<1>15. Descend(top, <<1>>) = Some(Tagged(EnumeratedTag, zero))
  <2> DEFINE path == <<1>>
             e == <<Tagged(EnumeratedTag, zero)>>
  <2>1. path \in Seq(Nat \ {0}) /\ path # <<>> /\ Len(path) = 1 /\ path[1] = 1
        /\ e[1] = Tagged(EnumeratedTag, zero)
    OBVIOUS
  <2> HIDE DEF path, e, Tagged
  <2>2. ASSUME NEW i \in 1..(Len(path) - 1) PROVE Child(e[i].content, path[i + 1]) = Some(e[i + 1])
    BY <2>1
  <2>3. Descend(top, path) = Some(e[Len(path)])
    BY <1>13, <2>1, <2>2, WayDown
  <2> QED BY <2>1, <2>3 DEF path
<1>16. Descend(top, <<2, 1, 2, 1, 1>>) = Some(Tagged(SequenceTag, s4))
  <2> DEFINE path == <<2, 1, 2, 1, 1>>
             e == <<Tagged(160, s9), Tagged(SequenceTag, s8), Tagged(OctetStringTag, s6),
                    Tagged(SequenceTag, s5), Tagged(SequenceTag, s4)>>
  <2>1. /\ path \in Seq(Nat \ {0}) /\ path # <<>> /\ Len(path) = 5
        /\ path[1] = 2 /\ path[2] = 1 /\ path[3] = 2 /\ path[4] = 1 /\ path[5] = 1
    OBVIOUS
  <2>2. /\ e[1].content = s9 /\ e[2].content = s8 /\ e[3].content = s6 /\ e[4].content = s5
        /\ e[1] = Tagged(160, s9) /\ e[2] = Tagged(SequenceTag, s8)
        /\ e[3] = Tagged(OctetStringTag, s6) /\ e[4] = Tagged(SequenceTag, s5)
        /\ e[5] = Tagged(SequenceTag, s4)
    OBVIOUS
  <2> HIDE DEF path, e, Tagged
  <2>3. ASSUME NEW i \in 1..4 PROVE Child(e[i].content, path[i + 1]) = Some(e[i + 1])
    <3>1. CASE i = 1
      BY <1>11, <2>1, <2>2, <3>1
    <3>2. CASE i = 2
      BY <1>10, <2>1, <2>2, <3>2
    <3>3. CASE i = 3
      BY <1>8, <2>1, <2>2, <3>3
    <3>4. CASE i = 4
      BY <1>7, <2>1, <2>2, <3>4
    <3> QED BY <3>1, <3>2, <3>3, <3>4
  <2>4. Child(top, path[1]) = Some(e[1]) /\ Len(path) - 1 = 4
    BY <1>13, <2>1, <2>2
  <2>5. Descend(top, path) = Some(e[5])
    BY <1>13, <2>1, <2>3, <2>4, WayDown
  <2> QED BY <2>2, <2>5 DEF path
<1> DEFINE list == ResponseList(p)
           single == SingleResponse(p)
<1>17. Descend(list, <<1, 2>>) = Some(p.status)
  <2> DEFINE path == <<1, 2>>
             e == <<Tagged(SequenceTag, single), p.status>>
  <2>1. path \in Seq(Nat \ {0}) /\ path # <<>> /\ Len(path) = 2 /\ path[1] = 1 /\ path[2] = 2
    OBVIOUS
  <2>2. e[1].content = single /\ e[1] = Tagged(SequenceTag, single) /\ e[2] = p.status
    OBVIOUS
  <2>3. list \in Seq(Octet) /\ Child(list, 1) = Some(Tagged(SequenceTag, single)) /\ Child(single, 2) = Some(p.status)
    BY <1>4
  <2> HIDE DEF path, e, Tagged, list, single
  <2>4. \A i \in 1..1 : Child(e[i].content, path[i + 1]) = Some(e[i + 1])
    BY <2>1, <2>2, <2>3
  <2>5. Child(list, path[1]) = Some(e[1]) /\ Len(path) - 1 = 1
    BY <2>1, <2>2, <2>3
  <2>6. Descend(list, path) = Some(e[2])
    BY <2>1, <2>3, <2>4, <2>5, WayDown
  <2> QED BY <2>2, <2>6 DEF path
<1>18. Successful(Tagged(EnumeratedTag, zero))
  BY <1>6 DEF Successful
<1>19. Responses(s4) = Some(Tagged(SequenceTag, list))
  BY <1>4
<1>20. \A tag, x : Tagged(tag, x).content = x
  OBVIOUS
<1> HIDE DEF list, Tagged
<1>21. ParseStatus(d) = Some(CertStatus(p.status.tag))
  <2> DEFINE status == Descend(top, <<1>>)
             data == Descend(top, <<2, 1, 2, 1, 1>>)
             responses == IF data = None THEN None ELSE Responses(data[1].content)
             certStatus == IF responses = None THEN None
                           ELSE Descend(responses[1].content, <<1, 2>>)
  <2>1. status # None /\ Successful(status[1])
    BY <1>15, <1>18, SomeIsNotNone
  <2>2. data # None /\ data[1].content = s4
    BY <1>16, <1>20, SomeIsNotNone
  <2> HIDE DEF data
  <2>3. responses = Some(Tagged(SequenceTag, list))
    BY <1>19, <2>2
  <2> HIDE DEF responses
  <2>4. responses # None /\ responses[1].content = list
    BY <1>20, <2>3, SomeIsNotNone
  <2>5. certStatus = Some(p.status)
    BY <1>17, <2>4
  <2>6. certStatus # None /\ certStatus[1] = p.status
    BY <2>5, SomeIsNotNone
  <2>7. ParseStatus(d) =
          CASE ~Readable(d) \/ status = None -> None
            [] OTHER -> IF ~Successful(status[1]) THEN Some([status |-> "Responder error"])
                        ELSE IF certStatus = None THEN None
                        ELSE Some(CertStatus(certStatus[1].tag))
    BY <1>14 DEF ParseStatus, data, responses
  <2> HIDE DEF status, certStatus
  <2> QED BY <1>14, <2>1, <2>6, <2>7
<1> QED BY <1>21 DEF d

\* Whatever a responder puts into the parts of its response that the code
\* passes over, and wherever the response is cut off: if a status is reported
\* it is the one of the first single response (ocsp.rs:48-71, 129-172).
THEOREM StatusIsTheResponders ==
  Spec => [](\A p \in Parts :
               /\ Encodable(Len(Outermost(p)))
               /\ peer.user = "ocsp" /\ peer.status = 200 /\ ~Chunked(peer.headers)
               /\ peer.body = OcspResponse(p) /\ answer # None
               => answer = Some(CertStatus(p.status.tag)))
<1> DEFINE Reported == \A p \in Parts :
                         /\ Encodable(Len(Outermost(p)))
                         /\ peer.user = "ocsp" /\ peer.status = 200 /\ ~Chunked(peer.headers)
                         /\ peer.body = OcspResponse(p) /\ answer # None
                         => answer = Some(CertStatus(p.status.tag))
<1>1. AnswerInv => Reported
  <2> SUFFICES ASSUME AnswerInv, NEW p \in Parts, Encodable(Len(Outermost(p))),
                      peer.user = "ocsp", peer.status = 200, ~Chunked(peer.headers),
                      peer.body = OcspResponse(p), answer # None
               PROVE  answer = Some(CertStatus(p.status.tag))
    OBVIOUS
  <2>1. answer = Meaning(peer)
    BY DEF AnswerInv, NothingYet
  <2>2. Meaning(peer) = ParseStatus(peer.body)
    BY DEF Meaning, Answer, ParseResponse, Interpret, None, NoStatus
  <2> QED BY <2>1, <2>2, StatusIsFound
<1> QED BY <1>1, PartsAnswerLikeTheWhole, PTL

-----------------------------------------------------------------------------
\* When an end of line is the first, and when there is none.
LEMMA CrlfFound ==
  ASSUME NEW d \in Seq(Octet), NEW i \in 1..(Len(d) + 1), NEW m \in i..(Len(d) - 1),
         d[m] = CR, d[m + 1] = LF, \A j \in i..(m - 1) : ~(d[j] = CR /\ d[j + 1] = LF)
  PROVE  Crlf(d, i) = m
<1> DEFINE at == {j \in i..(Len(d) - 1) : d[j] = CR /\ d[j + 1] = LF}
<1>1. Len(d) \in Nat
  BY LenProperties
<1>2. m \in at /\ at \subseteq Int
  BY <1>1
<1>3. ASSUME NEW j \in at PROVE m <= j
  <2>1. j \in i..(Len(d) - 1) /\ d[j] = CR /\ d[j + 1] = LF
    OBVIOUS
  <2> QED BY <1>1, <2>1
<1>4. Crlf(d, i) = IF at = {} THEN 0 ELSE Min(at)
  BY DEF Crlf
<1> HIDE DEF at
<1>5. Min(at) = m
  BY <1>2, <1>3, MinIs
<1> QED BY <1>2, <1>4, <1>5

LEMMA CrlfNone ==
  ASSUME NEW d \in Seq(Octet), NEW i \in 1..(Len(d) + 1), Crlf(d, i) = 0,
         NEW j \in i..(Len(d) - 1)
  PROVE  ~(d[j] = CR /\ d[j + 1] = LF)
<1> DEFINE at == {k \in i..(Len(d) - 1) : d[k] = CR /\ d[k + 1] = LF}
<1> SUFFICES ASSUME d[j] = CR, d[j + 1] = LF PROVE FALSE
  OBVIOUS
<1>1. Len(d) \in Nat
  BY LenProperties
<1>2. j \in at /\ at \subseteq Nat \ {0}
  BY <1>1
<1>3. Crlf(d, i) = IF at = {} THEN 0 ELSE Min(at)
  BY DEF Crlf
<1> HIDE DEF at
<1>4. Min(at) \in at
  BY <1>2, MinExists
<1> QED BY <1>2, <1>3, <1>4

\* From some octet on, lines end where they end in the whole.
LEMMA CrlfShifts ==
  ASSUME NEW d \in Seq(Octet), NEW k \in 1..(Len(d) + 1), NEW i \in 1..(Len(d) + 2 - k)
  PROVE  LET e == From(d, k)
             j == i + k - 1
         IN  IF Crlf(e, i) = 0 THEN Crlf(d, j) = 0 ELSE Crlf(d, j) = Crlf(e, i) + k - 1
<1> DEFINE e == From(d, k)
           j == i + k - 1
           n == Len(d)
           l == Len(e)
<1>1. /\ n \in Nat /\ e \in Seq(Octet) /\ l = n + 1 - k
      /\ \A q \in 1..l : e[q] = d[q + k - 1]
  <2>1. /\ e \in Seq(Octet) /\ l = n + 1 - k /\ \A q \in 1..(n + 1 - k) : e[q] = d[k + q - 1]
    BY FromType
  <2>2. n \in Nat
    BY LenProperties
  <2> HIDE DEF e, n, l
  <2>3. ASSUME NEW q \in 1..l PROVE e[q] = d[q + k - 1]
    <3>1. q \in 1..(n + 1 - k) /\ k + q - 1 = q + k - 1
      BY <2>1
    <3> QED BY <2>1, <3>1
  <2> QED BY <2>1, <2>2, <2>3
<1>2. i \in 1..(l + 1) /\ j \in 1..(n + 1)
  <2> HIDE DEF e, l
  <2>1. i \in 1..(n + 2 - k) /\ k \in 1..(n + 1)
    OBVIOUS
  <2> HIDE DEF n
  <2> QED BY <1>1, <2>1
<1> HIDE DEF e
<1>3. CASE Crlf(e, i) # 0
  <2> DEFINE m == Crlf(e, i)
  <2>1. /\ m \in i..(l - 1) /\ e[m] = CR /\ e[m + 1] = LF
        /\ \A q \in i..(l - 1) : e[q] = CR /\ e[q + 1] = LF => m <= q
    BY <1>1, <1>2, <1>3, CrlfIs
  <2> HIDE DEF m, l, n
  <2>2. m \in 1..l /\ m + 1 \in 1..l /\ (m + k - 1) + 1 = (m + 1) + k - 1
    BY <1>1, <2>1
  <2>3. d[m + k - 1] = CR /\ d[(m + k - 1) + 1] = LF /\ m + k - 1 \in j..(n - 1)
    <3>1. d[m + k - 1] = CR
      BY <1>1, <2>1, <2>2
    <3>2. d[(m + 1) + k - 1] = LF
      BY <1>1, <2>1, <2>2
    <3>3. m + k - 1 \in j..(n - 1)
      <4> HIDE DEF j
      <4>1. j = i + k - 1 /\ k \in Int /\ i \in Int /\ n \in Nat /\ l = n + 1 - k
        BY <1>1 DEF j
      <4> QED BY <2>1, <4>1
    <3> QED BY <2>2, <3>1, <3>2, <3>3
  <2>4. ASSUME NEW q \in j..((m + k - 1) - 1), d[q] = CR, d[q + 1] = LF PROVE FALSE
    <3> DEFINE p == q - k + 1
    <3>1. /\ p \in i..(l - 1) /\ p < m /\ p \in 1..l /\ p + 1 \in 1..l
          /\ p + k - 1 = q /\ (p + 1) + k - 1 = q + 1
      BY <1>1, <2>1
    <3> HIDE DEF p
    <3>2. e[p] = CR /\ e[p + 1] = LF
      BY <1>1, <2>4, <3>1
    <3>3. m <= p
      BY <2>1, <3>1, <3>2
    <3> QED BY <2>1, <3>1, <3>3
  <2> DEFINE c == m + k - 1
  <2> HIDE DEF c, j
  <2>5. c \in j..(n - 1) /\ d[c] = CR /\ d[c + 1] = LF
    BY <2>3 DEF c
  <2>6. \A q \in j..(c - 1) : ~(d[q] = CR /\ d[q + 1] = LF)
    BY <2>4 DEF c
  <2>7. Crlf(d, j) = c
    BY <1>2, <2>5, <2>6, CrlfFound DEF n
  <2> QED BY <1>3, <2>7 DEF c, j, m, e
<1>4. CASE Crlf(e, i) = 0
  <2> SUFFICES ASSUME Crlf(d, j) # 0 PROVE FALSE
    BY <1>4 DEF e, j
  <2> DEFINE m == Crlf(d, j)
             p == m - k + 1
  <2>1. m \in j..(n - 1) /\ d[m] = CR /\ d[m + 1] = LF
    <3> HIDE DEF j
    <3> QED BY <1>2, CrlfIs
  <2> HIDE DEF m, l, n
  <2>2. p \in i..(l - 1) /\ p \in 1..l /\ p + 1 \in 1..l /\ p + k - 1 = m /\ (p + 1) + k - 1 = m + 1
    BY <1>1, <2>1
  <2> HIDE DEF p
  <2>3. e[p] = CR /\ e[p + 1] = LF
    BY <1>1, <2>1, <2>2
  <2> QED BY <1>1, <1>2, <1>4, <2>2, <2>3, CrlfNone DEF l
<1> QED BY <1>3, <1>4 DEF e, j

\* So chunks are in the rest of the data what they are in the whole.
LEMMA ChunkShifts ==
  ASSUME NEW d \in Seq(Octet), NEW k \in 1..(Len(d) + 1), NEW i \in 1..(Len(d) + 2 - k)
  PROVE  LET e == From(d, k)
             j == i + k - 1
         IN  /\ SizeAt(d, j) = SizeAt(e, i)
             /\ SizeAt(e, i) # <<>> => Len(d) - Crlf(d, j) - 1 = Len(e) - Crlf(e, i) - 1
             /\ ChunkAt(e, i) => /\ NextAt(e, i) \in (i + 1)..(Len(e) + 1)
                                 /\ NextAt(d, j) = NextAt(e, i) + k - 1
                                 /\ DataAt(d, j) = DataAt(e, i)
<1> DEFINE e == From(d, k)
           j == i + k - 1
           n == Len(d)
           l == Len(e)
           m == Crlf(e, i)
           c == Crlf(d, j)
<1>1. /\ n \in Nat /\ e \in Seq(Octet) /\ l = n + 1 - k /\ k \in 1..(n + 1) /\ i \in 1..(n + 2 - k)
  BY FromType, LenProperties
<1>2. IF m = 0 THEN c = 0 ELSE c = m + k - 1
  BY CrlfShifts
<1>3. i \in 1..(l + 1) /\ j \in 1..(n + 1) /\ j = i + k - 1
  <2> HIDE DEF n, l, e
  <2> QED BY <1>1
<1> HIDE DEF e, j
<1>4. m # 0 => m \in i..(l - 1)
  BY <1>1, <1>3, CrlfIs
<1> HIDE DEF l, n
<1>5. m # 0 => SubSeq(e, i, m - 1) = SubSeq(d, j, c - 1)
  <2> SUFFICES ASSUME m # 0 PROVE SubSeq(e, i, m - 1) = SubSeq(d, j, c - 1)
    OBVIOUS
  <2> DEFINE b == m - 1
  <2>1. b \in Int /\ b <= n + 1 - k /\ k + i - 1 = j /\ k + b - 1 = c - 1 /\ i \in Nat \ {0}
    BY <1>1, <1>2, <1>3, <1>4
  <2> HIDE DEF b, m, c
  <2>2. SubSeq(From(d, k), i, b) = SubSeq(d, k + i - 1, k + b - 1)
    BY <1>1, <2>1, SliceOfFrom DEF n
  <2>3. SubSeq(e, i, b) = SubSeq(d, j, c - 1)
    BY <2>1, <2>2 DEF e
  <2> QED BY <2>3 DEF b
<1>6. SizeAt(d, j) = SizeAt(e, i)
  <2>1. CASE m = 0
    BY <1>2, <2>1 DEF SizeAt
  <2>2. CASE m # 0
    <3>1. c # 0
      BY <1>1, <1>2, <1>4, <2>2
    <3>2. SizeAt(e, i) = ChunkSize(SubSeq(e, i, m - 1)) /\ SizeAt(d, j) = ChunkSize(SubSeq(d, j, c - 1))
      BY <2>2, <3>1 DEF SizeAt
    <3> QED BY <1>5, <2>2, <3>2
  <2> QED BY <2>1, <2>2
<1>7. SizeAt(e, i) # <<>> => m # 0
  BY DEF SizeAt
<1>8. SizeAt(e, i) # <<>> => n - c - 1 = l - m - 1
  BY <1>1, <1>2, <1>4, <1>7
<1>9. ASSUME ChunkAt(e, i)
      PROVE  /\ NextAt(e, i) \in (i + 1)..(l + 1)
             /\ NextAt(d, j) = NextAt(e, i) + k - 1
             /\ DataAt(d, j) = DataAt(e, i)
  <2> DEFINE size == SizeAt(e, i)[1]
             t == EndAt(e, i)
  <2>1. m # 0 /\ size \in Nat \ {0} /\ t \in (i + 2)..(l + 1) /\ NextAt(e, i) \in (i + 1)..(l + 1)
    BY <1>1, <1>3, <1>9, ChunkBounds DEF l
  <2>2. t = m + 2 + size /\ EndAt(d, j) = c + 2 + size
    BY <1>6 DEF EndAt
  <2>3. /\ NextAt(e, i) = IF l + 1 - t >= 2 THEN t + 2 ELSE t
        /\ NextAt(d, j) = IF n + 1 - EndAt(d, j) >= 2 THEN EndAt(d, j) + 2 ELSE EndAt(d, j)
    BY DEF NextAt, l, n
  <2>4. DataAt(e, i) = SubSeq(e, m + 2, t - 1) /\ DataAt(d, j) = SubSeq(d, c + 2, EndAt(d, j) - 1)
    BY DEF DataAt
  <2> DEFINE u == EndAt(d, j)
  <2> HIDE DEF size, t, u, m, c
  <2>5. m \in i..(l - 1) /\ c = m + k - 1
    BY <1>2, <1>4, <2>1
  <2>6. u = t + k - 1
    BY <1>1, <1>3, <2>1, <2>2, <2>5 DEF u
  <2>7. NextAt(d, j) = NextAt(e, i) + k - 1
    <3> DEFINE x == NextAt(e, i)
               y == NextAt(d, j)
    <3>1. x = (IF l + 1 - t >= 2 THEN t + 2 ELSE t) /\ y = (IF n + 1 - u >= 2 THEN u + 2 ELSE u)
      BY <2>3 DEF u
    <3> HIDE DEF x, y
    <3>2. n + 1 - u = l + 1 - t /\ t \in Int /\ u \in Int
      BY <1>1, <1>3, <2>1, <2>6
    <3>3. y = x + k - 1
      BY <1>1, <2>6, <3>1, <3>2
    <3> QED BY <3>3 DEF x, y
  <2>8. SubSeq(e, m + 2, t - 1) = SubSeq(d, c + 2, u - 1)
    <3> DEFINE a == m + 2
               b == t - 1
    <3>1. /\ a \in Nat \ {0} /\ b \in Int /\ b <= n + 1 - k
          /\ k + a - 1 = c + 2 /\ k + b - 1 = u - 1
      BY <1>1, <1>3, <2>1, <2>5, <2>6
    <3> HIDE DEF a, b
    <3>2. SubSeq(From(d, k), a, b) = SubSeq(d, k + a - 1, k + b - 1)
      BY <1>1, <3>1, SliceOfFrom DEF n
    <3>3. SubSeq(e, a, b) = SubSeq(d, c + 2, u - 1)
      BY <3>1, <3>2 DEF e
    <3> QED BY <3>3 DEF a, b
  <2> QED BY <2>1, <2>4, <2>7, <2>8 DEF u
<1> QED BY <1>6, <1>8, <1>9 DEF e, j, n, l, m, c

\* Decoding from some octet on is decoding the rest of the data.
LEMMA DecodingFrom ==
  ASSUME NEW d \in Seq(Octet), NEW k \in 1..(Len(d) + 1), NEW f, Decodes(f, d)
  PROVE  DecodeChunked(From(d, k)) = f[k]
<1> DEFINE e == From(d, k)
           n == Len(d)
           l == Len(e)
<1>1. n \in Nat /\ e \in Seq(Octet) /\ l = n + 1 - k /\ k \in 1..(n + 1)
  BY FromType, LenProperties
<1>2. PICK g : Decodes(g, e) /\ DecodeChunked(e) = g[1]
  <2> HIDE DEF e
  <2> QED BY <1>1, ChunksRecursion
<1> DEFINE Same(i) == g[i] = f[i + k - 1]
           S == {q \in Nat : \A i \in 1..(l + 1) : l + 1 - i <= q => Same(i)}
<1>3. ASSUME NEW i \in 1..(l + 1), \A p \in (i + 1)..(l + 1) : Same(p)
      PROVE  Same(i)
  <2> DEFINE j == i + k - 1
             size == SizeAt(e, i)
             short == l - Crlf(e, i) - 1 < size[1]
  <2>1. i \in 1..(n + 2 - k) /\ j \in 1..(n + 1)
    <3> HIDE DEF n, l, e
    <3> QED BY <1>1
  <2>2. /\ SizeAt(d, j) = size
        /\ size # <<>> => n - Crlf(d, j) - 1 = l - Crlf(e, i) - 1
        /\ ChunkAt(e, i) => /\ NextAt(e, i) \in (i + 1)..(l + 1)
                            /\ NextAt(d, j) = NextAt(e, i) + k - 1
                            /\ DataAt(d, j) = DataAt(e, i)
    BY <2>1, ChunkShifts
  <2>3. g[i] = CASE size = <<>> -> <<>>
                 [] size = <<0>> -> <<<<>>>>
                 [] OTHER -> IF short \/ g[NextAt(e, i)] = <<>> THEN <<>>
                             ELSE <<DataAt(e, i) \o g[NextAt(e, i)][1]>>
    <3> HIDE DEF e
    <3> QED BY <1>2 DEF Decodes
  <2>4. f[j] = CASE size = <<>> -> <<>>
                 [] size = <<0>> -> <<<<>>>>
                 [] OTHER -> IF n - Crlf(d, j) - 1 < size[1] \/ f[NextAt(d, j)] = <<>> THEN <<>>
                             ELSE <<DataAt(d, j) \o f[NextAt(d, j)][1]>>
    <3>1. j \in 1..(Len(d) + 1)
      BY <2>1
    <3> HIDE DEF j, e
    <3> QED BY <2>2, <3>1 DEF Decodes
  <2>5. <<>> # <<0>>
    OBVIOUS
  <2>6. size # <<>> /\ size # <<0>> /\ ~short => ChunkAt(e, i)
    BY DEF ChunkAt
  <2>7. ChunkAt(e, i) => g[NextAt(e, i)] = f[NextAt(d, j)]
    BY <1>3, <2>2
  <2> HIDE DEF size, j, e, l, n
  <2>8. CASE size = <<>>
    BY <2>3, <2>4, <2>5, <2>8 DEF j
  <2>9. CASE size = <<0>>
    BY <2>3, <2>4, <2>5, <2>9 DEF j
  <2>10. CASE size # <<>> /\ size # <<0>> /\ short
    <3>1. n - Crlf(d, j) - 1 < size[1]
      BY <2>2, <2>10
    <3> QED BY <2>3, <2>4, <2>10, <3>1 DEF j
  <2>11. CASE size # <<>> /\ size # <<0>> /\ ~short
    <3>1. ~(n - Crlf(d, j) - 1 < size[1])
      BY <2>2, <2>11
    <3>2. g[NextAt(e, i)] = f[NextAt(d, j)] /\ DataAt(d, j) = DataAt(e, i)
      BY <2>2, <2>6, <2>7, <2>11
    <3> QED BY <2>3, <2>4, <2>11, <3>1, <3>2 DEF j
  <2> QED BY <2>8, <2>9, <2>10, <2>11
<1> HIDE DEF Same, e, n
<1>4. l \in Nat
  BY <1>1, LenProperties
<1> HIDE DEF l
<1>5. 0 \in S
  <2> SUFFICES ASSUME NEW i \in 1..(l + 1), l + 1 - i <= 0 PROVE Same(i)
    OBVIOUS
  <2>1. \A p \in (i + 1)..(l + 1) : Same(p)
    BY <1>4
  <2> QED BY <1>3, <2>1
<1>6. ASSUME NEW q \in Nat, q \in S PROVE q + 1 \in S
  <2> SUFFICES ASSUME NEW i \in 1..(l + 1), l + 1 - i <= q + 1 PROVE Same(i)
    OBVIOUS
  <2>1. ASSUME NEW p \in (i + 1)..(l + 1) PROVE Same(p)
    <3>1. p \in 1..(l + 1) /\ l + 1 - p <= q
      BY <1>4
    <3> QED BY <1>6, <3>1
  <2> QED BY <1>3, <2>1
<1>7. l \in S
  <2> HIDE DEF S
  <2> QED BY <1>4, <1>5, <1>6, SetInduction
<1>8. Same(1)
  <2>1. 1 \in 1..(l + 1) /\ l + 1 - 1 <= l
    BY <1>4
  <2> QED BY <1>7, <2>1
<1>9. 1 + k - 1 = k
  BY <1>1
<1> QED BY <1>2, <1>8, <1>9 DEF Same, e

\* A line that does not end before its end.
EndLine == <<CR, LF>>
Line(line) ==
  /\ line \in Seq(Octet)
  /\ \A j \in 1..(Len(line) - 1) : ~(line[j] = CR /\ line[j + 1] = LF)

\* What is before an end of line and what is behind it.
LEMMA EndOfLine ==
  ASSUME NEW s \in Seq(Octet), NEW rest \in Seq(Octet)
  PROVE  LET d == s \o (EndLine \o rest) IN
         /\ d \in Seq(Octet) /\ Len(s) \in Nat /\ Len(rest) \in Nat
         /\ Len(d) = Len(s) + 2 + Len(rest)
         /\ SubSeq(d, 1, Len(s)) = s /\ From(d, Len(s) + 3) = rest
         /\ \A j \in 1..Len(s) : d[j] = s[j]
         /\ d[Len(s) + 1] = CR /\ d[Len(s) + 2] = LF
<1>0. ASSUME NEW front \in Seq(Octet), NEW back \in Seq(Octet)
      PROVE  /\ front \o back \in Seq(Octet)
             /\ Len(front \o back) = Len(front) + Len(back)
             /\ SubSeq(front \o back, 1, Len(front)) = front
             /\ SubSeq(front \o back, Len(front) + 1, Len(front \o back)) = back
  BY PartsOfConcat
<1> DEFINE x == EndLine \o rest
           d == s \o x
           a == Len(s)
           b == Len(rest)
<1>1. EndLine \in Seq(Octet) /\ Len(EndLine) = 2 /\ EndLine[1] = CR /\ EndLine[2] = LF
  BY CodeOctets DEF EndLine, CR, LF
<1>2. a \in Nat /\ b \in Nat
  BY LenProperties
<1>3. /\ x \in Seq(Octet) /\ Len(x) = 2 + b /\ From(x, 3) = rest
      /\ x[1] = CR /\ x[2] = LF
  <2>1. /\ x \in Seq(Octet) /\ Len(x) = Len(EndLine) + b
        /\ SubSeq(x, Len(EndLine) + 1, Len(x)) = rest
    BY <1>0, <1>1
  <2>2. \A i \in 1..(Len(EndLine) + b) : x[i] = IF i <= Len(EndLine) THEN EndLine[i] ELSE rest[i - Len(EndLine)]
    BY <1>1, ConcatProperties
  <2> HIDE DEF x, b
  <2>3. x[1] = CR /\ x[2] = LF
    BY <1>1, <1>2, <2>2
  <2> QED BY <1>1, <2>1, <2>3 DEF From
<1> HIDE DEF x
<1>4. /\ d \in Seq(Octet) /\ Len(d) = a + (2 + b) /\ SubSeq(d, 1, a) = s /\ From(d, a + 1) = x
  <2>1. /\ d \in Seq(Octet) /\ Len(d) = a + Len(x) /\ SubSeq(d, 1, a) = s
        /\ SubSeq(d, a + 1, Len(d)) = x
    BY <1>0, <1>3
  <2> QED BY <1>3, <2>1 DEF From
<1>5. \A i \in 1..(a + (2 + b)) : d[i] = IF i <= a THEN s[i] ELSE x[i - a]
  <2>1. \A i \in 1..(a + Len(x)) : d[i] = IF i <= a THEN s[i] ELSE x[i - a]
    BY <1>3, ConcatProperties
  <2> QED BY <1>3, <2>1
<1> HIDE DEF d
<1>6. From(d, a + 3) = rest
  <2> DEFINE p == a + 1
             q == 3
  <2>1. p \in 1..(Len(d) + 1) /\ q \in 1..(Len(d) + 2 - p) /\ p + q - 1 = a + 3
    BY <1>2, <1>4
  <2> HIDE DEF p, q
  <2>2. From(From(d, p), q) = From(d, p + q - 1)
    BY <1>4, <2>1, FromFrom
  <2> QED BY <1>3, <1>4, <2>1, <2>2 DEF p, q
<1>7. d[a + 1] = CR /\ d[a + 2] = LF /\ \A j \in 1..a : d[j] = s[j]
  <2> HIDE DEF a, b
  <2>1. d[a + 1] = x[(a + 1) - a] /\ d[a + 2] = x[(a + 2) - a]
    BY <1>2, <1>5
  <2>2. (a + 1) - a = 1 /\ (a + 2) - a = 2
    BY <1>2
  <2>3. \A j \in 1..a : d[j] = s[j]
    BY <1>2, <1>5
  <2> QED BY <1>3, <2>1, <2>2, <2>3
<1>8. Len(d) = a + 2 + b
  BY <1>2, <1>4
<1> QED BY <1>2, <1>4, <1>6, <1>7, <1>8 DEF d, x

\* A line at the front of chunked data is its first size line.
LEMMA FirstSize ==
  ASSUME NEW line, Line(line), NEW rest \in Seq(Octet)
  PROVE  LET d == line \o (EndLine \o rest) IN
         /\ Crlf(d, 1) = Len(line) + 1 /\ SizeAt(d, 1) = ChunkSize(line)
<1> DEFINE d == line \o (EndLine \o rest)
           n == Len(line)
           m == n + 1
<1>1. line \in Seq(Octet) /\ \A j \in 1..(n - 1) : ~(line[j] = CR /\ line[j + 1] = LF)
  BY DEF Line
<1>2. /\ d \in Seq(Octet) /\ n \in Nat /\ Len(rest) \in Nat /\ Len(d) = n + 2 + Len(rest)
      /\ SubSeq(d, 1, n) = line /\ \A j \in 1..n : d[j] = line[j]
      /\ d[n + 1] = CR /\ d[n + 2] = LF
  BY <1>1, EndOfLine
<1> HIDE DEF d, n
<1>3. Crlf(d, 1) = m
  <2> DEFINE i == 1
  <2>1. i \in 1..(Len(d) + 1) /\ m \in i..(Len(d) - 1) /\ d[m] = CR /\ d[m + 1] = LF
    <3>1. m + 1 = n + 2
      BY <1>2
    <3> QED BY <1>2, <3>1
  <2>2. ASSUME NEW j \in i..(m - 1) PROVE ~(d[j] = CR /\ d[j + 1] = LF)
    <3>1. CASE j = n
      BY <1>2, <3>1 DEF CR, LF
    <3>2. CASE j # n
      <4>1. j \in 1..(n - 1) /\ j \in 1..n /\ j + 1 \in 1..n
        BY <1>2, <3>2
      <4> QED BY <1>1, <1>2, <4>1
    <3> QED BY <3>1, <3>2
  <2> HIDE DEF i, m
  <2>3. Crlf(d, i) = m
    BY <1>2, <2>1, <2>2, CrlfFound
  <2> QED BY <2>3 DEF i
<1>4. m # 0 /\ m - 1 = n
  BY <1>2
<1> HIDE DEF m
<1>5. SizeAt(d, 1) = ChunkSize(line)
  BY <1>2, <1>3, <1>4 DEF SizeAt
<1> QED BY <1>3, <1>5 DEF d, m, n

\* Chunked data is decoded chunk by chunk to the data of the chunks, whatever
\* lines tell their sizes, and whatever is behind the last (http.rs:155-182).
THEOREM ChunksAreJoined ==
  ASSUME NEW line, Line(line), NEW s \in Seq(Octet), NEW rest \in Seq(Octet)
  PROVE  /\ ChunkSize(line) = <<0>> => DecodeChunked(line \o (EndLine \o rest)) = <<<<>>>>
         /\ s # <<>> /\ ChunkSize(line) = <<Len(s)>> =>
              DecodeChunked(line \o (EndLine \o (s \o (EndLine \o rest))))
                = IF DecodeChunked(rest) = <<>> THEN <<>> ELSE <<s \o DecodeChunked(rest)[1]>>
<1>0. line \in Seq(Octet)
  BY DEF Line
<1>1. ChunkSize(line) = <<0>> => DecodeChunked(line \o (EndLine \o rest)) = <<<<>>>>
  <2> HAVE ChunkSize(line) = <<0>>
  <2> DEFINE d == line \o (EndLine \o rest)
  <2>1. SizeAt(d, 1) = <<0>>
    BY FirstSize
  <2>2. d \in Seq(Octet) /\ 1 \in 1..(Len(d) + 1)
    <3>1. d \in Seq(Octet)
      BY <1>0, EndOfLine
    <3> QED BY <3>1, LenProperties
  <2> HIDE DEF d
  <2>3. PICK f : Decodes(f, d) /\ DecodeChunked(d) = f[1]
    BY <2>2, ChunksRecursion
  <2>4. <<>> # <<0>>
    OBVIOUS
  <2>5. f[1] = <<<<>>>>
    BY <2>1, <2>2, <2>3, <2>4 DEF Decodes
  <2> QED BY <2>3, <2>5 DEF d
<1>2. ASSUME s # <<>>, ChunkSize(line) = <<Len(s)>>
      PROVE  DecodeChunked(line \o (EndLine \o (s \o (EndLine \o rest))))
               = IF DecodeChunked(rest) = <<>> THEN <<>> ELSE <<s \o DecodeChunked(rest)[1]>>
  <2> DEFINE tail == s \o (EndLine \o rest)
             d == line \o (EndLine \o tail)
             n == Len(line)
             k == Len(s)
             r == Len(rest)
             m == Crlf(d, 1)
             L == Len(d)
             end == EndAt(d, 1)
             next == NextAt(d, 1)
  <2>1. /\ tail \in Seq(Octet) /\ k \in Nat /\ r \in Nat /\ Len(tail) = k + 2 + r
        /\ SubSeq(tail, 1, k) = s /\ From(tail, k + 3) = rest
    BY EndOfLine
  <2> HIDE DEF tail
  <2>2. d \in Seq(Octet) /\ n \in Nat /\ L = n + 2 + Len(tail) /\ From(d, n + 3) = tail
    BY <1>0, <2>1, EndOfLine
  <2>3. m = n + 1 /\ SizeAt(d, 1) = <<k>>
    BY <1>2, <2>1, FirstSize
  <2>4. k # 0
    BY <1>2, EmptySeq
  <2> HIDE DEF d
  <2>5. end = m + 2 + k
    BY <2>3 DEF EndAt
  <2>6. next = IF L + 1 - end >= 2 THEN end + 2 ELSE end
    BY DEF NextAt
  <2> HIDE DEF n, k, r, m, L, end, next
  <2>7. end = n + 3 + k /\ L = n + k + 4 + r /\ next = n + k + 5
    BY <2>1, <2>2, <2>3, <2>5, <2>6
  <2>8. n + 3 \in 1..(L + 1) /\ next \in 1..(L + 1) /\ 1 \in 1..(L + 1)
    BY <2>1, <2>2, <2>7
  <2>9. DataAt(d, 1) = s
    <3> DEFINE a == 1
               p == n + 3
    <3>1. /\ a \in Nat \ {0} /\ k \in Int /\ k <= L + 1 - p /\ p \in 1..(L + 1)
          /\ p + a - 1 = m + 2 /\ p + k - 1 = end - 1
      BY <2>1, <2>2, <2>3, <2>7, <2>8
    <3> HIDE DEF a, p
    <3>2. SubSeq(From(d, p), a, k) = SubSeq(d, p + a - 1, p + k - 1)
      BY <2>2, <3>1, SliceOfFrom DEF L
    <3>3. DataAt(d, 1) = SubSeq(d, m + 2, end - 1)
      BY DEF DataAt, m, end
    <3> QED BY <2>1, <2>2, <3>1, <3>2, <3>3 DEF a, p
  <2>10. From(d, next) = rest
    <3> DEFINE p == n + 3
               q == k + 3
    <3>1. p \in 1..(L + 1) /\ q \in 1..(L + 2 - p) /\ p + q - 1 = next
      BY <2>1, <2>2, <2>7, <2>8
    <3> HIDE DEF p, q
    <3>2. From(From(d, p), q) = From(d, p + q - 1)
      BY <2>2, <3>1, FromFrom DEF L
    <3> QED BY <2>1, <2>2, <3>1, <3>2 DEF p, q
  <2>11. PICK f : Decodes(f, d) /\ DecodeChunked(d) = f[1]
    BY <2>2, ChunksRecursion
  <2>12. f[next] = DecodeChunked(rest)
    BY <2>2, <2>8, <2>10, <2>11, DecodingFrom DEF L
  <2>13. SizeAt(d, 1) # <<>> /\ SizeAt(d, 1) # <<0>> /\ SizeAt(d, 1)[1] = k
    BY <2>3, <2>4
  <2>14. ~(L - m - 1 < k)
    BY <2>1, <2>2, <2>3, <2>7
  <2>15. f[1] = IF f[next] = <<>> THEN <<>> ELSE <<s \o f[next][1]>>
    <3>1. f[1] = CASE SizeAt(d, 1) = <<>> -> <<>>
                   [] SizeAt(d, 1) = <<0>> -> <<<<>>>>
                   [] OTHER -> IF L - m - 1 < SizeAt(d, 1)[1] \/ f[next] = <<>> THEN <<>>
                               ELSE <<DataAt(d, 1) \o f[next][1]>>
      BY <2>8, <2>11 DEF Decodes, L, m, next
    <3> QED BY <2>9, <2>13, <2>14, <3>1
  <2> QED BY <2>11, <2>12, <2>15 DEF d, tail
<1> QED BY <1>1, <1>2

-----------------------------------------------------------------------------
\* Nothing but space.
Blank(s, space) == s \in Seq(Octet) /\ \A i \in 1..Len(s) : s[i] \in space

\* What has no space at either end is what trimming leaves of it in space.
LEMMA TrimSurrounded ==
  ASSUME NEW space, NEW front, Blank(front, space), NEW back, Blank(back, space),
         NEW s \in Seq(Octet),
         s # <<>>, s[1] \notin space, s[Len(s)] \notin space
  PROVE  Trim(front \o (s \o back), space) = s /\ front \o (s \o back) \in Seq(Octet)
<1>0. ASSUME NEW u \in Seq(Octet), NEW v \in Seq(Octet)
      PROVE  /\ u \o v \in Seq(Octet) /\ Len(u \o v) = Len(u) + Len(v)
             /\ \A i \in 1..(Len(u) + Len(v)) :
                  (u \o v)[i] = IF i <= Len(u) THEN u[i] ELSE v[i - Len(u)]
  BY ConcatProperties
<1> DEFINE x == s \o back
           d == front \o x
           f == Len(front)
           l == Len(s)
           r == Len(back)
<1>1. /\ front \in Seq(Octet) /\ \A i \in 1..f : front[i] \in space
      /\ back \in Seq(Octet) /\ \A i \in 1..r : back[i] \in space
  BY DEF Blank
<1>2. f \in Nat /\ l \in Nat /\ r \in Nat /\ l # 0
  BY <1>1, LenProperties, EmptySeq
<1>3. /\ x \in Seq(Octet) /\ Len(x) = l + r
      /\ \A i \in 1..(l + r) : x[i] = IF i <= l THEN s[i] ELSE back[i - l]
  BY <1>0, <1>1
<1> HIDE DEF x
<1>4. /\ d \in Seq(Octet) /\ Len(d) = f + Len(x)
      /\ \A i \in 1..(f + Len(x)) : d[i] = IF i <= f THEN front[i] ELSE x[i - f]
  BY <1>0, <1>1, <1>3
<1> HIDE DEF d
<1>5. Len(d) = f + l + r
  BY <1>2, <1>3, <1>4
<1> HIDE DEF f, l, r
<1>6. ASSUME NEW i \in 1..(f + l + r)
      PROVE  d[i] = IF i <= f THEN front[i] ELSE IF i <= f + l THEN s[i - f] ELSE back[i - f - l]
  <2>1. i \in 1..(f + Len(x))
    BY <1>2, <1>3
  <2>2. CASE i <= f
    BY <1>4, <2>1, <2>2
  <2>3. CASE ~(i <= f)
    <3>1. i - f \in 1..(l + r) /\ (i - f <= l <=> i <= f + l)
      BY <1>2, <2>3
    <3> QED BY <1>3, <1>4, <2>1, <2>3, <3>1
  <2> QED BY <2>2, <2>3
<1>7. \A i \in 1..Len(d) : d[i] \notin space => f + 1 <= i /\ i <= f + l
  <2> SUFFICES ASSUME NEW i \in 1..Len(d), d[i] \notin space PROVE f + 1 <= i /\ i <= f + l
    OBVIOUS
  <2>1. i \in 1..(f + l + r)
    BY <1>5
  <2>2. ~(i <= f)
    <3> SUFFICES ASSUME i <= f PROVE FALSE
      OBVIOUS
    <3>1. i \in 1..f /\ d[i] = front[i]
      BY <1>2, <1>6, <2>1
    <3> QED BY <1>1, <3>1 DEF f
  <2>3. i <= f + l
    <3> SUFFICES ASSUME ~(i <= f + l) PROVE FALSE
      OBVIOUS
    <3>1. i - f - l \in 1..r /\ d[i] = back[i - f - l]
      BY <1>2, <1>6, <2>1, <2>2
    <3> QED BY <1>1, <3>1 DEF r
  <2> QED BY <1>2, <2>1, <2>2, <2>3
<1>8. f + 1 \in 1..Len(d) /\ f + l \in 1..Len(d) /\ d[f + 1] \notin space /\ d[f + l] \notin space
  <2>1. f + 1 \in 1..(f + l + r) /\ f + l \in 1..(f + l + r)
    BY <1>2
  <2>2. ~(f + 1 <= f) /\ f + 1 <= f + l /\ (f + 1) - f = 1
        /\ ~(f + l <= f) /\ f + l <= f + l /\ (f + l) - f = l
    BY <1>2
  <2>3. d[f + 1] = s[1] /\ d[f + l] = s[l]
    BY <1>6, <2>1, <2>2
  <2> QED BY <1>5, <2>1, <2>3 DEF l
<1>9. Trim(d, space) # <<>>
  BY <1>4, <1>8, TrimIs
<1>10. PICK a \in 1..Len(d), b \in 1..Len(d) :
        /\ a <= b /\ d[a] \notin space /\ d[b] \notin space
        /\ \A i \in 1..Len(d) : d[i] \notin space => a <= i /\ i <= b
        /\ Trim(d, space) = SubSeq(d, a, b)
  BY <1>4, <1>9, TrimIs
<1>11. a = f + 1 /\ b = f + l
  <2>1. a <= f + 1 /\ f + l <= b
    BY <1>8, <1>10
  <2>2. f + 1 <= a /\ b <= f + l
    BY <1>7, <1>10
  <2> QED BY <1>2, <2>1, <2>2
<1> DEFINE t == Trim(d, space)
<1>12. t \in Seq(Octet) /\ Len(t) = l /\ \A i \in 1..l : t[i] = d[f + i]
  <2>1. \A i \in a..b : d[i] \in Octet
    <3>1. \A i \in a..b : i \in 1..Len(d)
      BY <1>2, <1>5, <1>11
    <3> QED BY <1>4, <3>1, ElementOfSeq
  <2>2. a \in Int /\ b \in Int /\ a <= b
    BY <1>2, <1>10, <1>11
  <2>3. /\ t \in Seq(Octet) /\ Len(t) = (IF a <= b THEN b - a + 1 ELSE 0)
        /\ \A i \in 1..(b - a + 1) : t[i] = d[a + i - 1]
    BY <1>10, <2>1, <2>2, SubSeqProperties
  <2> HIDE DEF t
  <2>4. b - a + 1 = l
    BY <1>2, <1>11
  <2>5. \A i \in 1..l : a + i - 1 = f + i
    BY <1>2, <1>11
  <2> QED BY <2>2, <2>3, <2>4, <2>5
<1> HIDE DEF t
<1>13. ASSUME NEW i \in 1..l PROVE t[i] = s[i]
  <2>1. f + i \in 1..(f + l + r) /\ ~(f + i <= f) /\ f + i <= f + l /\ (f + i) - f = i
    BY <1>2
  <2> QED BY <1>6, <1>12, <2>1
<1>14. t = s
  BY <1>12, <1>13, SeqEqual DEF l
<1> QED BY <1>4, <1>14 DEF t, d, x

\* A size line: the digits of the size, space, and an extension or none.
SizeLine(line, size) ==
  /\ Line(line)
  /\ \E digits \in Seq(Octet), blank \in Seq(Octet), ext \in Seq(Octet) :
       /\ line = (digits \o blank) \o ext /\ Blank(blank, Space) /\ (ext # <<>> => ext[1] = Semicolon)
       /\ digits # <<>> /\ \A i \in 1..Len(digits) : digits[i] \in DOMAIN HexValue
       /\ \E v \in [0..Len(digits) -> Nat] : AddsUp(v, digits) /\ v[Len(digits)] = size

\* A size line is read as the size, whatever the extension (http.rs:160-165).
LEMMA SizeIsRead ==
  ASSUME NEW line, NEW size, SizeLine(line, size)
  PROVE  ChunkSize(line) = <<size>>
<1>1. PICK digits \in Seq(Octet), blank \in Seq(Octet), ext \in Seq(Octet) :
        /\ line = (digits \o blank) \o ext /\ Blank(blank, Space) /\ (ext # <<>> => ext[1] = Semicolon)
        /\ digits # <<>> /\ \A i \in 1..Len(digits) : digits[i] \in DOMAIN HexValue
        /\ \E v \in [0..Len(digits) -> Nat] : AddsUp(v, digits) /\ v[Len(digits)] = size
  BY DEF SizeLine
<1> DEFINE front == digits \o blank
           c == Len(digits)
           w == Len(blank)
           n == Len(front)
           m == Len(ext)
           semi == {i \in DOMAIN line : line[i] = Semicolon}
           end == IF semi = {} THEN Len(line) ELSE Min(semi) - 1
<1>2. c \in Nat /\ c # 0 /\ w \in Nat /\ m \in Nat /\ DOMAIN digits = 1..c
  BY <1>1, LenProperties, EmptySeq
<1>3. \A o \in DOMAIN HexValue : o # Semicolon /\ o # Plus /\ o \notin Space
  BY DEF HexValue, Semicolon, Plus, Space, AsciiSpace, JsonSpace, LF, CR
<1>4. front \in Seq(Octet) /\ n = c + w /\ \A i \in 1..n : front[i] # Semicolon
  <2>1. /\ front \in Seq(Octet) /\ n = c + w
        /\ \A i \in 1..(c + w) : front[i] = IF i <= c THEN digits[i] ELSE blank[i - c]
    BY ConcatProperties
  <2> HIDE DEF front, n
  <2>2. ASSUME NEW i \in 1..n PROVE front[i] # Semicolon
    <3>1. CASE i <= c
      <4>1. i \in 1..c /\ front[i] = digits[i]
        BY <1>2, <2>1, <3>1
      <4> QED BY <1>1, <1>3, <4>1
    <3>2. CASE ~(i <= c)
      <4>1. i - c \in 1..w /\ front[i] = blank[i - c]
        BY <1>2, <2>1, <3>2
      <4>2. \A j \in 1..w : blank[j] \in Space
        BY <1>1 DEF Blank
      <4>3. \A o \in Space : o # Semicolon
        BY DEF Space, AsciiSpace, JsonSpace, LF, CR, Semicolon
      <4> HIDE DEF w, c
      <4> QED BY <4>1, <4>2, <4>3
    <3> QED BY <3>1, <3>2
  <2> QED BY <2>1, <2>2
<1>5. line = front \o ext
  BY <1>1
<1> HIDE DEF front
<1>6. /\ line \in Seq(Octet) /\ Len(line) = n + m /\ SubSeq(line, 1, n) = front
      /\ \A i \in 1..(n + m) : line[i] = IF i <= n THEN front[i] ELSE ext[i - n]
  BY <1>4, <1>5, PartsOfConcat, ConcatProperties
<1>7. DOMAIN line = 1..(n + m) /\ n \in Nat
  BY <1>2, <1>4, <1>6, LenProperties
<1> HIDE DEF n
<1>8. \A i \in semi : i \in Int /\ n + 1 <= i
  <2>1. ASSUME NEW i \in semi PROVE n + 1 <= i
    <3>1. i \in 1..(n + m) /\ line[i] = Semicolon
      BY <1>7
    <3>2. ~(i <= n)
      <4> SUFFICES ASSUME i <= n PROVE FALSE
        OBVIOUS
      <4>1. i \in 1..n /\ line[i] = front[i]
        BY <1>6, <1>7, <3>1
      <4> QED BY <1>4, <3>1, <4>1
    <3> QED BY <1>7, <3>1, <3>2
  <2> QED BY <1>7, <2>1
<1>9. end = n
  <2>1. CASE ext = <<>>
    <3>1. m = 0
      BY <2>1, EmptySeq
    <3>2. semi = {}
      <4>1. \A i \in semi : i \in 1..(n + m)
        BY <1>7
      <4> HIDE DEF semi
      <4> QED BY <1>7, <1>8, <3>1, <4>1
    <3> QED BY <1>6, <1>7, <3>1, <3>2
  <2>2. CASE ext # <<>>
    <3>1. m # 0
      BY <2>2, EmptySeq
    <3>2. n + 1 \in 1..(n + m) /\ ~(n + 1 <= n) /\ (n + 1) - n = 1
      BY <1>2, <1>7, <3>1
    <3>3. line[n + 1] = Semicolon
      BY <1>1, <1>6, <2>2, <3>2
    <3>4. n + 1 \in semi
      BY <1>7, <3>2, <3>3
    <3> DEFINE k == n + 1
    <3>5. k \in semi /\ semi \subseteq Int /\ \A i \in semi : k <= i
      BY <1>8, <3>4
    <3> HIDE DEF semi, k
    <3>6. Min(semi) = k /\ semi # {}
      BY <3>5, MinIs
    <3> QED BY <1>7, <3>6 DEF k
  <2> QED BY <2>1, <2>2
<1>10. ChunkSize(line) = HexNumber(Trim(SubSeq(line, 1, end), Space))
  BY DEF ChunkSize
<1> HIDE DEF end
<1>11. Trim(front, Space) = digits
  <2> DEFINE nothing == <<>>
  <2>1. nothing \in Seq(Octet) /\ nothing \o front = front
    BY <1>4, ConcatEmptySeq
  <2>2. Blank(nothing, Space)
    BY DEF Blank
  <2>3. 1 \in 1..c /\ c \in 1..c
    BY <1>2
  <2>4. digits[1] \notin Space /\ digits[Len(digits)] \notin Space
    BY <1>1, <1>3, <2>3
  <2> HIDE DEF nothing
  <2>5. Trim(nothing \o (digits \o blank), Space) = digits
    BY <1>1, <2>2, <2>4, TrimSurrounded
  <2> QED BY <2>1, <2>5 DEF front
<1>12. ChunkSize(line) = HexNumber(digits)
  BY <1>6, <1>9, <1>10, <1>11
<1>13. digits[1] # Plus
  <2>1. 1 \in 1..c
    BY <1>2
  <2> QED BY <1>1, <1>3, <2>1
<1>14. HexNumber(digits) = <<Summed(digits)>>
  <2>1. \A i \in DOMAIN digits : digits[i] \in DOMAIN HexValue
    BY <1>1, <1>2
  <2> QED BY <1>1, <1>13, <2>1 DEF HexNumber, Summed
<1>15. Summed(digits) = size
  BY <1>1, SummedIs
<1> QED BY <1>12, <1>14, <1>15

\* A body in chunks, and the content they carry: to the last chunk, of size 0,
\* and what is behind it, chunks have been put in front one by one.
InChunks(body, content) ==
  \E n \in Nat : \E coded \in [0..n -> Seq(Octet)], data \in [0..n -> Seq(Octet)] :
    /\ body = coded[n] /\ content = data[n]
    /\ \E line, trailer \in Seq(Octet) :
         SizeLine(line, 0) /\ coded[0] = line \o (EndLine \o trailer) /\ data[0] = <<>>
    /\ \A i \in 1..n : \E line, s \in Seq(Octet) :
         /\ SizeLine(line, Len(s)) /\ s # <<>>
         /\ coded[i] = line \o (EndLine \o (s \o (EndLine \o coded[i - 1])))
         /\ data[i] = s \o data[i - 1]

\* A body in chunks is decoded to its content, however it is divided, whatever
\* extensions and trailers it has (http.rs:155-182).
THEOREM ChunkedBodyIsDecoded ==
  ASSUME NEW body, NEW content, InChunks(body, content)
  PROVE  content \in Seq(Octet) /\ DecodeChunked(body) = <<content>>
<1>1. PICK n \in Nat : \E coded \in [0..n -> Seq(Octet)], data \in [0..n -> Seq(Octet)] :
    /\ body = coded[n] /\ content = data[n]
    /\ \E line, trailer \in Seq(Octet) :
         SizeLine(line, 0) /\ coded[0] = line \o (EndLine \o trailer) /\ data[0] = <<>>
    /\ \A i \in 1..n : \E line, s \in Seq(Octet) :
         /\ SizeLine(line, Len(s)) /\ s # <<>>
         /\ coded[i] = line \o (EndLine \o (s \o (EndLine \o coded[i - 1])))
         /\ data[i] = s \o data[i - 1]
  BY DEF InChunks
<1>2. PICK coded \in [0..n -> Seq(Octet)], data \in [0..n -> Seq(Octet)] :
    /\ body = coded[n] /\ content = data[n]
    /\ \E line, trailer \in Seq(Octet) :
         SizeLine(line, 0) /\ coded[0] = line \o (EndLine \o trailer) /\ data[0] = <<>>
    /\ \A i \in 1..n : \E line, s \in Seq(Octet) :
         /\ SizeLine(line, Len(s)) /\ s # <<>>
         /\ coded[i] = line \o (EndLine \o (s \o (EndLine \o coded[i - 1])))
         /\ data[i] = s \o data[i - 1]
  BY <1>1
<1> DEFINE S == {i \in Nat : i \in 0..n => DecodeChunked(coded[i]) = <<data[i]>>}
<1>3. DecodeChunked(coded[0]) = <<data[0]>>
  <2>1. PICK line, trailer \in Seq(Octet) :
          SizeLine(line, 0) /\ coded[0] = line \o (EndLine \o trailer) /\ data[0] = <<>>
    BY <1>2
  <2>2. Line(line) /\ ChunkSize(line) = <<0>>
    BY <2>1, SizeIsRead DEF SizeLine
  <2>3. DecodeChunked(line \o (EndLine \o trailer)) = <<<<>>>>
    BY <2>2, ChunksAreJoined
  <2> QED BY <2>1, <2>3
<1>4. ASSUME NEW i \in Nat, i \in S PROVE i + 1 \in S
  <2> SUFFICES ASSUME i + 1 \in 0..n PROVE DecodeChunked(coded[i + 1]) = <<data[i + 1]>>
    OBVIOUS
  <2>1. i \in 0..n /\ i + 1 \in 1..n /\ (i + 1) - 1 = i
    BY <1>1
  <2> DEFINE j == i + 1
  <2>2. j \in 1..n /\ j - 1 = i
    BY <2>1
  <2> HIDE DEF j
  <2>3. PICK line, s \in Seq(Octet) :
         /\ SizeLine(line, Len(s)) /\ s # <<>>
         /\ coded[j] = line \o (EndLine \o (s \o (EndLine \o coded[i])))
         /\ data[j] = s \o data[i]
    BY <1>2, <2>2
  <2>4. DecodeChunked(coded[i]) = <<data[i]>>
    BY <1>4, <2>1
  <2> DEFINE rest == coded[i]
             d == data[i]
  <2>5. Line(line) /\ ChunkSize(line) = <<Len(s)>> /\ rest \in Seq(Octet)
    BY <1>2, <2>1, <2>3, SizeIsRead DEF SizeLine
  <2> HIDE DEF rest, d
  <2>6. DecodeChunked(line \o (EndLine \o (s \o (EndLine \o rest))))
          = IF DecodeChunked(rest) = <<>> THEN <<>> ELSE <<s \o DecodeChunked(rest)[1]>>
    BY <2>3, <2>5, ChunksAreJoined
  <2>7. DecodeChunked(rest) = <<d>> /\ <<d>> # <<>> /\ <<d>>[1] = d
    BY <2>4 DEF rest, d
  <2>8. DecodeChunked(coded[j]) = <<data[j]>>
    BY <2>3, <2>6, <2>7 DEF rest, d
  <2> QED BY <2>8 DEF j
<1>5. 0 \in S
  BY <1>3
<1>6. n \in S
  <2> HIDE DEF S
  <2> QED BY <1>4, <1>5, SetInduction
<1>7. n \in 0..n
  BY <1>1
<1> QED BY <1>2, <1>6, <1>7

-----------------------------------------------------------------------------
\* Arrays of different length differ.
LEMMA ArrayTellsLength ==
  ASSUME NEW j \in Nat, NEW k \in Nat, JsonArray(j) = JsonArray(k)
  PROVE  j = k
<1> DEFINE l(i) == (IF i = 0 THEN 0 ELSE 2 * i - 1) + 2
           a == Len(JsonArray(j))
           b == Len(JsonArray(k))
<1>1. a = l(j) /\ b = l(k)
  BY JsonArrayIs
<1>2. a = b
  OBVIOUS
<1> HIDE DEF a, b
<1>3. l(j) = l(k)
  BY <1>1, <1>2
<1> QED BY <1>3

\* The length of an array is read as its own.
LEMMA LengthIsRead ==
  ASSUME NEW n \in Nat
  PROVE  JsonLen(JsonArray(n)) = Some([entries |-> n])
<1> DEFINE a == JsonArray(n)
           N == {k \in 0..Len(a) : a = JsonArray(k)}
           l == Len(a)
<1>1. l \in Nat /\ l = (IF n = 0 THEN 0 ELSE 2 * n - 1) + 2
  BY JsonArrayIs
<1>2. n \in 0..l
  <2> HIDE DEF l
  <2> QED BY <1>1
<1>3. n \in N /\ \A k \in N : k = n
  <2>1. n \in N
    BY <1>2
  <2>2. ASSUME NEW k \in N PROVE k = n
    <3>1. k \in Nat /\ JsonArray(k) = JsonArray(n)
      BY <1>1
    <3> QED BY <3>1, ArrayTellsLength
  <2> QED BY <2>1, <2>2
<1>4. JsonLen(a) = IF N = {} THEN <<>> ELSE <<[entries |-> Max(N)]>>
  BY DEF JsonLen
<1> HIDE DEF N
<1>5. N \subseteq Int /\ \A k \in N : n >= k
  BY <1>3
<1>6. Max(N) = n /\ N # {}
  BY <1>3, <1>5, MaxIs
<1> QED BY <1>4, <1>6 DEF a, Some

\* An array of records is counted, with whatever space around it (ct.rs:44-50).
LEMMA ArrayIsCounted ==
  ASSUME NEW n \in Nat, NEW front, Blank(front, JsonSpace), NEW back, Blank(back, JsonSpace)
  PROVE  CountEntries(front \o (JsonArray(n) \o back)) = Some([entries |-> n])
<1> DEFINE a == JsonArray(n)
           d == front \o (a \o back)
<1>1. /\ a \in Seq(Octet) /\ Len(a) \in Nat /\ Len(a) >= 2 /\ a[1] = 91 /\ a[Len(a)] = 93
      /\ JsonLen(a) = Some([entries |-> n])
  BY JsonArrayIs, LengthIsRead
<1> HIDE DEF a
<1>2. a # <<>> /\ 91 \notin AsciiSpace /\ 93 \notin AsciiSpace
  BY <1>1, EmptySeq DEF AsciiSpace, JsonSpace, LF, CR
<1>3. Trim(d, JsonSpace) = a /\ Trim(d, AsciiSpace) = a
  <2>1. JsonSpace \subseteq AsciiSpace
    BY DEF AsciiSpace
  <2>2. Blank(front, AsciiSpace) /\ Blank(back, AsciiSpace)
    BY <2>1 DEF Blank
  <2> QED BY <1>1, <1>2, <2>1, <2>2, TrimSurrounded
<1> HIDE DEF d
<1>4. CountEntries(d) = JsonLen(a)
  BY <1>2, <1>3 DEF CountEntries
<1> QED BY <1>1, <1>4 DEF d, a

\* Text that does not begin like an array is not counted.
LEMMA TextIsNotCounted ==
  ASSUME NEW d \in Seq(Octet), NEW k \in 1..Len(d), d[k] \notin JsonSpace, d[k] # 91,
         \A i \in 1..(k - 1) : d[i] \in JsonSpace, ~Blank(d, AsciiSpace)
  PROVE  CountEntries(d) = None
<1>1. Trim(d, JsonSpace) # <<>> /\ Trim(d, AsciiSpace) # <<>>
  BY TrimIs DEF Blank
<1>2. PICK a \in 1..Len(d), b \in 1..Len(d) :
        /\ a <= b /\ d[a] \notin JsonSpace
        /\ \A i \in 1..Len(d) : d[i] \notin JsonSpace => a <= i /\ i <= b
        /\ Trim(d, JsonSpace) = SubSeq(d, a, b)
  BY <1>1, TrimIs
<1>3. Len(d) \in Nat
  BY LenProperties
<1>4. a = k
  <2>1. a <= k
    BY <1>2
  <2>2. ~(a < k)
    <3> SUFFICES ASSUME a < k PROVE FALSE
      OBVIOUS
    <3>1. a \in 1..(k - 1)
      BY <1>3
    <3> QED BY <1>2, <3>1
  <2> QED BY <1>3, <2>1, <2>2
<1> DEFINE t == Trim(d, JsonSpace)
<1>5. t[1] = d[k]
  <2>1. \A i \in a..b : d[i] \in Octet
    <3>1. \A i \in a..b : i \in 1..Len(d)
      BY <1>3
    <3> QED BY <3>1, ElementOfSeq
  <2>2. a \in Int /\ b \in Int /\ a <= b
    BY <1>2
  <2>3. \A i \in 1..(b - a + 1) : t[i] = d[a + i - 1]
    BY <1>2, <2>1, <2>2, SubSeqProperties
  <2> HIDE DEF t
  <2>4. 1 \in 1..(b - a + 1) /\ a + 1 - 1 = k
    BY <1>2, <1>4
  <2> QED BY <2>3, <2>4
<1> HIDE DEF t
<1>6. \A j \in Nat : t # JsonArray(j)
  <2>1. ASSUME NEW j \in Nat PROVE t # JsonArray(j)
    <3>1. JsonArray(j)[1] = 91
      BY JsonArrayIs
    <3> QED BY <1>5, <3>1
  <2> QED BY <2>1
<1>7. t \in Seq(Octet)
  BY TrimIs DEF t
<1>8. JsonLen(t) = <<>>
  <2>1. \A j \in 0..Len(t) : j \in Nat
    BY <1>7, LenProperties
  <2> QED BY <1>6, <2>1 DEF JsonLen
<1> QED BY <1>1, <1>8 DEF CountEntries, t, None

\* Nothing but space counts no entries (ct.rs:41-47).
LEMMA BlankIsCounted ==
  ASSUME NEW d, Blank(d, AsciiSpace)
  PROVE  CountEntries(d) = Some([entries |-> 0])
<1>1. d \in Seq(Octet) /\ \A i \in 1..Len(d) : d[i] \in AsciiSpace
  BY DEF Blank
<1>2. Trim(d, AsciiSpace) = <<>>
  BY <1>1, TrimIs
<1> QED BY <1>2 DEF CountEntries, Some

-----------------------------------------------------------------------------
\* A responder that refuses to answer says so in the status of its response.
Refusal(code, more) == Before(EnumeratedTag, <<code>>, more)

\* Whatever is behind the status, a refusal is read as one (ocsp.rs:129-141).
LEMMA RefusalIsRead ==
  ASSUME NEW code \in Octet \ {0}, NEW more \in Seq(Octet), Encodable(Len(Refusal(code, more)))
  PROVE  ParseStatus(Sequence(Refusal(code, more))) = Some([status |-> "Responder error"])
<1> DEFINE c == <<code>>
           top == Refusal(code, more)
           d == Sequence(top)
           e == [tag |-> EnumeratedTag, content |-> c]
<1>1. c \in Seq(Octet) /\ c # <<>> /\ c[1] # 0
  OBVIOUS
<1> HIDE DEF c
<1>2. top = Before(EnumeratedTag, c, more)
  BY DEF Refusal, c
<1>3. Octet \subseteq Nat /\ EnumeratedTag \in Octet /\ SequenceTag \in Octet
  BY CodeOctets DEF EnumeratedTag
<1>4. c \in Seq(Nat) /\ more \in Seq(Nat) /\ EnumeratedTag \in Nat
  BY <1>1, <1>3, SeqMonotonic
<1>5. Encodable(Len(c)) /\ Encodable(Len(top))
  BY <1>2, <1>4, BeforeIsLonger
<1> HIDE DEF top
<1>6. top \in Seq(Octet) /\ Child(top, 1) = Some(e)
  BY <1>1, <1>2, <1>3, <1>5, BeforeIsRead
<1>7. Readable(d) /\ Content(d) = top
  BY <1>3, <1>5, <1>6, TlvReads DEF Sequence
<1> HIDE DEF d
<1>8. Descend(top, <<1>>) = Some(e)
  <2> DEFINE path == <<1>>
             way == <<e>>
  <2>1. path \in Seq(Nat \ {0}) /\ path # <<>> /\ Len(path) = 1 /\ path[1] = 1 /\ way[1] = e
    OBVIOUS
  <2> HIDE DEF path, way
  <2>2. \A i \in 1..(Len(path) - 1) : Child(way[i].content, path[i + 1]) = Some(way[i + 1])
    BY <2>1
  <2>3. Descend(top, path) = Some(way[Len(path)])
    BY <1>6, <2>1, <2>2, WayDown
  <2> QED BY <2>1, <2>3 DEF path
<1>9. ~Successful(e)
  BY <1>1 DEF Successful
<1> DEFINE status == Descend(top, <<1>>)
<1>10. status # None /\ ~Successful(status[1])
  BY <1>8, <1>9, SomeIsNotNone
<1> HIDE DEF status
<1>11. ParseStatus(d) = Some([status |-> "Responder error"])
  BY <1>7, <1>10 DEF ParseStatus, status
<1> QED BY <1>11 DEF d, top

\* The value of a header is that of the first one of the name (http.rs:29-34).
LEMMA HeaderIsFirst ==
  ASSUME NEW headers, NEW n \in Nat, DOMAIN headers = 1..n, NEW name
  PROVE  /\ (\A i \in 1..n : headers[i].name # name) => Header(headers, name) = <<>>
         /\ \A h \in 1..n :
              headers[h].name = name /\ (\A i \in 1..(h - 1) : headers[i].name # name)
              => Header(headers, name) = <<headers[h].value>>
<1> DEFINE found == {i \in DOMAIN headers : headers[i].name = name}
<1>1. Header(headers, name) = IF found = {} THEN <<>> ELSE <<headers[Min(found)].value>>
  BY DEF Header
<1>2. \A i : i \in found <=> i \in 1..n /\ headers[i].name = name
  OBVIOUS
<1> HIDE DEF found
<1>3. ASSUME \A i \in 1..n : headers[i].name # name PROVE Header(headers, name) = <<>>
  BY <1>1, <1>2, <1>3
<1>4. ASSUME NEW h \in 1..n, headers[h].name = name, \A i \in 1..(h - 1) : headers[i].name # name
      PROVE  Header(headers, name) = <<headers[h].value>>
  <2>1. h \in found /\ found \subseteq Int
    BY <1>2, <1>4
  <2>2. \A i \in found : h <= i
    <3> SUFFICES ASSUME NEW i \in found, ~(h <= i) PROVE FALSE
      OBVIOUS
    <3>1. i \in 1..(h - 1)
      BY <1>2
    <3> QED BY <1>2, <1>4, <3>1
  <2>3. Min(found) = h
    BY <2>1, <2>2, MinIs
  <2> QED BY <1>1, <2>1, <2>3
<1> QED BY <1>3, <1>4

\* Directives that state a policy: an age, once, and two flags, in any order
\* and among any others.
States(directives, policy) ==
  \E n \in Nat : \E a \in 1..n :
    /\ DOMAIN directives = 1..n
    /\ directives[a].name = "max-age" /\ directives[a].value = <<policy.maxAge>>
    /\ \A i \in 1..n : directives[i].name = "max-age" => i = a
    /\ policy = [present |-> TRUE, maxAge |-> policy.maxAge,
                 subdomains |-> Flag(directives, "includesubdomains"),
                 preload |-> Flag(directives, "preload")]
NoPolicyStated == [present |-> FALSE, maxAge |-> <<>>, subdomains |-> FALSE, preload |-> FALSE]

LEMMA PolicyIsRead ==
  ASSUME NEW directives, NEW policy, States(directives, policy)
  PROVE  ParseHsts(<<directives>>) = policy
<1>0. PICK n \in Nat : \E a \in 1..n :
        /\ DOMAIN directives = 1..n
        /\ directives[a].name = "max-age" /\ directives[a].value = <<policy.maxAge>>
        /\ \A i \in 1..n : directives[i].name = "max-age" => i = a
        /\ policy = [present |-> TRUE, maxAge |-> policy.maxAge,
                     subdomains |-> Flag(directives, "includesubdomains"),
                     preload |-> Flag(directives, "preload")]
  BY DEF States
<1>1. PICK a \in 1..n :
        /\ DOMAIN directives = 1..n
        /\ directives[a].name = "max-age" /\ directives[a].value = <<policy.maxAge>>
        /\ \A i \in 1..n : directives[i].name = "max-age" => i = a
        /\ policy = [present |-> TRUE, maxAge |-> policy.maxAge,
                     subdomains |-> Flag(directives, "includesubdomains"),
                     preload |-> Flag(directives, "preload")]
  BY <1>0
<1> DEFINE header == <<directives>>
           ages == {i \in DOMAIN directives : /\ directives[i].name = "max-age"
                                              /\ directives[i].value # <<>>}
<1>2. header # <<>> /\ header[1] = directives
  OBVIOUS
<1>3. directives[a].value # <<>> /\ directives[a].value[1] = policy.maxAge
  BY <1>1
<1>4. a \in ages /\ \A i \in ages : i = a
  BY <1>1, <1>3
<1>5. ParseHsts(header) =
        [present |-> TRUE,
         maxAge |-> IF ages = {} THEN <<>> ELSE directives[Max(ages)].value[1],
         subdomains |-> Flag(directives, "includesubdomains"),
         preload |-> Flag(directives, "preload")]
  <2> HIDE DEF header
  <2> QED BY <1>2 DEF ParseHsts
<1> HIDE DEF ages, header
<1>6. Max(ages) = a /\ ages # {}
  <2>1. ages \subseteq Int /\ \A i \in ages : a >= i
    BY <1>4
  <2> QED BY <1>4, <2>1, MaxIs
<1>7. ParseHsts(header) = policy
  BY <1>1, <1>3, <1>5, <1>6
<1> QED BY <1>7 DEF header

-----------------------------------------------------------------------------
\* The content of a response with that body, as it is or in chunks.
Carries(p, content) == IF Chunked(p.headers) THEN InChunks(p.body, content) ELSE content = p.body

\* What each of the three parts of the scanner is told by such a content.
SaysStatus(content, means) ==
  \/ \E parts \in Parts : /\ Encodable(Len(Outermost(parts))) /\ content = OcspResponse(parts)
                          /\ means = Some(CertStatus(parts.status.tag))
  \/ \E code \in Octet \ {0}, more \in Seq(Octet) :
       /\ Encodable(Len(Refusal(code, more))) /\ content = Sequence(Refusal(code, more))
       /\ means = Some([status |-> "Responder error"])
SaysEntries(content, means) ==
  \/ \E n \in Nat, front \in Seq(Octet), back \in Seq(Octet) :
       /\ Blank(front, JsonSpace) /\ Blank(back, JsonSpace) /\ content = front \o (JsonArray(n) \o back)
       /\ means = Some([entries |-> n])
  \/ Blank(content, AsciiSpace) /\ means = Some([entries |-> 0])
  \/ /\ \E k \in 1..Len(content) : /\ content[k] \notin JsonSpace \cup {91}
                                   /\ \A i \in 1..(k - 1) : content[i] \in JsonSpace
     /\ ~Blank(content, AsciiSpace) /\ means = None
SaysPolicy(headers, means) ==
  \E n \in Nat :
    /\ DOMAIN headers = 1..n
    /\ \/ (\A i \in 1..n : headers[i].name # Hsts) /\ means = Some(NoPolicyStated)
       \/ \E h \in 1..n, policy \in {means[1]} :
            /\ headers[h].name = Hsts /\ \A i \in 1..(h - 1) : headers[i].name # Hsts
            /\ States(headers[h].value, policy) /\ means = Some(policy)

\* A peer that says what it means, in the form its protocol has for it.
WellSaid(p) ==
  IF p.status = NoStatus THEN p.means = None
  ELSE \E content \in Seq(Octet) :
         /\ Carries(p, content)
         /\ CASE p.user = "hsts" -> SaysPolicy(p.headers, p.means)
              [] p.user = "ct" -> IF p.status = 200 THEN SaysEntries(content, p.means)
                                  ELSE p.means = None
              [] p.user = "ocsp" -> IF p.status = 200 THEN SaysStatus(content, p.means)
                                    ELSE p.means = Some([http |-> p.status])

PeersSpeakWell == \A p \in Peers : WellSaid(p)

\* What is well said is understood (http.rs:97-182, ocsp.rs:48-71, 129-172,
\* ct.rs:34-50, connection.rs:313-341).
LEMMA WellSaidIsUnderstood ==
  ASSUME NEW p \in Peers, WellSaid(p)
  PROVE  Meaning(p) = p.means
<1> DEFINE whole == ParseResponse(TRUE, p.status, p.headers, p.body)
<1>1. p.user \in {"ocsp", "ct", "hsts"} /\ p.body \in Seq(Octet)
  BY ExchangeAssumption
<1>2. CASE p.status = NoStatus
  BY <1>2 DEF WellSaid, Meaning, Answer, ParseResponse, None
<1>3. CASE p.status # NoStatus
  <2>1. PICK content \in Seq(Octet) :
         /\ Carries(p, content)
         /\ CASE p.user = "hsts" -> SaysPolicy(p.headers, p.means)
              [] p.user = "ct" -> IF p.status = 200 THEN SaysEntries(content, p.means)
                                  ELSE p.means = None
              [] p.user = "ocsp" -> IF p.status = 200 THEN SaysStatus(content, p.means)
                                    ELSE p.means = Some([http |-> p.status])
    BY <1>3 DEF WellSaid
  <2>2. (IF Chunked(p.headers) THEN DecodeChunked(p.body) ELSE <<p.body>>) = <<content>>
    BY <2>1, ChunkedBodyIsDecoded DEF Carries
  <2> DEFINE r == [status |-> p.status, headers |-> p.headers, body |-> content]
  <2>3. whole = <<r>>
    <3> DEFINE b == IF Chunked(p.headers) THEN DecodeChunked(p.body) ELSE <<p.body>>
    <3>1. b # <<>> /\ b[1] = content
      BY <2>2
    <3> QED BY <1>3, <3>1 DEF ParseResponse
  <2>4. Meaning(p) = Interpret(p.user, r)
    <3> HIDE DEF whole, r
    <3>1. whole # None /\ whole[1] = r
      BY <2>3 DEF None
    <3>2. Meaning(p) = IF whole = None THEN None ELSE Interpret(p.user, whole[1])
      BY DEF Meaning, Answer, whole
    <3> QED BY <3>1, <3>2
  <2>5. CASE p.user = "ocsp"
    <3>1. Meaning(p) = IF p.status # 200 THEN Some([http |-> p.status]) ELSE ParseStatus(content)
      BY <2>4, <2>5 DEF Interpret
    <3>2. CASE p.status # 200
      BY <2>1, <2>5, <3>1, <3>2
    <3>3. CASE p.status = 200
      <4>1. SaysStatus(content, p.means)
        BY <2>1, <2>5, <3>3
      <4>2. ParseStatus(content) = p.means
        BY <4>1, StatusIsFound, RefusalIsRead DEF SaysStatus
      <4> QED BY <3>1, <3>3, <4>2
    <3> QED BY <3>2, <3>3
  <2>6. CASE p.user = "ct"
    <3>1. Meaning(p) = IF p.status # 200 THEN None ELSE CountEntries(content)
      BY <2>4, <2>6 DEF Interpret
    <3>2. CASE p.status # 200
      BY <2>1, <2>6, <3>1, <3>2
    <3>3. CASE p.status = 200
      <4>1. SaysEntries(content, p.means)
        BY <2>1, <2>6, <3>3
      <4>2. CASE \E n \in Nat, front \in Seq(Octet), back \in Seq(Octet) :
                   /\ Blank(front, JsonSpace) /\ Blank(back, JsonSpace) /\ content = front \o (JsonArray(n) \o back)
                   /\ p.means = Some([entries |-> n])
        BY <3>1, <3>3, <4>2, ArrayIsCounted
      <4>3. CASE Blank(content, AsciiSpace) /\ p.means = Some([entries |-> 0])
        BY <3>1, <3>3, <4>3, BlankIsCounted
      <4>4. CASE /\ \E k \in 1..Len(content) : /\ content[k] \notin JsonSpace \cup {91}
                                               /\ \A i \in 1..(k - 1) : content[i] \in JsonSpace
                 /\ ~Blank(content, AsciiSpace) /\ p.means = None
        <5>1. CountEntries(content) = None
          BY <4>4, TextIsNotCounted
        <5> QED BY <3>1, <3>3, <4>4, <5>1
      <4> QED BY <4>1, <4>2, <4>3, <4>4 DEF SaysEntries
    <3> QED BY <3>2, <3>3
  <2>7. CASE p.user = "hsts"
    <3>1. Meaning(p) = Some(ParseHsts(Header(p.headers, Hsts)))
      BY <2>4, <2>7 DEF Interpret
    <3>2. SaysPolicy(p.headers, p.means)
      BY <2>1, <2>7
    <3>3. PICK n \in Nat :
            /\ DOMAIN p.headers = 1..n
            /\ \/ (\A i \in 1..n : p.headers[i].name # Hsts) /\ p.means = Some(NoPolicyStated)
               \/ \E h \in 1..n, policy \in {p.means[1]} :
                    /\ p.headers[h].name = Hsts /\ \A i \in 1..(h - 1) : p.headers[i].name # Hsts
                    /\ States(p.headers[h].value, policy) /\ p.means = Some(policy)
      BY <3>2 DEF SaysPolicy
    <3>4. CASE (\A i \in 1..n : p.headers[i].name # Hsts) /\ p.means = Some(NoPolicyStated)
      <4>1. Header(p.headers, Hsts) = <<>>
        BY <3>3, <3>4, HeaderIsFirst
      <4> QED BY <3>1, <3>4, <4>1 DEF ParseHsts, NoPolicyStated
    <3>5. CASE \E h \in 1..n, policy \in {p.means[1]} :
                 /\ p.headers[h].name = Hsts /\ \A i \in 1..(h - 1) : p.headers[i].name # Hsts
                 /\ States(p.headers[h].value, policy) /\ p.means = Some(policy)
      <4>1. PICK h \in 1..n, policy \in {p.means[1]} :
              /\ p.headers[h].name = Hsts /\ \A i \in 1..(h - 1) : p.headers[i].name # Hsts
              /\ States(p.headers[h].value, policy) /\ p.means = Some(policy)
        BY <3>5
      <4>2. Header(p.headers, Hsts) = <<p.headers[h].value>>
        BY <3>3, <4>1, HeaderIsFirst
      <4>3. ParseHsts(<<p.headers[h].value>>) = policy
        BY <4>1, PolicyIsRead
      <4> QED BY <3>1, <4>1, <4>2, <4>3
    <3> QED BY <3>3, <3>4, <3>5
  <2> QED BY <1>1, <2>5, <2>6, <2>7
<1> QED BY <1>2, <1>3

\* So nobody is reported to have said what it did not say, wherever the
\* response is cut off (ocsp.rs:48-71, ct.rs:34-49, http.rs:97-182).
THEOREM Answers ==
  ASSUME PeersSpeakWell
  PROVE  Spec => []AnswerIsThePeers
<1>1. \A p \in Peers : p.means = Meaning(p)
  BY WellSaidIsUnderstood DEF PeersSpeakWell
<1>2. TypeOK /\ AnswerInv => AnswerIsThePeers
  BY <1>1 DEF TypeOK, AnswerInv, NothingYet, AnswerIsThePeers
<1> QED BY <1>2, Typing, PartsAnswerLikeTheWhole, PTL

\* An exchange that is closed with the whole response received has its meaning.
WholeInv == phase = "closed" /\ received = Whole => answer = Meaning(peer)

\* And what is sent whole is reported, however it is framed and whatever
\* optional parts it has (http.rs:29-34, 114-182, ocsp.rs:129-172,
\* connection.rs:313-341).
THEOREM WholeAnswers ==
  ASSUME PeersSpeakWell
  PROVE  Spec => []WholeAnswerIsUnderstood
<1>1. Init => WholeInv
  BY DEF Init, WholeInv
<1>2. TypeOK /\ WholeInv /\ [Next]_vars => WholeInv'
  <2> SUFFICES ASSUME TypeOK, WholeInv, [Next]_vars PROVE WholeInv'
    OBVIOUS
  <2>1. CASE Closed
    <3>1. peer' = peer /\ received' = received /\ Whole' = Whole /\ answer' = Answer(peer.user, Response)
      BY <2>1 DEF Closed, Whole
    <3>2. ASSUME received = Whole PROVE Answer(peer.user, Response) = Meaning(peer)
      <4>1. HeadUnits \in Nat /\ peer \in Peers /\ peer.body \in Seq(Octet)
        BY ExchangeAssumption DEF TypeOK
      <4>2. received \in HeadUnits..Whole /\ received >= HeadUnits
        <5> DEFINE l == Len(peer.body)
        <5>1. l \in Nat /\ Whole = HeadUnits + l
          BY <4>1, LenProperties DEF Whole
        <5> HIDE DEF l
        <5> QED BY <3>2, <4>1, <5>1
      <4>3. PICK n \in 0..Len(peer.body) :
              Body = SubSeq(peer.body, 1, n) /\ (received < Whole <=> n < Len(peer.body))
        BY <4>1, <4>2, BodyIsPart
      <4>4. n = Len(peer.body)
        <5> DEFINE l == Len(peer.body)
        <5>1. l \in Nat /\ Whole \in Int
          BY <4>1, LenProperties DEF Whole
        <5>2. n \in 0..l /\ ~(n < l)
          BY <3>2, <4>3, <5>1
        <5> HIDE DEF l
        <5>3. n = l
          BY <5>1, <5>2
        <5> QED BY <5>3 DEF l
      <4>5. Body = peer.body
        BY <4>1, <4>3, <4>4, PartIsWhole
      <4>6. Response = ParseResponse(TRUE, peer.status, peer.headers, peer.body)
        BY <4>2, <4>5 DEF Response
      <4> QED BY <4>6 DEF Meaning
    <3> QED BY <3>1, <3>2 DEF WholeInv
  <2>2. CASE Connected \/ Secured \/ Receive \/ Failed \/ Expired
    <3>1. phase' # "closed"
      BY <2>2 DEF Connected, Secured, Receive, Failed, Expired
    <3> QED BY <3>1 DEF WholeInv
  <2>3. CASE Terminated \/ UNCHANGED vars
    BY <2>3 DEF Terminated, vars, WholeInv, Whole
  <2> QED BY <2>1, <2>2, <2>3 DEF Next
<1>3. \A p \in Peers : p.means = Meaning(p)
  BY WellSaidIsUnderstood DEF PeersSpeakWell
<1>4. TypeOK /\ WholeInv => WholeAnswerIsUnderstood
  BY <1>3 DEF TypeOK, WholeInv, WholeAnswerIsUnderstood
<1> QED BY <1>1, <1>2, <1>4, Typing, PTL DEF Spec
=============================================================================
