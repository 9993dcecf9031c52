----------------------------- MODULE DerProofs -----------------------------
(***************************************************************************)
(* What the encoder and the reader of module Der return for every sequence *)
(* of octets, whatever the size of an octet.                               *)
(***************************************************************************)
EXTENDS Der, Recursion, SequenceTheorems, TLAPS

\* A digit behind a number is a number.
LEMMA ShiftType ==
  ASSUME NEW a \in Nat, NEW b \in Nat
  PROVE  a * Base + b \in Nat
<1>1. Base \in Nat
  BY DerAssumption
<1>2. a * Base \in Nat
  BY <1>1
<1> QED BY <1>2

\* Length octets stand for the number that taking them in one by one yields.
LEMMA ValueRecursion ==
  ASSUME NEW o \in Seq(Octet)
  PROVE  /\ \E f \in [0..Len(o) -> Nat] :
              /\ f[0] = 0 /\ \A i \in 1..Len(o) : f[i] = f[i - 1] * Base + o[i]
              /\ Value(o) = f[Len(o)]
         /\ \A g : (g[0] = 0 /\ \A i \in 1..Len(o) : g[i] = g[i - 1] * Base + o[i])
                  => Value(o) = g[Len(o)]
<1> DEFINE n == Len(o)
           step == [i \in 1..n |-> [v \in Nat |-> v * Base + o[i]]]
           Rhs(f, i) == IF i = 0 THEN 0 ELSE f[i - 1] * Base + o[i]
           upto == CHOOSE f : f = [i \in 0..n |-> Rhs(f, i)]
<1>1. n \in Nat /\ \A i \in 1..n : o[i] \in Nat
  BY LenProperties, ElementOfSeq, DerAssumption DEF Octet
<1>2. step \in [1..n -> [Nat -> Nat]]
  BY <1>1, ShiftType
<1>3. \A i \in 1..n, v \in Nat : step[i][v] = v * Base + o[i]
  OBVIOUS
<1>4. PICK f \in [0..n -> Nat] : Iterates(f, n, 0, step) /\ IsOnlyIteration(f, Nat, n, 0, step)
  <2> HIDE DEF n, step
  <2> QED BY <1>1, <1>2, PrimitiveRecursion
<1>5. f[0] = 0 /\ \A i \in 1..n : f[i] = f[i - 1] * Base + o[i]
  <2>1. \A i \in 1..n : f[i - 1] \in Nat
    BY <1>1
  <2> HIDE DEF step
  <2> QED BY <1>3, <1>4, <2>1 DEF Iterates
<1>6. ASSUME NEW g, g[0] = 0, \A i \in 1..n : g[i] = g[i - 1] * Base + o[i]
      PROVE  \A i \in 0..n : g[i] = f[i]
  <2> HIDE DEF step
  <2> QED BY <1>3, <1>4, <1>6 DEF IsOnlyIteration
<1>7. upto = [i \in 0..n |-> Rhs(upto, i)]
  <2>1. f = [i \in 0..n |-> Rhs(f, i)]
    BY <1>1, <1>5
  <2> HIDE DEF Rhs
  <2> QED BY <2>1
<1>8. upto[0] = 0 /\ \A i \in 1..n : upto[i] = upto[i - 1] * Base + o[i]
  <2>1. \A i \in 0..n : upto[i] = Rhs(upto, i)
    <3> HIDE DEF upto, Rhs
    <3> QED BY <1>7
  <2> HIDE DEF upto
  <2> QED BY <1>1, <2>1
<1>9. Value(o) = f[n]
  <2>1. Value(o) = upto[n]
    BY DEF Value
  <2> HIDE DEF upto
  <2> QED BY <1>1, <1>6, <1>8, <2>1
<1> HIDE DEF upto, Rhs, step
<1> QED BY <1>1, <1>5, <1>6, <1>9

\* Length octets stand for a natural number.
LEMMA ValueType ==
  ASSUME NEW o \in Seq(Octet)
  PROVE  Value(o) \in Nat
<1>1. Len(o) \in 0..Len(o)
  BY LenProperties
<1> QED BY <1>1, ValueRecursion

\* One octet more is one digit more.
LEMMA ValueAppend ==
  ASSUME NEW o \in Seq(Octet), NEW d \in Octet
  PROVE  Value(Append(o, d)) = Value(o) * Base + d
<1> DEFINE e == Append(o, d)
           n == Len(o)
<1>1. /\ e \in Seq(Octet) /\ n \in Nat /\ Len(e) = n + 1 /\ e[n + 1] = d
      /\ \A i \in 1..n : e[i] = o[i]
  BY AppendProperties, LenProperties
<1> HIDE DEF e
<1>2. PICK f \in [0..Len(e) -> Nat] :
        /\ f[0] = 0 /\ \A i \in 1..Len(e) : f[i] = f[i - 1] * Base + e[i]
        /\ Value(e) = f[Len(e)]
  BY <1>1, ValueRecursion
<1>3. Value(o) = f[n]
  <2>1. \A i \in 1..n : f[i] = f[i - 1] * Base + o[i]
    BY <1>1, <1>2
  <2> QED BY <1>2, <2>1, ValueRecursion
<1>4. f[n + 1] = f[n] * Base + d
  BY <1>1, <1>2
<1> QED BY <1>1, <1>2, <1>3, <1>4 DEF e

-----------------------------------------------------------------------------
\* The low end of a number and what is left of it.
LEMMA LowEnd ==
  ASSUME NEW n \in Nat \ {0}
  PROVE  /\ n \div Base \in 0..(n - 1) /\ n % Base \in Octet
         /\ n = (n \div Base) * Base + (n % Base)
<1>1. Base \in Nat /\ Base >= 4
  BY DerAssumption
<1>2. n % Base \in 0..(Base - 1) /\ n \div Base \in Nat
  BY <1>1
<1>3. n = Base * (n \div Base) + (n % Base)
  BY <1>1
<1> DEFINE q == n \div Base
           r == n % Base
<1>4. q \in Nat /\ r \in Nat /\ n = Base * q + r
  BY <1>2, <1>3
<1> HIDE DEF q, r
<1>5. Base * q = q * Base /\ (q # 0 => Base * q > q)
  BY <1>1, <1>4
<1>6. q < n
  BY <1>1, <1>4, <1>5
<1> QED BY <1>2, <1>4, <1>5, <1>6 DEF Octet, q, r

\* The octets of len are those that taking them off its low end yields.
LEMMA BigEndianRecursion ==
  ASSUME NEW len \in Nat
  PROVE  /\ \E f \in [0..len -> Seq(Octet)] :
              /\ f[0] = <<>> /\ \A i \in 1..len : f[i] = Append(f[i \div Base], i % Base)
              /\ BigEndian(len) = f[len]
         /\ \A g : (g[0] = <<>> /\ \A i \in 1..len : g[i] = Append(g[i \div Base], i % Base))
                  => BigEndian(len) = g[len]
<1> DEFINE D == 0..len
           V == Seq(Octet)
           last == {0}
           base == [i \in D |-> <<>>]
           next == [i \in D |-> i \div Base]
           step == [i \in D |-> [s \in V |-> IF i = 0 THEN <<>> ELSE Append(s, i % Base)]]
           rank == [i \in D |-> i]
           Rhs(f, i) == IF i = 0 THEN <<>> ELSE Append(f[i \div Base], i % Base)
           be == CHOOSE f : f = [n \in D |-> Rhs(f, n)]
<1>1. \A i \in 1..len : i \div Base \in 0..(i - 1) /\ i % Base \in Octet
  BY LowEnd
<1>2. <<>> \in V /\ \A i \in 1..len, s \in V : Append(s, i % Base) \in V
  BY <1>1, AppendProperties, EmptySeq
<1>3. WellFounded(D, V, last, base, next, step, rank, len)
  <2>1. base \in [D -> V] /\ rank \in [D -> 0..len]
    BY <1>2
  <2>2. step \in [D -> [V -> V]]
    <3>1. \A i \in D : i = 0 \/ i \in 1..len
      OBVIOUS
    <3> HIDE DEF V, D
    <3> QED BY <1>2, <3>1
  <2>3. \A i \in D \ last : next[i] \in D /\ rank[next[i]] < rank[i]
    BY <1>1
  <2> HIDE DEF D, V, last, base, next, step, rank
  <2> QED BY <2>1, <2>2, <2>3 DEF WellFounded
<1>4. \A f : \A i \in 1..len : f[i \div Base] \in V =>
                 Unfold(f, i, last, base, next, step) = Append(f[i \div Base], i % Base)
  <2>1. ASSUME NEW i \in 1..len, NEW s \in V PROVE step[i][s] = Append(s, i % Base)
    <3>1. i \in D /\ i # 0
      OBVIOUS
    <3> HIDE DEF D, V
    <3> QED BY <3>1
  <2>2. \A i \in 1..len : i \notin last /\ next[i] = i \div Base
    OBVIOUS
  <2> HIDE DEF V, last, step, next
  <2> QED BY <2>1, <2>2 DEF Unfold
<1>5. \A f : Unfold(f, 0, last, base, next, step) = <<>>
  BY DEF Unfold
<1>6. \A i \in D : i = 0 \/ (i \in 1..len /\ i \notin last /\ next[i] = i \div Base)
  OBVIOUS
<1>7. 0 \in D /\ 0 \in last /\ len \in D /\ (\A i \in 1..len : i \in D /\ i \div Base \in D /\ i # 0)
  BY <1>1
<1> HIDE DEF V, last, base, next, step, rank
<1>8. PICK f \in [D -> V] : /\ Solves(f, D, last, base, next, step)
                            /\ IsOnlySolution(f, D, V, last, base, next, step)
  <2> HIDE DEF D
  <2> QED BY <1>3, RecursionTheorem
<1> HIDE DEF D
<1>9. f[0] = <<>> /\ \A i \in 1..len : f[i] = Append(f[i \div Base], i % Base)
  BY <1>4, <1>5, <1>7, <1>8 DEF Solves
<1>10. ASSUME NEW g, g[0] = <<>>, \A i \in 1..len : g[i] = Append(g[i \div Base], i % Base)
       PROVE  g[len] = f[len]
  <2>1. \A i \in D : (i \notin last => g[next[i]] \in V)
                      => g[i] = Unfold(g, i, last, base, next, step)
    BY <1>4, <1>5, <1>6, <1>10
  <2> QED BY <1>7, <1>8, <2>1 DEF IsOnlySolution
<1>11. be = [n \in D |-> Rhs(be, n)]
  <2>1. \A n \in D : f[n] = Rhs(f, n)
    BY <1>6, <1>7, <1>9
  <2> HIDE DEF Rhs
  <2>2. f = [n \in D |-> Rhs(f, n)]
    BY <1>8, <2>1
  <2> QED BY <2>2
<1>12. be[0] = <<>> /\ \A i \in 1..len : be[i] = Append(be[i \div Base], i % Base)
  <2>1. \A n \in D : be[n] = Rhs(be, n)
    <3> HIDE DEF be, Rhs
    <3> QED BY <1>11
  <2> HIDE DEF be
  <2> QED BY <1>7, <2>1
<1>13. BigEndian(len) = f[len]
  <2>1. BigEndian(len) = be[len]
    BY DEF BigEndian, D
  <2> HIDE DEF be
  <2> QED BY <1>10, <1>12, <2>1
<1> HIDE DEF be, Rhs
<1> QED BY <1>8, <1>9, <1>10, <1>13 DEF D, V

\* The octets of a number are octets, and all but the last are those of what
\* is left of it (der.rs:17-22).
LEMMA BigEndianUnfold ==
  ASSUME NEW len \in Nat
  PROVE  /\ BigEndian(len) \in Seq(Octet)
         /\ len = 0 => BigEndian(len) = <<>>
         /\ len # 0 => BigEndian(len) = Append(BigEndian(len \div Base), len % Base)
<1>1. PICK f \in [0..len -> Seq(Octet)] :
        /\ f[0] = <<>> /\ \A i \in 1..len : f[i] = Append(f[i \div Base], i % Base)
        /\ BigEndian(len) = f[len]
  BY BigEndianRecursion
<1>2. ASSUME len # 0 PROVE BigEndian(len) = Append(BigEndian(len \div Base), len % Base)
  <2> DEFINE n == len \div Base
  <2>1. n \in 0..(len - 1)
    BY <1>2, LowEnd
  <2> HIDE DEF n
  <2>2. \A i \in 1..n : f[i] = Append(f[i \div Base], i % Base)
    BY <1>1, <2>1
  <2>3. BigEndian(n) = f[n]
    <3>1. n \in Nat
      BY <2>1
    <3>2. f[0] = <<>> /\ \A i \in 1..n : f[i] = Append(f[i \div Base], i % Base)
      BY <1>1, <2>2
    <3>3. (f[0] = <<>> /\ \A i \in 1..n : f[i] = Append(f[i \div Base], i % Base))
          => BigEndian(n) = f[n]
      BY <3>1, BigEndianRecursion
    <3> QED BY <3>2, <3>3
  <2>4. f[len] = Append(f[n], len % Base)
    BY <1>1, <1>2 DEF n
  <2> QED BY <1>1, <2>3, <2>4 DEF n
<1> QED BY <1>1, <1>2

\* Reading the octets of a number yields the number (der.rs:17-22, 90-92).
LEMMA ValueOfBigEndian ==
  ASSUME NEW len \in Nat
  PROVE  /\ Value(BigEndian(len)) = len
         /\ len # 0 => Len(BigEndian(len)) \in Nat \ {0}
<1> DEFINE S == {k \in Nat : \A n \in 0..k : Value(BigEndian(n)) = n}
<1>0. Value(<<>>) = 0
  <2> DEFINE g == [i \in {0} |-> 0]
  <2>1. <<>> \in Seq(Octet) /\ Len(<<>>) = 0
    BY EmptySeq
  <2>2. g[0] = 0 /\ \A i \in 1..Len(<<>>) : g[i] = g[i - 1] * Base + <<>>[i]
    BY <2>1
  <2> HIDE DEF g
  <2> QED BY <2>1, <2>2, ValueRecursion
<1>1. 0 \in S
  BY <1>0, BigEndianUnfold
<1>2. ASSUME NEW k \in Nat, k \in S PROVE k + 1 \in S
  <2> DEFINE n == k + 1
             q == n \div Base
  <2>1. n \in Nat \ {0} /\ q \in 0..k /\ n % Base \in Octet /\ n = q * Base + (n % Base)
    BY LowEnd
  <2>2. BigEndian(n) = Append(BigEndian(q), n % Base) /\ BigEndian(q) \in Seq(Octet)
    BY <2>1, BigEndianUnfold
  <2>3. Value(BigEndian(q)) = q
    BY <1>2, <2>1
  <2>4. Value(BigEndian(n)) = q * Base + (n % Base)
    <3> HIDE DEF n, q
    <3> QED BY <2>1, <2>2, <2>3, ValueAppend
  <2>5. Value(BigEndian(n)) = n
    <3> HIDE DEF n, q
    <3> QED BY <2>1, <2>4
  <2>6. \A m \in 0..n : m = n \/ m \in 0..k
    OBVIOUS
  <2> HIDE DEF q
  <2> QED BY <1>2, <2>5, <2>6
<1>3. Nat \subseteq S
  <2> HIDE DEF S
  <2> QED BY <1>1, <1>2, SetInduction
<1>4. Value(BigEndian(len)) = len
  <2>1. len \in S /\ len \in 0..len
    BY <1>3
  <2> QED BY <2>1
<1>5. ASSUME len # 0 PROVE Len(BigEndian(len)) \in Nat \ {0}
  <2>1. BigEndian(len) \in Seq(Octet) /\ BigEndian(len) # <<>>
    BY <1>0, <1>4, <1>5, BigEndianUnfold
  <2> QED BY <2>1, EmptySeq
<1> QED BY <1>4, <1>5

\* From a prefix of a sequence, however long, the same slices are cut.
LEMMA SliceOfPrefix ==
  ASSUME NEW S, NEW d \in Seq(S), NEW n \in 0..Len(d), NEW i \in 1..(n + 1), NEW j \in Int, j <= n
  PROVE  SubSeq(SubSeq(d, 1, n), i, j) = SubSeq(d, i, j)
<1> DEFINE e == SubSeq(d, 1, n)
           a == SubSeq(e, i, j)
           b == SubSeq(d, i, j)
<1>1. e \in Seq(S) /\ Len(e) = n /\ \A k \in 1..n : e[k] = d[k] /\ d[k] \in S
  <2>1. \A k \in 1..n : d[k] \in S
    BY ElementOfSeq
  <2> QED BY <2>1, SubSeqProperties
<1> HIDE DEF e
<1>2. /\ a \in Seq(S) /\ Len(a) = IF i <= j THEN j - i + 1 ELSE 0
      /\ \A k \in 1..(j - i + 1) : a[k] = e[i + k - 1]
  <2>1. \A k \in i..j : e[k] \in S
    BY <1>1
  <2> QED BY <2>1, SubSeqProperties
<1>3. /\ b \in Seq(S) /\ Len(b) = IF i <= j THEN j - i + 1 ELSE 0
      /\ \A k \in 1..(j - i + 1) : b[k] = d[i + k - 1]
  <2>1. \A k \in i..j : d[k] \in S
    BY <1>1
  <2> QED BY <2>1, SubSeqProperties
<1>4. \A k \in 1..Len(a) : a[k] = b[k]
  BY <1>1, <1>2, <1>3
<1> HIDE DEF a, b
<1>5. a = b
  BY <1>2, <1>3, <1>4, SeqEqual
<1> QED BY <1>5 DEF a, b, e

-----------------------------------------------------------------------------
\* A value that reads has a tag, lies inside what was read from and takes up
\* at least the two octets of its header; a slice of it needs no check
\* (der.rs:76-104).
LEMMA ReadableBounds ==
  ASSUME NEW d \in Seq(Octet), Readable(d)
  PROVE  /\ d[1] \in Octet /\ d[2] \in Octet
         /\ HeaderLen(d) \in 2..Len(d) /\ ContentLen(d) \in Nat
         /\ TotalLen(d) \in HeaderLen(d)..Len(d)
<1>1. d[1] \in Octet /\ d[2] \in Octet /\ Len(d) \in Nat
  BY ElementOfSeq, LenProperties DEF Readable
<1>2. Octets(d) \in Nat /\ HeaderLen(d) \in 2..Len(d)
  BY <1>1, DerAssumption DEF Readable, Octets, HeaderLen
<1>3. ContentLen(d) \in Nat
  <2>1. CASE Long(d)
    <3>1. SubSeq(d, 3, HeaderLen(d)) \in Seq(Octet)
      <4>1. \A k \in 3..HeaderLen(d) : d[k] \in Octet
        BY <1>2, ElementOfSeq
      <4> QED BY <1>2, <4>1, SubSeqProperties
    <3> QED BY <2>1, <3>1, ValueType DEF ContentLen
  <2>2. CASE ~Long(d)
    BY <1>1, <2>2, DerAssumption DEF ContentLen, Octet
  <2> QED BY <2>1, <2>2
<1> QED BY <1>1, <1>2, <1>3 DEF Readable, TotalLen

\* Reading is local: from the first n octets of a buffer the value at its front
\* reads exactly if it lies wholly within them, and then it is the same value.
\* So what is cut off is never taken for a shorter value, and what follows a
\* value changes nothing about it (der.rs:72-104).
THEOREM ReadingIsLocal ==
  ASSUME NEW d \in Seq(Octet), Readable(d), NEW n \in 0..Len(d)
  PROVE  LET e == SubSeq(d, 1, n) IN
         /\ Readable(e) <=> n >= TotalLen(d)
         /\ Readable(e) => /\ TotalLen(e) = TotalLen(d) /\ e[1] = d[1]
                           /\ Content(e) = Content(d)
<1> DEFINE e == SubSeq(d, 1, n)
<1>0. n \in Nat /\ Len(d) \in Nat
  BY LenProperties
<1>1. /\ HeaderLen(d) \in 2..Len(d) /\ ContentLen(d) \in Nat
      /\ TotalLen(d) \in HeaderLen(d)..Len(d) /\ d[1] \in Octet /\ d[2] \in Octet
  BY ReadableBounds
<1>2. e \in Seq(Octet) /\ Len(e) = n /\ \A k \in 1..n : e[k] = d[k]
  <2>1. \A k \in 1..n : d[k] \in Octet
    BY ElementOfSeq
  <2> QED BY <2>1, SubSeqProperties
<1>3. \A i \in 1..(n + 1), j \in Int : j <= n => SubSeq(e, i, j) = SubSeq(d, i, j)
  BY SliceOfPrefix
<1> HIDE DEF e
<1>4. CASE n < 2
  BY <1>1, <1>2, <1>4 DEF Readable
<1>5. CASE n >= 2
  <2>1. e[1] = d[1] /\ e[2] = d[2]
    BY <1>2, <1>5
  <2>2. /\ Long(e) <=> Long(d)
        /\ Octets(e) = Octets(d) /\ HeaderLen(e) = HeaderLen(d)
    BY <2>1 DEF Long, Octets, HeaderLen
  <2>3. CASE n < HeaderLen(d)
    <3>1. Long(d)
      BY <1>5, <2>3 DEF HeaderLen, Octets
    <3>2. ~Readable(e)
      BY <1>0, <1>1, <1>2, <2>2, <2>3, <3>1 DEF Readable
    <3> QED BY <1>1, <2>3, <3>2 DEF e
  <2>4. CASE n >= HeaderLen(d)
    <3>1. SubSeq(e, 3, HeaderLen(d)) = SubSeq(d, 3, HeaderLen(d))
      <4>1. 3 \in 1..(n + 1) /\ HeaderLen(d) \in Int /\ HeaderLen(d) <= n
        BY <1>0, <1>1, <1>5, <2>4
      <4> QED BY <1>3, <4>1, Zenon
    <3>2. ContentLen(e) = ContentLen(d) /\ TotalLen(e) = TotalLen(d)
      BY <2>1, <2>2, <3>1 DEF ContentLen, TotalLen
    <3>3. Readable(e) <=> n >= TotalLen(d)
      BY <1>1, <1>2, <1>5, <2>2, <2>4, <3>2 DEF Readable
    <3>4. n >= TotalLen(d) => Content(e) = Content(d)
      <4>1. ASSUME n >= TotalLen(d)
            PROVE  HeaderLen(d) + 1 \in 1..(n + 1) /\ TotalLen(d) \in Int
        BY <1>0, <1>1, <4>1
      <4> QED BY <1>0, <1>1, <1>3, <2>2, <3>2, <4>1 DEF Content
    <3> QED BY <2>1, <3>2, <3>3, <3>4 DEF e
  <2> QED BY <1>1, <2>3, <2>4
<1>6. n < 2 \/ n >= 2
  BY <1>0
<1> QED BY <1>4, <1>5, <1>6, Zenon

\* Conversely, what reads from the first n octets reads from all of them.
LEMMA ReadingExtends ==
  ASSUME NEW d \in Seq(Octet), NEW n \in 0..Len(d), Readable(SubSeq(d, 1, n))
  PROVE  LET e == SubSeq(d, 1, n) IN
         /\ Readable(d)
         /\ TotalLen(d) = TotalLen(e) /\ d[1] = e[1] /\ Content(d) = Content(e)
<1> DEFINE e == SubSeq(d, 1, n)
<1>1. e \in Seq(Octet) /\ Len(e) = n /\ \A k \in 1..n : e[k] = d[k]
  <2>1. \A k \in 1..n : d[k] \in Octet
    BY ElementOfSeq
  <2> QED BY <2>1, SubSeqProperties
<1>2. \A i \in 1..(n + 1), j \in Int : j <= n => SubSeq(e, i, j) = SubSeq(d, i, j)
  BY SliceOfPrefix
<1>3. n \in Nat /\ Len(d) \in Nat /\ n <= Len(d) /\ Readable(e)
  BY LenProperties
<1> HIDE DEF e
<1>4. /\ HeaderLen(e) \in 2..n /\ ContentLen(e) \in Nat /\ TotalLen(e) \in HeaderLen(e)..n
      /\ n >= 2
  BY <1>1, <1>3, ReadableBounds DEF Readable
<1>5. e[1] = d[1] /\ e[2] = d[2]
  BY <1>1, <1>4
<1>6. /\ Long(e) <=> Long(d)
      /\ Octets(e) = Octets(d) /\ HeaderLen(e) = HeaderLen(d)
  BY <1>5 DEF Long, Octets, HeaderLen
<1>7. SubSeq(e, 3, HeaderLen(e)) = SubSeq(d, 3, HeaderLen(e))
  <2>1. 3 \in 1..(n + 1) /\ HeaderLen(e) \in Int /\ HeaderLen(e) <= n
    BY <1>3, <1>4
  <2> QED BY <1>2, <2>1, Zenon
<1>8. ContentLen(d) = ContentLen(e) /\ TotalLen(d) = TotalLen(e)
  BY <1>5, <1>6, <1>7 DEF ContentLen, TotalLen
<1>9. Readable(d)
  BY <1>1, <1>3, <1>4, <1>6, <1>8 DEF Readable
<1>10. Content(d) = Content(e)
  <2>1. HeaderLen(e) + 1 \in 1..(n + 1) /\ TotalLen(e) \in Int /\ TotalLen(e) <= n
    BY <1>3, <1>4
  <2> QED BY <1>2, <1>6, <1>8, <2>1 DEF Content
<1> QED BY <1>5, <1>8, <1>9, <1>10 DEF e

-----------------------------------------------------------------------------
\* The encoding of a value is octets, and reads as that value (der.rs:13-38,
\* 72-104).
LEMMA TlvReads ==
  ASSUME NEW tag \in Octet, NEW c \in Seq(Octet), Encodable(Len(c))
  PROVE  LET d == Tlv(tag, c) IN
         /\ d \in Seq(Octet) /\ Readable(d)
         /\ TotalLen(d) = Len(d) /\ d[1] = tag /\ Content(d) = c
<1> DEFINE len == Len(c)
           be == BigEndian(len)
           w == Len(be)
           E == EncodeLen(len)
           p == <<tag>> \o E
           d == p \o c
           h == Len(p)
<1>0. d = Tlv(tag, c)
  BY DEF Tlv
<1>1. /\ len \in Nat /\ Half \in Nat /\ Base = 2 * Half /\ LenOctets < Half /\ LenOctets \in Nat
      /\ be \in Seq(Octet) /\ w \in Nat /\ w <= LenOctets /\ Value(be) = len
      /\ len # 0 => w > 0
  <2>1. len \in Nat
    BY LenProperties
  <2>2. Half \in Nat /\ Base = 2 * Half /\ LenOctets < Half /\ LenOctets \in Nat
    BY DerAssumption DEF Half
  <2>3. be \in Seq(Octet) /\ Value(be) = len /\ (len # 0 => Len(be) \in Nat \ {0})
    <3> HIDE DEF len
    <3> QED BY <2>1, BigEndianUnfold, ValueOfBigEndian
  <2>4. w \in Nat
    <3> HIDE DEF be
    <3> QED BY <2>3, LenProperties
  <2> QED BY <2>1, <2>2, <2>3, <2>4 DEF Encodable
<1>2. /\ E = IF len < Half THEN <<len>> ELSE <<Half + w>> \o be
  BY DEF EncodeLen
<1> HIDE DEF len, be, w, E
<1>3. /\ E \in Seq(Octet) /\ Len(E) = (IF len < Half THEN 1 ELSE 1 + w)
      /\ E[1] = (IF len < Half THEN len ELSE Half + w)
      /\ len >= Half => \A i \in 1..w : E[i + 1] = be[i]
  <2>1. CASE len < Half
    BY <1>1, <1>2, <2>1 DEF Octet
  <2>2. CASE ~(len < Half)
    <3>1. Half + w \in Octet
      BY <1>1 DEF Octet
    <3>2. <<Half + w>> \in Seq(Octet) /\ Len(<<Half + w>>) = 1 /\ <<Half + w>>[1] = Half + w
      BY <3>1
    <3>3. E = <<Half + w>> \o be
      BY <1>2, <2>2
    <3>4. /\ E \in Seq(Octet) /\ Len(E) = 1 + Len(be)
          /\ \A i \in 1..(1 + Len(be)) : E[i] = IF i <= 1 THEN <<Half + w>>[i] ELSE be[i - 1]
      BY <1>1, <3>2, <3>3, ConcatProperties
    <3>5. Len(be) = w
      BY DEF w
    <3> QED BY <1>1, <2>2, <3>2, <3>4, <3>5
  <2> QED BY <2>1, <2>2
<1>4. /\ p \in Seq(Octet) /\ h = 1 + Len(E) /\ p[1] = tag
      /\ \A i \in 1..Len(E) : p[i + 1] = E[i]
  <2>1. <<tag>> \in Seq(Octet) /\ Len(<<tag>>) = 1 /\ <<tag>>[1] = tag
    OBVIOUS
  <2>2. /\ p \in Seq(Octet) /\ Len(p) = 1 + Len(E)
        /\ \A i \in 1..(1 + Len(E)) : p[i] = IF i <= 1 THEN <<tag>>[i] ELSE E[i - 1]
    BY <1>3, <2>1, ConcatProperties
  <2>3. Len(E) \in Nat
    BY <1>3, LenProperties
  <2> QED BY <2>1, <2>2, <2>3
<1> HIDE DEF p
<1>5. /\ d \in Seq(Octet) /\ Len(d) = h + len
      /\ \A i \in 1..h : d[i] = p[i]
      /\ \A i \in 1..len : d[h + i] = c[i]
  <2>1. /\ d \in Seq(Octet) /\ Len(d) = Len(p) + Len(c)
        /\ \A i \in 1..(Len(p) + Len(c)) : d[i] = IF i <= Len(p) THEN p[i] ELSE c[i - Len(p)]
    <3>1. p \in Seq(Octet)
      BY <1>4
    <3> QED BY <3>1, ConcatProperties
  <2>2. Len(p) \in Nat /\ Len(c) \in Nat
    BY <1>4, LenProperties
  <2> QED BY <2>1, <2>2 DEF len
<1>6. h = (IF len < Half THEN 2 ELSE 2 + w)
  BY <1>1, <1>3, <1>4
<1> HIDE DEF d, h
<1>7. d[1] = tag /\ d[2] = (IF len < Half THEN len ELSE Half + w)
  BY <1>1, <1>3, <1>4, <1>5, <1>6
<1>8. (Long(d) <=> ~(len < Half)) /\ HeaderLen(d) = h /\ (Long(d) => Octets(d) = w)
  BY <1>1, <1>6, <1>7 DEF Long, Octets, HeaderLen
<1>9. ContentLen(d) = len
  <2>1. CASE len < Half
    BY <1>7, <1>8, <2>1 DEF ContentLen
  <2>2. CASE ~(len < Half)
    <3> DEFINE s == SubSeq(d, 3, h)
    <3>1. h = 2 + w /\ h \in Int /\ \A i \in 3..h : d[i] \in Octet
      BY <1>1, <1>5, <1>6, <2>2, ElementOfSeq
    <3>2. /\ s \in Seq(Octet) /\ Len(s) = (IF 3 <= h THEN h - 3 + 1 ELSE 0)
          /\ \A i \in 1..(h - 3 + 1) : s[i] = d[3 + i - 1]
      BY <3>1, SubSeqProperties
    <3> HIDE DEF s
    <3>3. Len(s) = w /\ \A i \in 1..w : s[i] = be[i]
      <4>1. ASSUME NEW i \in 1..w PROVE s[i] = be[i]
        <5>1. s[i] = d[i + 2] /\ i + 2 \in 1..h /\ i + 1 \in 1..Len(E)
          BY <1>1, <1>3, <2>2, <3>1, <3>2
        <5>2. p[(i + 1) + 1] = E[i + 1] /\ E[i + 1] = be[i]
          BY <1>1, <1>3, <1>4, <2>2, <5>1
        <5>3. (i + 1) + 1 = i + 2
          OBVIOUS
        <5> QED BY <1>5, <5>1, <5>2, <5>3
      <4> QED BY <1>1, <3>1, <3>2, <4>1
    <3>4. s = be
      BY <1>1, <3>2, <3>3, SeqEqual DEF w
    <3> QED BY <1>1, <1>8, <2>2, <3>4 DEF ContentLen, s
  <2> QED BY <2>1, <2>2
<1>10. Readable(d) /\ TotalLen(d) = Len(d)
  BY <1>1, <1>5, <1>6, <1>8, <1>9 DEF Readable, TotalLen
<1>11. Content(d) = c
  <2> DEFINE s == SubSeq(d, h + 1, h + len)
  <2>1. h \in Nat /\ \A i \in (h + 1)..(h + len) : d[i] \in Octet
    BY <1>1, <1>5, <1>6, ElementOfSeq
  <2>2. /\ s \in Seq(Octet) /\ Len(s) = (IF h + 1 <= h + len THEN (h + len) - (h + 1) + 1 ELSE 0)
        /\ \A i \in 1..((h + len) - (h + 1) + 1) : s[i] = d[(h + 1) + i - 1]
    BY <1>1, <2>1, SubSeqProperties
  <2> HIDE DEF s
  <2>3. Len(s) = len /\ \A i \in 1..len : s[i] = c[i]
    BY <1>1, <1>5, <2>1, <2>2
  <2>4. s = c
    BY <2>2, <2>3, SeqEqual DEF len
  <2> QED BY <1>8, <1>9, <2>4 DEF Content, TotalLen, s
<1> QED BY <1>0, <1>5, <1>7, <1>10, <1>11

\* A concatenation falls apart into its parts.
LEMMA PartsOfConcat ==
  ASSUME NEW S, NEW s \in Seq(S), NEW t \in Seq(S)
  PROVE  /\ s \o t \in Seq(S) /\ Len(s \o t) = Len(s) + Len(t)
         /\ SubSeq(s \o t, 1, Len(s)) = s
         /\ SubSeq(s \o t, Len(s) + 1, Len(s \o t)) = t
<1> DEFINE d == s \o t
           m == Len(s)
           n == Len(t)
           a == SubSeq(d, 1, m)
           b == SubSeq(d, m + 1, m + n)
<1>1. m \in Nat /\ n \in Nat
  BY LenProperties
<1>2. /\ d \in Seq(S) /\ Len(d) = m + n
      /\ \A i \in 1..(m + n) : d[i] = IF i <= m THEN s[i] ELSE t[i - m]
  BY ConcatProperties
<1>3. \A i \in 1..(m + n) : d[i] \in S
  BY <1>2, ElementOfSeq
<1> HIDE DEF d
<1>4. a = s
  <2>1. \A i \in 1..m : d[i] \in S
    BY <1>1, <1>3
  <2>2. a \in Seq(S) /\ Len(a) = (IF 1 <= m THEN m - 1 + 1 ELSE 0) /\ \A i \in 1..(m - 1 + 1) : a[i] = d[1 + i - 1]
    BY <1>1, <2>1, SubSeqProperties
  <2>3. Len(a) = m /\ \A i \in 1..m : a[i] = s[i]
    BY <1>1, <1>2, <2>2
  <2> HIDE DEF a
  <2> QED BY <2>2, <2>3, SeqEqual
<1>5. b = t
  <2>1. \A i \in (m + 1)..(m + n) : d[i] \in S
    BY <1>1, <1>3
  <2>2. /\ b \in Seq(S) /\ Len(b) = (IF m + 1 <= m + n THEN (m + n) - (m + 1) + 1 ELSE 0)
        /\ \A i \in 1..((m + n) - (m + 1) + 1) : b[i] = d[(m + 1) + i - 1]
    BY <1>1, <2>1, SubSeqProperties
  <2>3. ASSUME NEW i \in 1..n PROVE b[i] = t[i]
    <3>1. b[i] = d[m + i] /\ m + i \in 1..(m + n) /\ ~(m + i <= m) /\ (m + i) - m = i
      BY <1>1, <2>2
    <3> QED BY <1>2, <3>1
  <2>4. Len(b) = n
    BY <1>1, <2>2
  <2> HIDE DEF b
  <2> QED BY <2>2, <2>3, <2>4, SeqEqual
<1> QED BY <1>2, <1>4, <1>5 DEF d

\* So it does with anything behind it.
LEMMA TlvReadsFirst ==
  ASSUME NEW tag \in Octet, NEW c \in Seq(Octet), Encodable(Len(c)), NEW rest \in Seq(Octet)
  PROVE  LET d == Tlv(tag, c) \o rest IN
         /\ d \in Seq(Octet) /\ Readable(d)
         /\ d[1] = tag /\ Content(d) = c
         /\ TotalLen(d) = Len(Tlv(tag, c))
         /\ SubSeq(d, TotalLen(d) + 1, Len(d)) = rest
<1> DEFINE e == Tlv(tag, c)
           d == e \o rest
<1>1. e \in Seq(Octet) /\ Readable(e) /\ TotalLen(e) = Len(e) /\ e[1] = tag /\ Content(e) = c
  BY TlvReads
<1> HIDE DEF e
<1>2. /\ d \in Seq(Octet) /\ Len(d) = Len(e) + Len(rest)
      /\ SubSeq(d, 1, Len(e)) = e
      /\ SubSeq(d, Len(e) + 1, Len(d)) = rest
  BY <1>1, PartsOfConcat
<1>3. Len(e) \in 0..Len(d)
  BY <1>1, <1>2, LenProperties
<1> HIDE DEF d
<1>4. Readable(d) /\ TotalLen(d) = TotalLen(e) /\ d[1] = e[1] /\ Content(d) = Content(e)
  <2>1. Readable(SubSeq(d, 1, Len(e)))
    BY <1>1, <1>2
  <2>2. LET s == SubSeq(d, 1, Len(e)) IN
        Readable(d) /\ TotalLen(d) = TotalLen(s) /\ d[1] = s[1] /\ Content(d) = Content(s)
    BY <1>2, <1>3, <2>1, ReadingExtends
  <2> QED BY <1>2, <2>2
<1> QED BY <1>1, <1>2, <1>4 DEF d, e

-----------------------------------------------------------------------------
\* The part of c from i on, and the element at its front.
From(c, i) == SubSeq(c, i, Len(c))
Front(d) == [tag |-> d[1], content |-> Content(d)]

LEMMA FromType ==
  ASSUME NEW c \in Seq(Octet), NEW i \in 1..(Len(c) + 1)
  PROVE  /\ From(c, i) \in Seq(Octet) /\ Len(From(c, i)) = Len(c) + 1 - i
         /\ \A k \in 1..(Len(c) + 1 - i) : From(c, i)[k] = c[i + k - 1]
<1>1. Len(c) \in Nat /\ i \in Int
  BY LenProperties
<1>2. \A k \in i..Len(c) : c[k] \in Octet
  BY <1>1, ElementOfSeq
<1>3. /\ From(c, i) \in Seq(Octet) /\ Len(From(c, i)) = (IF i <= Len(c) THEN Len(c) - i + 1 ELSE 0)
      /\ \A k \in 1..(Len(c) - i + 1) : From(c, i)[k] = c[i + k - 1]
  BY <1>1, <1>2, SubSeqProperties DEF From
<1> QED BY <1>1, <1>3

\* A part of a part.
LEMMA FromFrom ==
  ASSUME NEW c \in Seq(Octet), NEW i \in 1..(Len(c) + 1), NEW k \in 1..(Len(c) + 2 - i)
  PROVE  From(From(c, i), k) = From(c, i + k - 1)
<1> DEFINE d == From(c, i)
           a == From(d, k)
           b == From(c, i + k - 1)
<1>1. Len(c) \in Nat
  BY LenProperties
<1>2. d \in Seq(Octet) /\ Len(d) = Len(c) + 1 - i /\ \A j \in 1..Len(d) : d[j] = c[i + j - 1]
  BY FromType
<1> HIDE DEF d
<1>3. a \in Seq(Octet) /\ Len(a) = Len(d) + 1 - k /\ \A j \in 1..Len(a) : a[j] = d[k + j - 1]
  <2>1. k \in 1..(Len(d) + 1)
    BY <1>1, <1>2
  <2> QED BY <1>2, <2>1, FromType
<1>4. /\ b \in Seq(Octet) /\ Len(b) = Len(c) + 1 - (i + k - 1)
      /\ \A j \in 1..Len(b) : b[j] = c[(i + k - 1) + j - 1]
  <2>1. i + k - 1 \in 1..(Len(c) + 1)
    BY <1>1
  <2> QED BY <2>1, FromType
<1>5. Len(a) = Len(b)
  BY <1>1, <1>2, <1>3, <1>4
<1>6. ASSUME NEW j \in 1..Len(a) PROVE a[j] = b[j]
  <2>1. a[j] = d[k + j - 1] /\ k + j - 1 \in 1..Len(d)
    BY <1>1, <1>2, <1>3
  <2>2. d[k + j - 1] = c[i + (k + j - 1) - 1] /\ b[j] = c[(i + k - 1) + j - 1]
    BY <1>2, <1>4, <1>5, <2>1
  <2>3. i + (k + j - 1) - 1 = (i + k - 1) + j - 1
    BY <1>1, <1>3
  <2> QED BY <2>1, <2>2, <2>3
<1> HIDE DEF a, b
<1>7. a = b
  BY <1>3, <1>4, <1>5, <1>6, SeqEqual
<1> QED BY <1>7 DEF a, b, d

\* A slice of a part is a slice of the whole.
LEMMA SliceOfFrom ==
  ASSUME NEW c \in Seq(Octet), NEW i \in 1..(Len(c) + 1),
         NEW a \in Nat \ {0}, NEW b \in Int, b <= Len(c) + 1 - i
  PROVE  SubSeq(From(c, i), a, b) = SubSeq(c, i + a - 1, i + b - 1)
<1> DEFINE d == From(c, i)
           s == SubSeq(d, a, b)
           t == SubSeq(c, i + a - 1, i + b - 1)
<1>1. Len(c) \in Nat
  BY LenProperties
<1>2. d \in Seq(Octet) /\ Len(d) = Len(c) + 1 - i /\ \A k \in 1..Len(d) : d[k] = c[i + k - 1]
  BY FromType
<1> HIDE DEF d
<1>3. /\ s \in Seq(Octet) /\ Len(s) = (IF a <= b THEN b - a + 1 ELSE 0)
      /\ \A k \in 1..(b - a + 1) : s[k] = d[a + k - 1]
  <2>1. \A k \in a..b : d[k] \in Octet
    BY <1>1, <1>2, ElementOfSeq
  <2> QED BY <2>1, SubSeqProperties
<1>4. /\ t \in Seq(Octet)
      /\ Len(t) = (IF i + a - 1 <= i + b - 1 THEN (i + b - 1) - (i + a - 1) + 1 ELSE 0)
      /\ \A k \in 1..((i + b - 1) - (i + a - 1) + 1) : t[k] = c[(i + a - 1) + k - 1]
  <2>1. \A k \in (i + a - 1)..(i + b - 1) : c[k] \in Octet
    BY <1>1, ElementOfSeq
  <2>2. i + a - 1 \in Int /\ i + b - 1 \in Int
    OBVIOUS
  <2> QED BY <2>1, <2>2, SubSeqProperties
<1>5. Len(s) = Len(t)
  BY <1>3, <1>4
<1>6. ASSUME NEW k \in 1..Len(s) PROVE s[k] = t[k]
  <2>1. k \in 1..(b - a + 1) /\ a + k - 1 \in 1..Len(d) /\ k \in 1..((i + b - 1) - (i + a - 1) + 1)
    BY <1>1, <1>2, <1>3
  <2>2. s[k] = c[i + (a + k - 1) - 1] /\ t[k] = c[(i + a - 1) + k - 1]
    BY <1>2, <1>3, <1>4, <2>1
  <2>3. i + (a + k - 1) - 1 = (i + a - 1) + k - 1
    BY <2>1
  <2> QED BY <2>2, <2>3
<1> HIDE DEF s, t
<1>7. s = t
  BY <1>3, <1>4, <1>5, <1>6, SeqEqual
<1> QED BY <1>7 DEF s, t, d

\* What reads is an element, and it ends inside what it is read from.
LEMMA FrontType ==
  ASSUME NEW d \in Seq(Octet), Readable(d)
  PROVE  Front(d) \in Element /\ TotalLen(d) \in 2..Len(d)
<1>1. /\ d[1] \in Octet /\ HeaderLen(d) \in 2..Len(d) /\ ContentLen(d) \in Nat
      /\ TotalLen(d) \in HeaderLen(d)..Len(d)
  BY ReadableBounds
<1>2. Len(d) \in Nat
  BY LenProperties
<1>3. \A k \in (HeaderLen(d) + 1)..TotalLen(d) : d[k] \in Octet
  BY <1>1, <1>2, ElementOfSeq
<1>4. Content(d) \in Seq(Octet)
  BY <1>1, <1>2, <1>3, SubSeqProperties DEF Content
<1> QED BY <1>1, <1>2, <1>4 DEF Front, Element

\* The children from every position on.
LEMMA ChildrenRecursion ==
  ASSUME NEW c \in Seq(Octet)
  PROVE  /\ \E f \in [1..(Len(c) + 1) -> Seq(Element)] :
              /\ \A i \in 1..(Len(c) + 1) :
                   f[i] = IF Readable(From(c, i))
                          THEN <<Front(From(c, i))>> \o f[i + TotalLen(From(c, i))]
                          ELSE <<>>
              /\ Children(c) = f[1]
         /\ \A g : (\A i \in 1..(Len(c) + 1) :
                       g[i] = IF Readable(From(c, i))
                              THEN <<Front(From(c, i))>> \o g[i + TotalLen(From(c, i))]
                              ELSE <<>>)
                  => Children(c) = g[1]
<1> DEFINE n == Len(c)
           D == 1..(n + 1)
           V == Seq(Element)
           last == {i \in D : ~Readable(From(c, i))}
           base == [i \in D |-> <<>>]
           next == [i \in D |-> i + TotalLen(From(c, i))]
           step == [i \in D |-> [s \in V |-> IF i \in last THEN s ELSE <<Front(From(c, i))>> \o s]]
           rank == [i \in D |-> n + 1 - i]
           Rhs(f, i) == IF Readable(From(c, i))
                        THEN <<Front(From(c, i))>> \o f[i + TotalLen(From(c, i))]
                        ELSE <<>>
           children == CHOOSE f : f = [i \in D |-> Rhs(f, i)]
<1>1. n \in Nat
  BY LenProperties
<1>2. ASSUME NEW i \in D, Readable(From(c, i))
      PROVE  /\ Front(From(c, i)) \in Element /\ i + TotalLen(From(c, i)) \in D
             /\ i + TotalLen(From(c, i)) > i
  <2>1. From(c, i) \in Seq(Octet) /\ Len(From(c, i)) = n + 1 - i
    BY FromType
  <2>2. Front(From(c, i)) \in Element /\ TotalLen(From(c, i)) \in 2..Len(From(c, i))
    BY <1>2, <2>1, FrontType
  <2> QED BY <1>1, <2>1, <2>2
<1>3. WellFounded(D, V, last, base, next, step, rank, n)
  <2>1. rank \in [D -> 0..n] /\ base \in [D -> V]
    BY <1>1, EmptySeq
  <2>2. step \in [D -> [V -> V]]
    <3>1. ASSUME NEW i \in D, i \notin last, NEW s \in V PROVE <<Front(From(c, i))>> \o s \in V
      <4>1. <<Front(From(c, i))>> \in V
        BY <1>2, <3>1
      <4> QED BY <4>1, ConcatProperties
    <3> HIDE DEF D, V, last
    <3> QED BY <3>1
  <2>3. \A i \in D \ last : next[i] \in D /\ rank[next[i]] < rank[i]
    BY <1>1, <1>2
  <2> HIDE DEF D, V, last, base, next, step, rank
  <2> QED BY <1>1, <2>1, <2>2, <2>3 DEF WellFounded
<1>4. \A i \in D : i \in last <=> ~Readable(From(c, i))
  OBVIOUS
<1>5. \A i \in D \ last : next[i] = i + TotalLen(From(c, i)) /\ next[i] \in D
  BY <1>2, <1>4
<1>6. \A i \in D : i \in last => base[i] = <<>>
  OBVIOUS
<1>7. \A i \in D \ last : \A s \in V : step[i][s] = <<Front(From(c, i))>> \o s
  <2> HIDE DEF D, V, last
  <2> QED OBVIOUS
<1>8. 1 \in D
  BY <1>1
<1> HIDE DEF D, V, last, base, next, step, rank
<1>9. \A f : \A i \in D : (i \notin last => f[next[i]] \in V)
                         => Unfold(f, i, last, base, next, step) = Rhs(f, i)
  BY <1>4, <1>5, <1>6, <1>7 DEF Unfold
<1>10. PICK f \in [D -> V] : /\ Solves(f, D, last, base, next, step)
                             /\ IsOnlySolution(f, D, V, last, base, next, step)
  BY <1>3, RecursionTheorem
<1>11. \A i \in D : f[i] = Rhs(f, i)
  <2>1. \A i \in D : i \notin last => f[next[i]] \in V
    BY <1>5, <1>10
  <2> HIDE DEF Rhs
  <2> QED BY <1>9, <1>10, <2>1 DEF Solves
<1>12. ASSUME NEW g, \A i \in D : g[i] = Rhs(g, i)
       PROVE  g[1] = f[1]
  <2>1. \A i \in D : (i \notin last => g[next[i]] \in V)
                      => g[i] = Unfold(g, i, last, base, next, step)
    <3> HIDE DEF Rhs
    <3> QED BY <1>9, <1>12
  <2> HIDE DEF Rhs
  <2> QED BY <1>8, <1>10, <2>1 DEF IsOnlySolution
<1>13. \A i \in D : children[i] = Rhs(children, i)
  <2> HIDE DEF Rhs
  <2>1. f = [i \in D |-> Rhs(f, i)]
    BY <1>10, <1>11
  <2>2. children = [i \in D |-> Rhs(children, i)]
    BY <2>1
  <2> HIDE DEF children
  <2> QED BY <2>2
<1>14. Children(c) = f[1]
  <2>1. Children(c) = children[1]
    BY DEF Children, From, Front, D
  <2> HIDE DEF children, Rhs
  <2> QED BY <1>12, <1>13, <2>1
<1> HIDE DEF children
<1> QED BY <1>10, <1>11, <1>12, <1>14 DEF D, V

\* The first child is what reads at the front; the others are the children of
\* what is behind it (der.rs:106-119).
LEMMA ChildrenUnfold ==
  ASSUME NEW c \in Seq(Octet)
  PROVE  /\ Children(c) \in Seq(Element)
         /\ Readable(c) => /\ From(c, TotalLen(c) + 1) \in Seq(Octet)
                           /\ Children(c) = <<Front(c)>> \o Children(From(c, TotalLen(c) + 1))
         /\ ~Readable(c) => Children(c) = <<>>
<1> DEFINE n == Len(c)
<1>1. PICK f \in [1..(n + 1) -> Seq(Element)] :
        /\ \A i \in 1..(n + 1) :
             f[i] = IF Readable(From(c, i))
                    THEN <<Front(From(c, i))>> \o f[i + TotalLen(From(c, i))]
                    ELSE <<>>
        /\ Children(c) = f[1]
  BY ChildrenRecursion
<1>2. n \in Nat /\ 1 \in 1..(n + 1)
  BY LenProperties
<1>3. From(c, 1) = c
  BY SubSeqFull DEF From
<1>4. ASSUME Readable(c)
      PROVE  /\ From(c, TotalLen(c) + 1) \in Seq(Octet)
             /\ Children(From(c, TotalLen(c) + 1)) = f[TotalLen(c) + 1]
  <2> DEFINE k == TotalLen(c)
             s == From(c, k + 1)
             g == [i \in 1..(Len(s) + 1) |-> f[i + k]]
  <2>1. k \in 2..n /\ k + 1 \in 1..(n + 1)
    BY <1>2, <1>4, FrontType
  <2>2. s \in Seq(Octet) /\ Len(s) = n - k
    BY <1>2, <2>1, FromType
  <2> HIDE DEF k
  <2>3. ASSUME NEW i \in 1..(Len(s) + 1)
        PROVE  g[i] = IF Readable(From(s, i))
                      THEN <<Front(From(s, i))>> \o g[i + TotalLen(From(s, i))]
                      ELSE <<>>
    <3>1. i + k \in 1..(n + 1) /\ i \in 1..(n + 2 - (k + 1)) /\ (k + 1) + i - 1 = i + k
      BY <1>2, <2>1, <2>2
    <3>2. From(s, i) = From(c, i + k)
      <4>1. From(From(c, k + 1), i) = From(c, (k + 1) + i - 1)
        BY <2>1, <3>1, FromFrom
      <4> QED BY <3>1, <4>1
    <3>3. g[i] = f[i + k]
      OBVIOUS
    <3>4. ASSUME Readable(From(s, i))
          PROVE  g[i + TotalLen(From(s, i))] = f[(i + k) + TotalLen(From(s, i))]
      <4>1. From(s, i) \in Seq(Octet) /\ Len(From(s, i)) = Len(s) + 1 - i
        BY <2>2, FromType
      <4>2. TotalLen(From(s, i)) \in 2..Len(From(s, i))
        BY <3>4, <4>1, FrontType
      <4>3. /\ i + TotalLen(From(s, i)) \in 1..(Len(s) + 1)
            /\ (i + TotalLen(From(s, i))) + k = (i + k) + TotalLen(From(s, i))
        BY <1>2, <2>1, <2>2, <4>1, <4>2
      <4> HIDE DEF s
      <4> QED BY <4>3
    <3> HIDE DEF g, s
    <3> QED BY <1>1, <3>1, <3>2, <3>3, <3>4
  <2>4. Children(s) = g[1]
    <3> HIDE DEF g, s
    <3> QED BY <2>2, <2>3, ChildrenRecursion
  <2>5. 1 \in 1..(Len(s) + 1) /\ 1 + k = k + 1
    BY <1>2, <2>1, <2>2
  <2>6. g[1] = f[k + 1]
    <3> HIDE DEF s
    <3> QED BY <2>5
  <2> HIDE DEF g, s
  <2>7. From(c, k + 1) \in Seq(Octet) /\ Children(From(c, k + 1)) = f[k + 1]
    BY <2>2, <2>4, <2>6 DEF s
  <2> QED BY <2>7 DEF k
<1>5. f[1] = IF Readable(c) THEN <<Front(c)>> \o f[1 + TotalLen(c)] ELSE <<>>
  BY <1>1, <1>2, <1>3
<1>6. Readable(c) => 1 + TotalLen(c) = TotalLen(c) + 1
  <2>1. Readable(c) => TotalLen(c) \in Int
    BY FrontType
  <2> QED BY <2>1
<1> QED BY <1>1, <1>2, <1>4, <1>5, <1>6

\* Of encodings one after the other the children are what was encoded
\* (der.rs:30-38, 106-119).
THEOREM ChildrenOfEncodings ==
  /\ Children(<<>>) = <<>>
  /\ \A tag \in Octet, c, rest \in Seq(Octet) : Encodable(Len(c)) =>
       Children(Tlv(tag, c) \o rest) = <<[tag |-> tag, content |-> c]>> \o Children(rest)
<1>1. Children(<<>>) = <<>>
  <2>1. <<>> \in Seq(Octet) /\ ~Readable(<<>>)
    BY EmptySeq DEF Readable
  <2> QED BY <2>1, ChildrenUnfold
<1>2. ASSUME NEW tag \in Octet, NEW c \in Seq(Octet), NEW rest \in Seq(Octet), Encodable(Len(c))
      PROVE  Children(Tlv(tag, c) \o rest) = <<[tag |-> tag, content |-> c]>> \o Children(rest)
  <2> DEFINE d == Tlv(tag, c) \o rest
  <2>1. /\ d \in Seq(Octet) /\ Readable(d) /\ d[1] = tag /\ Content(d) = c
        /\ SubSeq(d, TotalLen(d) + 1, Len(d)) = rest
    BY <1>2, TlvReadsFirst
  <2> HIDE DEF d
  <2>2. Children(d) = <<Front(d)>> \o Children(rest)
    BY <2>1, ChildrenUnfold DEF From
  <2> QED BY <2>1, <2>2 DEF Front, d
<1> QED BY <1>1, <1>2

-----------------------------------------------------------------------------
\* A smaller number has no larger quotient.
LEMMA QuotientGrows ==
  ASSUME NEW a \in Nat \ {0}, NEW b \in Nat \ {0}, a <= b
  PROVE  a \div Base <= b \div Base
<1> DEFINE p == a \div Base
           q == b \div Base
           r == a % Base
           t == b % Base
<1>1. /\ p \in Nat /\ q \in Nat /\ r \in Nat /\ t \in Nat /\ t < Base /\ Base \in Nat
      /\ a = p * Base + r /\ b = q * Base + t
  <2>1. /\ p \in 0..(a - 1) /\ r \in Octet /\ a = p * Base + r
        /\ q \in 0..(b - 1) /\ t \in Octet /\ b = q * Base + t
    BY LowEnd
  <2> HIDE DEF p, q, r, t
  <2> QED BY <2>1, DerAssumption DEF Octet
<1> HIDE DEF p, q, r, t
<1>2. ASSUME p >= q + 1 PROVE FALSE
  <2>1. PICK k \in Nat : p = k + (q + 1)
    <3>1. p - (q + 1) \in Nat /\ p = (p - (q + 1)) + (q + 1)
      BY <1>1, <1>2
    <3> QED BY <3>1
  <2>2. (k + (q + 1)) * Base = k * Base + q * Base + Base /\ k * Base \in Nat /\ q * Base \in Nat
    BY <1>1, <2>1
  <2> DEFINE x == k * Base
             y == q * Base
             z == p * Base
  <2>3. x \in Nat /\ y \in Nat /\ z = x + y + Base /\ a = z + r /\ b = y + t
    BY <1>1, <2>1, <2>2
  <2> HIDE DEF x, y, z
  <2> QED BY <1>1, <2>3
<1>3. p <= q
  BY <1>1, <1>2
<1> QED BY <1>3 DEF p, q

\* A smaller number has no more octets.
LEMMA BigEndianGrows ==
  ASSUME NEW n \in Nat, NEW m \in 0..n
  PROVE  Len(BigEndian(m)) \in Nat /\ Len(BigEndian(n)) \in Nat
         /\ Len(BigEndian(m)) <= Len(BigEndian(n))
<1> DEFINE L(k) == Len(BigEndian(k))
           S == {k \in Nat : \A b \in 0..k : \A a \in 0..b : L(a) <= L(b)}
<1>1. \A k \in Nat : L(k) \in Nat
  BY BigEndianUnfold, LenProperties
<1>2. L(0) = 0
  BY BigEndianUnfold, EmptySeq
<1>3. \A k \in Nat \ {0} : L(k) = L(k \div Base) + 1 /\ k \div Base \in 0..(k - 1)
  <2> TAKE k \in Nat \ {0}
  <2>1. k \div Base \in 0..(k - 1) /\ k % Base \in Octet
    BY LowEnd
  <2>2. BigEndian(k) = Append(BigEndian(k \div Base), k % Base) /\ BigEndian(k \div Base) \in Seq(Octet)
    BY <2>1, BigEndianUnfold
  <2> DEFINE s == BigEndian(k \div Base)
             d == k % Base
  <2>3. s \in Seq(Octet) /\ d \in Octet /\ BigEndian(k) = Append(s, d)
    BY <2>1, <2>2
  <2> HIDE DEF s, d
  <2>4. Len(BigEndian(k)) = Len(s) + 1
    BY <2>3, AppendProperties
  <2> QED BY <2>1, <2>4 DEF s
<1> HIDE DEF L
<1>4. 0 \in S
  BY <1>1
<1>5. ASSUME NEW k \in Nat, k \in S PROVE k + 1 \in S
  <2> SUFFICES ASSUME NEW b \in 0..(k + 1), NEW a \in 0..b PROVE L(a) <= L(b)
    OBVIOUS
  <2>1. CASE a = 0
    BY <1>1, <1>2, <2>1
  <2>2. CASE a # 0
    <3> DEFINE p == a \div Base
               q == b \div Base
    <3>1. a \in Nat \ {0} /\ b \in Nat \ {0} /\ a <= b
      BY <2>2
    <3>2. /\ p <= q /\ p \in 0..(a - 1) /\ q \in 0..(b - 1)
          /\ L(a) = L(p) + 1 /\ L(b) = L(q) + 1
      BY <1>3, <3>1, QuotientGrows
    <3> HIDE DEF p, q
    <3>3. q \in 0..k /\ p \in 0..q
      BY <3>2
    <3>4. L(p) <= L(q)
      BY <1>5, <3>3
    <3> QED BY <1>1, <3>2, <3>3, <3>4
  <2> QED BY <2>1, <2>2
<1>6. n \in S
  <2> HIDE DEF S
  <2> QED BY <1>4, <1>5, SetInduction
<1>7. n \in 0..n
  OBVIOUS
<1> QED BY <1>1, <1>6, <1>7 DEF L

\* What is shorter than something that can be encoded can be encoded.
LEMMA ShorterIsEncodable ==
  ASSUME NEW n \in Nat, Encodable(n), NEW m \in 0..n
  PROVE  Encodable(m)
<1> DEFINE x == Len(BigEndian(m))
           y == Len(BigEndian(n))
<1>1. x \in Nat /\ y \in Nat /\ x <= y /\ y <= LenOctets /\ LenOctets \in Nat
  <2>1. x \in Nat /\ y \in Nat /\ x <= y
    BY BigEndianGrows
  <2> QED BY <2>1, DerAssumption DEF Encodable
<1> HIDE DEF x, y
<1>2. x <= LenOctets
  BY <1>1
<1> QED BY <1>2 DEF x, Encodable

\* An encoding, be it one that does not read, is longer than its content.
LEMMA TlvIsLonger ==
  ASSUME NEW tag \in Nat, NEW c \in Seq(Nat)
  PROVE  Tlv(tag, c) \in Seq(Nat) /\ Len(Tlv(tag, c)) \in Nat /\ Len(c) \in 0..Len(Tlv(tag, c))
<1> DEFINE n == Len(c)
           be == BigEndian(n)
           l == EncodeLen(n)
           h == <<tag>> \o l
<1>1. n \in Nat /\ Half \in Nat
  BY LenProperties, DerAssumption DEF Half
<1>2. be \in Seq(Nat) /\ Len(be) \in Nat
  <2>1. be \in Seq(Octet)
    BY <1>1, BigEndianUnfold
  <2>2. Octet \subseteq Nat
    BY DerAssumption DEF Octet
  <2> HIDE DEF be
  <2>3. be \in Seq(Nat)
    BY <2>1, <2>2, SeqMonotonic
  <2> QED BY <2>3, LenProperties
<1>3. l = IF n < Half THEN <<n>> ELSE <<Half + Len(be)>> \o be
  BY DEF EncodeLen
<1> HIDE DEF n, be, l
<1>4. l \in Seq(Nat) /\ Len(l) \in Nat
  <2>1. <<n>> \in Seq(Nat) /\ <<Half + Len(be)>> \in Seq(Nat)
    BY <1>1, <1>2
  <2>2. <<Half + Len(be)>> \o be \in Seq(Nat)
    BY <1>2, <2>1, ConcatProperties
  <2> QED BY <1>3, <2>1, <2>2, LenProperties
<1>5. h \in Seq(Nat) /\ Len(h) \in Nat
  <2>1. <<tag>> \in Seq(Nat)
    OBVIOUS
  <2>2. h \in Seq(Nat)
    BY <1>4, <2>1, ConcatProperties
  <2> QED BY <2>2, LenProperties
<1>6. Tlv(tag, c) = h \o c
  BY DEF Tlv, l, n
<1> HIDE DEF h
<1>7. h \o c \in Seq(Nat) /\ Len(h \o c) = Len(h) + n
  BY <1>5, ConcatProperties DEF n
<1> QED BY <1>1, <1>5, <1>6, <1>7 DEF n
=============================================================================
