-------------------------- MODULE Datagram_lemmas ---------------------------
(***************************************************************************)
(* The operators of DatagramAssociation: what its loops over fragments and *)
(* over the store of unfinished datagrams compute, for any lengths,        *)
(* budgets and bounds.  That cutting a datagram up and putting it together *)
(* again is the identity is a theorem of its own; the others are the       *)
(* lemmas the invariant of Datagram_proofs rests on.                       *)
(***************************************************************************)
EXTENDS DatagramAssociation, FiniteSetTheorems, WellFoundedInduction, TLAPS

-----------------------------------------------------------------------------
(* Fragments: cutting a datagram up and putting it together                *)

\* A set of natural numbers that is not empty has a least element.
LEMMA Least ==
    ASSUME NEW S, S \subseteq Nat, S # {}
    PROVE  \E m \in S : \A k \in S : m <= k
<1>1. IsWellFoundedOn({ss \in Nat \X Nat : ss[1] < ss[2]}, Nat)
  BY NatLessThanWellFounded DEF OpToRel
<1>2. PICK m \in S : \A k \in S : ~(<<k, m>> \in {ss \in Nat \X Nat : ss[1] < ss[2]})
  BY <1>1, WFMin, Zenon
<1>3. ASSUME NEW k \in S PROVE m <= k
  <2>1. k \in Nat /\ m \in Nat OBVIOUS
  <2>2. <<k, m>> \in Nat \X Nat BY <2>1
  <2>3. ~(k < m) BY <1>2, <2>2
  <2> QED BY <2>1, <2>3
<1> QED BY <1>3

\* g has, for each i, the first i elements of s put together.
JoinedUpTo(g, s, T) ==
    /\ g \in [0..Len(s) -> T]
    /\ g[0] = <<>>
    /\ \A i \in 1..Len(s) : g[i] = g[i-1] \o s[i]

\* The loop over append(payload, fragment...) in a closed form. The loop is a
\* recursion, and the least i at which it could differ from g does not exist.
LEMMA PayloadIs ==
    ASSUME NEW s, NEW g, NEW T, Len(s) \in Nat, JoinedUpTo(g, s, T)
    PROVE  Payload(s) = g[Len(s)]
<1> DEFINE n == Len(s)
           Is(h) == h = [i \in 0..Len(s) |-> IF i = 0 THEN <<>> ELSE h[i-1] \o s[i]]
           F == CHOOSE h : Is(h)
<1>0. /\ n \in Nat /\ g \in [0..n -> T] /\ g[0] = <<>>
      /\ \A i \in 1..n : g[i] = g[i-1] \o s[i]
  BY DEF JoinedUpTo
<1>1. Payload(s) = F[n]
  BY DEF Payload
<1> HIDE DEF n
<1>2. Is(F)
  <2>1. \A i \in 0..n : g[i] = IF i = 0 THEN <<>> ELSE g[i-1] \o s[i]
    <3> TAKE i \in 0..n
    <3>1. CASE i = 0 BY <1>0, <3>1
    <3>2. CASE i \in 1..n BY <1>0, <3>2
    <3>3. i = 0 \/ i \in 1..n BY <1>0
    <3> QED BY <3>1, <3>2, <3>3
  <2>2. g = [i \in 0..n |-> IF i = 0 THEN <<>> ELSE g[i-1] \o s[i]]
    BY <1>0, <2>1
  <2>3. Is(g)
    BY <2>2 DEF n
  <2> HIDE DEF Is
  <2> QED BY <2>3
<1>3. F[0] = <<>> /\ \A i \in 1..n : F[i] = F[i-1] \o s[i]
  <2>1. F = [i \in 0..n |-> IF i = 0 THEN <<>> ELSE F[i-1] \o s[i]]
    BY <1>2, Zenon DEF n
  <2> HIDE DEF F, Is
  <2>2. F[0] = <<>>
    BY <1>0, <2>1
  <2>3. ASSUME NEW i \in 1..n PROVE F[i] = F[i-1] \o s[i]
    <3>1. i \in 0..n /\ i # 0 BY <1>0
    <3> QED BY <2>1, <3>1, Zenon
  <2> QED BY <2>2, <2>3, Zenon
<1> HIDE DEF F
<1> DEFINE Bad == {i \in 0..n : F[i] # g[i]}
<1>4. ASSUME Bad # {} PROVE FALSE
  <2>1. Bad \subseteq Nat
    BY <1>0
  <2>2. PICK m \in Bad : \A k \in Bad : m <= k
    BY <1>4, <2>1, Least, Zenon
  <2>3. m \in 1..n
    BY <1>0, <1>3, <2>2
  <2>4. F[m-1] = g[m-1]
    BY <1>0, <2>2, <2>3
  <2>5. F[m] = F[m-1] \o s[m] /\ g[m] = g[m-1] \o s[m]
    BY <1>0, <1>3, <2>3, Zenon
  <2> QED BY <2>2, <2>4, <2>5, Zenon
<1>5. F[n] = g[n]
  BY <1>0, <1>4
<1> QED BY <1>1, <1>5 DEF n

\* How many fragments Write cuts a datagram into: enough of them, and none too
\* many.
LEMMA TotalBounds ==
    ASSUME NEW len \in Nat
    PROVE  /\ Total(len) \in Nat \ {0}
           /\ len > Budget => Total(len) > 1
           /\ len <= Budget => Total(len) = 1
           /\ (Total(len) - 1) * Budget <= len /\ len <= Total(len) * Budget
           /\ len > 0 => (Total(len) - 1) * Budget < len
<1> DEFINE t == (len + Budget - 1) \div Budget
<1>0. Budget \in Nat \ {0}
  BY AssociationAssumption
<1>1. CASE len <= Budget
  <2>1. Total(len) = 1 BY <1>0, <1>1 DEF Total
  <2> QED BY <1>0, <1>1, <2>1
<1>2. CASE len > Budget
  <2>1. Total(len) = t BY <1>0, <1>2 DEF Total
  <2>2. t \in Nat /\ t >= 2 /\ (t - 1) * Budget < len /\ len <= t * Budget
    BY <1>0, <1>2
  <2> QED BY <1>0, <1>2, <2>1, <2>2
<1> QED BY <1>0, <1>1, <1>2

\* A fragment before the last ends before the last begins.
LEMMA BeforeLast ==
    ASSUME NEW t \in Nat, NEW b \in Nat, NEW k \in 0..t-2
    PROVE  k * b + b <= (t - 1) * b
<1>1. (t - 1) * b = (k + 1) * b + (t - 2 - k) * b OBVIOUS
<1>2. (t - 2 - k) * b >= 0 OBVIOUS
<1>3. (k + 1) * b = k * b + b OBVIOUS
<1>4. k * b \in Nat OBVIOUS
<1>5. (t - 2 - k) * b \in Int OBVIOUS
<1> QED BY <1>1, <1>2, <1>3, <1>4, <1>5

\* The length of a fragment: the budget, except for the last.
FragmentSize(len, k) == IF k = Total(len) - 1 THEN len - k * Budget ELSE Budget

\* Every fragment lies within its datagram, and none of a datagram that is not
\* empty is empty.
LEMMA FragmentSizes ==
    ASSUME NEW len \in Nat, NEW k \in 0..Total(len)-1
    PROVE  /\ k * Budget \in Nat
           /\ FragmentSize(len, k) \in Nat
           /\ FragmentSize(len, k) <= Budget
           /\ k * Budget + FragmentSize(len, k) <= len
           /\ len > 0 => FragmentSize(len, k) > 0
           /\ FragmentSize(len, k) = (IF k * Budget + Budget > len THEN len ELSE k * Budget + Budget) - k * Budget
<1> DEFINE t == Total(len)
<1>0. Budget \in Nat \ {0} /\ t \in Nat \ {0}
  BY AssociationAssumption, TotalBounds
<1>1. /\ (t - 1) * Budget <= len /\ len <= t * Budget
      /\ len > 0 => (t - 1) * Budget < len
  BY TotalBounds
<1> HIDE DEF t
<1>2. k \in 0..t-1 /\ FragmentSize(len, k) = IF k = t - 1 THEN len - k * Budget ELSE Budget
  BY DEF FragmentSize, t
<1>3. k * Budget \in Nat /\ t * Budget = (t - 1) * Budget + Budget /\ (t - 1) * Budget \in Nat
  BY <1>0, <1>2
<1>4. CASE k = t - 1
  BY <1>0, <1>1, <1>2, <1>3, <1>4
<1>5. CASE k \in 0..t-2
  <2>1. k * Budget + Budget <= (t - 1) * Budget
    BY <1>0, <1>5, BeforeLast
  <2> QED BY <1>0, <1>1, <1>2, <1>3, <1>5, <2>1
<1> QED BY <1>0, <1>2, <1>4, <1>5

\* The bytes of a datagram are a sequence of its length.
LEMMA DatagramIs ==
    ASSUME NEW n \in Nat, NEW len \in Nat
    PROVE  Datagram(n, len) \in Seq(Nat \X Nat) /\ Len(Datagram(n, len)) = len
BY DEF Datagram

\* The bytes of a fragment.
LEMMA FragmentIs ==
    ASSUME NEW n \in Nat, NEW len \in Nat, NEW k \in 0..Total(len)-1
    PROVE  Fragment(Datagram(n, len), k) = [i \in 1..FragmentSize(len, k) |-> <<n, k * Budget + i>>]
<1> DEFINE start == k * Budget
           c == FragmentSize(len, k)
           p == Datagram(n, len)
<1>1. start \in Nat /\ c \in Nat /\ start + c <= len
      /\ c = (IF start + Budget > len THEN len ELSE start + Budget) - start
  BY FragmentSizes
<1>2. p \in Seq(Nat \X Nat) /\ Len(p) = len
  BY DatagramIs, Zenon
<1>3. Fragment(p, k) = SubSeq(p, start + 1, IF start + Budget > len THEN len ELSE start + Budget)
  BY <1>2 DEF Fragment
<1>0. Budget \in Nat
  BY AssociationAssumption
<1>4. Fragment(p, k) = SubSeq(p, start + 1, start + c)
  BY <1>0, <1>1, <1>3
<1>5. \A i \in 1..len : p[i] = <<n, i>>
  BY DEF Datagram
<1> HIDE DEF start, c, p
<1>6. SubSeq(p, start + 1, start + c) = [i \in 1..c |-> p[start + i]]
  BY <1>1, <1>2
<1>7. \A i \in 1..c : p[start + i] = <<n, start + i>>
  BY <1>1, <1>5
<1>8. [i \in 1..c |-> p[start + i]] = [i \in 1..c |-> <<n, start + i>>]
  BY <1>7
<1> QED BY <1>4, <1>6, <1>8 DEF start, c, p

\* The elements of a concatenation.
LEMMA ConcatIndex ==
    ASSUME NEW E, NEW x \in Seq(E), NEW r \in Seq(E)
    PROVE /\ x \o r \in Seq(E) /\ Len(x \o r) = Len(x) + Len(r)
          /\ \A i \in 1..Len(x) : (x \o r)[i] = x[i]
          /\ \A i \in 1..Len(r) : (x \o r)[Len(x) + i] = r[i]
OBVIOUS

\* A sequence that begins with x and goes on with y is their concatenation.
LEMMA ConcatIs ==
    ASSUME NEW S, NEW x \in Seq(S), NEW y \in Seq(S), NEW z \in Seq(S),
           Len(z) = Len(x) + Len(y),
           \A i \in 1..Len(x) : z[i] = x[i],
           \A i \in 1..Len(y) : z[Len(x) + i] = y[i]
    PROVE  x \o y = z
<1>1. x \o y \in Seq(S) /\ Len(x \o y) = Len(z)
  OBVIOUS
<1>2. ASSUME NEW i \in 1..Len(z) PROVE (x \o y)[i] = z[i]
  <2>1. CASE i <= Len(x)
    BY <2>1
  <2>2. CASE i > Len(x)
    <3>1. i - Len(x) \in 1..Len(y) /\ (x \o y)[i] = y[i - Len(x)]
      BY <2>2
    <3>2. z[Len(x) + (i - Len(x))] = y[i - Len(x)]
      BY <3>1
    <3> QED BY <3>1, <3>2
  <2> QED BY <2>1, <2>2
<1> QED BY <1>1, <1>2

\* The beginning of a datagram and the bytes that follow it are a longer
\* beginning.
LEMMA Joined ==
    ASSUME NEW n \in Nat, NEW a \in Nat, NEW c \in Nat
    PROVE  Datagram(n, a) \o [i \in 1..c |-> <<n, a + i>>] = Datagram(n, a + c)
<1> DEFINE B == Nat \X Nat
           x == Datagram(n, a)
           y == [i \in 1..c |-> <<n, a + i>>]
           z == Datagram(n, a + c)
           byte(i) == <<n, i>>
<1>0. a + c \in Nat
  OBVIOUS
<1>1. x \in Seq(B) /\ Len(x) = a /\ z \in Seq(B) /\ Len(z) = a + c
  BY <1>0, DatagramIs, Zenon
<1>2. y \in Seq(B) /\ Len(y) = c
  OBVIOUS
<1>3. \A i \in 1..a : x[i] = byte(i) BY DEF Datagram
<1>4. \A i \in 1..c : y[i] = byte(a + i) OBVIOUS
<1>5. \A i \in 1..a+c : z[i] = byte(i) BY DEF Datagram
<1> HIDE DEF x, y, z, B, byte
<1>6. \A i \in 1..Len(x) : z[i] = x[i]
  BY <1>1, <1>3, <1>5
<1>7. \A i \in 1..Len(y) : z[Len(x) + i] = y[i]
  BY <1>1, <1>2, <1>4, <1>5
<1>8. Len(z) = Len(x) + Len(y)
  BY <1>1, <1>2
<1>9. x \o y = z
  BY <1>1, <1>2, <1>6, <1>7, <1>8, ConcatIs, Zenon
<1> QED BY <1>9, Zenon DEF x, y, z

(***************************************************************************)
(* The two loops agree: the fragments Write cuts a datagram into, put      *)
(* together in their order as deliverFragment does, are the datagram, for  *)
(* any length and any fragmentBudget.                                      *)
(***************************************************************************)
THEOREM FragmentsRebuild ==
    ASSUME NEW n \in Nat, NEW len \in Nat, NEW s,
           Len(s) = Total(len),
           \A k \in 1..Total(len) : s[k] = Fragment(Datagram(n, len), k - 1)
    PROVE  Payload(s) = Datagram(n, len)
<1> DEFINE t == Total(len)
           end(i) == IF i = t THEN len ELSE i * Budget
           g == [i \in 0..t |-> Datagram(n, end(i))]
           T == Seq(Nat \X Nat)
<1>0. t \in Nat \ {0} /\ Budget \in Nat /\ Len(s) = t
  BY TotalBounds, AssociationAssumption
<1>1. \A i \in 0..t : end(i) \in Nat
  BY <1>0
<1>2. ASSUME NEW i \in 1..t
      PROVE  Datagram(n, end(i - 1)) \o s[i] = Datagram(n, end(i))
  <2> DEFINE a == (i - 1) * Budget
             c == FragmentSize(len, i - 1)
  <2>1. i - 1 \in 0..t-1 /\ i - 1 # t
    BY <1>0
  <2>2. a \in Nat /\ c \in Nat
    BY <2>1, FragmentSizes
  <2>3. end(i - 1) = a
    BY <2>1
  <2>4. end(i) = a + c
    <3>1. CASE i = t
      <4>1. c = len - a
        BY <3>1 DEF FragmentSize
      <4> QED BY <2>2, <3>1, <4>1
    <3>2. CASE i # t
      <4>1. c = Budget
        BY <1>0, <3>2 DEF FragmentSize
      <4>2. i * Budget = (i - 1) * Budget + Budget
        BY <1>0
      <4> QED BY <3>2, <4>1, <4>2
    <3> QED BY <3>1, <3>2
  <2>5. s[i] = [j \in 1..c |-> <<n, a + j>>]
    BY <2>1, FragmentIs
  <2> HIDE DEF a, c, t, end
  <2>6. Datagram(n, a) \o [j \in 1..c |-> <<n, a + j>>] = Datagram(n, a + c)
    BY <2>2, Joined, Zenon
  <2> QED BY <2>3, <2>4, <2>5, <2>6, Zenon
<1>3. Datagram(n, end(0)) = <<>>
  <2>1. end(0) = 0
    BY <1>0
  <2>2. Datagram(n, 0) \in T /\ Len(Datagram(n, 0)) = 0
    BY DatagramIs, Zenon
  <2> HIDE DEF end
  <2> QED BY <2>1, <2>2
<1>4. \A i \in 0..t : Datagram(n, end(i)) \in T
  BY <1>1, DatagramIs, Zenon
<1>5. end(t) = len
  OBVIOUS
<1> HIDE DEF t, end, T
<1>6. g \in [0..t -> T] /\ g[0] = <<>> /\ g[t] = Datagram(n, len)
  BY <1>0, <1>3, <1>4, <1>5
<1>7. ASSUME NEW i \in 1..t PROVE g[i] = g[i-1] \o s[i]
  <2>1. i \in 0..t /\ i - 1 \in 0..t
    BY <1>0
  <2>2. g[i] = Datagram(n, end(i)) /\ g[i - 1] = Datagram(n, end(i - 1))
    BY <2>1
  <2> QED BY <1>2, <2>2, Zenon
<1> HIDE DEF g
<1>8. JoinedUpTo(g, s, T)
  BY <1>0, <1>6, <1>7 DEF JoinedUpTo
<1>9. Payload(s) = g[t]
  BY <1>0, <1>8, PayloadIs
<1> QED BY <1>6, <1>9

Bytes == Nat \X Nat

\* A fragment is a sequence of bytes that name their datagram; nil stands for
\* none of several.
LEMMA FragmentSound ==
    ASSUME NEW n \in Nat, NEW len \in Nat, NEW k \in 0..Total(len)-1
    PROVE  /\ Fragment(Datagram(n, len), k) \in Seq(Bytes)
           /\ Len(Fragment(Datagram(n, len), k)) = FragmentSize(len, k)
           /\ len > 0 => Fragment(Datagram(n, len), k) # Nil /\ Fragment(Datagram(n, len), k)[1][1] = n
<1> DEFINE c == FragmentSize(len, k)
           start == k * Budget
           x == [i \in 1..c |-> <<n, start + i>>]
<1>1. c \in Nat /\ start \in Nat /\ (len > 0 => c > 0)
  BY FragmentSizes
<1>2. Fragment(Datagram(n, len), k) = x
  BY FragmentIs
<1> HIDE DEF c, start
<1>3. x \in Seq(Bytes) /\ Len(x) = c
  BY <1>1 DEF Bytes
<1>4. c > 0 => x[1] = <<n, start + 1>>
  BY <1>1
<1> HIDE DEF x
<1>5. c > 0 => x # Nil /\ x[1][1] = n
  BY <1>1, <1>3, <1>4 DEF Nil
<1> QED BY <1>1, <1>2, <1>3, <1>5 DEF c

\* A datagram of one fragment is that fragment.
LEMMA OneFragment ==
    ASSUME NEW n \in Nat, NEW len \in Nat, Total(len) = 1
    PROVE  Fragment(Datagram(n, len), 0) = Datagram(n, len)
<1>1. Budget \in Nat /\ 0 * Budget = 0
  BY AssociationAssumption
<1>2. FragmentSize(len, 0) = len
  BY <1>1 DEF FragmentSize
<1>3. Fragment(Datagram(n, len), 0) = [i \in 1..len |-> <<n, 0 * Budget + i>>]
  BY <1>2, FragmentIs
<1>4. \A i \in 1..len : <<n, 0 * Budget + i>> = <<n, i>>
  BY <1>1
<1>5. [i \in 1..len |-> <<n, 0 * Budget + i>>] = [i \in 1..len |-> <<n, i>>]
  BY <1>4
<1> QED BY <1>3, <1>5 DEF Datagram

-----------------------------------------------------------------------------
(* The store of unfinished datagrams                                       *)

\* A store has one entry per datagram.
OneEach(s) == \A i, j \in 1..Len(s) : s[i].packetID = s[j].packetID => i = j

IsIn(d, s) == \E i \in 1..Len(s) : s[i] = d

\* The loop over pending finds the entry of a datagram if there is one.
LEMMA PositionFinds ==
    ASSUME NEW s, Len(s) \in Nat, NEW id
    PROVE  IF \E i \in 1..Len(s) : s[i].packetID = id
             THEN Position(s, id) \in 1..Len(s) /\ s[Position(s, id)].packetID = id
             ELSE Position(s, id) = 0
<1> DEFINE I == {i \in 1..Len(s) : s[i].packetID = id}
<1>1. Position(s, id) = IF I = {} THEN 0 ELSE Min(I)
  BY DEF Position
<1>2. ASSUME I # {} PROVE Min(I) \in I
  <2>0. I \subseteq Nat OBVIOUS
  <2>1. \E m \in I : \A k \in I : m <= k BY <1>2, <2>0, Least, Zenon
  <2> QED BY <2>1 DEF Min
<1> QED BY <1>1, <1>2

\* The elements of a sequence with one more in front.
LEMMA ConsIs ==
    ASSUME NEW E, NEW e \in E, NEW r \in Seq(E)
    PROVE  /\ <<e>> \o r \in Seq(E) /\ Len(<<e>> \o r) = Len(r) + 1 /\ (<<e>> \o r)[1] = e
           /\ \A i \in 2..Len(r) + 1 : i - 1 \in 1..Len(r) /\ (<<e>> \o r)[i] = r[i - 1]
<1> DEFINE x == <<e>>
           t == x \o r
<1>0. x \in Seq(E)
  OBVIOUS
<1>1. Len(x) = 1 /\ x[1] = e
  OBVIOUS
<1> HIDE DEF x
<1>2. /\ t \in Seq(E) /\ Len(t) = Len(x) + Len(r)
      /\ \A i \in 1..Len(x) : t[i] = x[i]
      /\ \A i \in 1..Len(r) : t[Len(x) + i] = r[i]
  BY <1>0, ConcatIndex
<1> HIDE DEF t
<1>3. Len(t) = Len(r) + 1 /\ t[1] = e
  BY <1>1, <1>2
<1>4. ASSUME NEW i \in 2..Len(r) + 1 PROVE i - 1 \in 1..Len(r) /\ t[i] = r[i - 1]
  <2>1. i - 1 \in 1..Len(r) /\ 1 + (i - 1) = i
    OBVIOUS
  <2>2. t[1 + (i - 1)] = r[i - 1]
    BY <1>1, <1>2, <2>1
  <2> QED BY <2>1, <2>2
<1> QED BY <1>2, <1>3, <1>4 DEF x, t

\* The first loop of pendingFor keeps entries of the store, in a store with one
\* entry per datagram.
LEMMA KeptIs ==
    ASSUME NEW E, pending \in Seq(E), OneEach(pending), NEW id, NEW k \in 0..Len(pending)
    PROVE  /\ Kept(id, k) \in Seq(E) /\ Len(Kept(id, k)) <= Len(pending) /\ OneEach(Kept(id, k))
           /\ \A i \in 1..Len(Kept(id, k)) : IsIn(Kept(id, k)[i], pending)
           /\ k = 0 => Kept(id, k) = pending
<1> DEFINE at == Position(pending, id)
           rest == SubSeq(pending, k + 1, Len(pending))
           t == Kept(id, k)
<1>0. t = IF at \in 1..k THEN <<pending[at]>> \o rest ELSE rest
  BY DEF Kept
<1>1. rest \in Seq(E) /\ Len(rest) = Len(pending) - k /\ \A i \in 1..Len(rest) : rest[i] = pending[k + i]
  OBVIOUS
<1>2. k = 0 => rest = pending
  OBVIOUS
<1> HIDE DEF at, rest, t
<1>3. CASE at \in 1..k
  <2>1. pending[at] \in E /\ at \in 1..Len(pending)
    BY <1>3
  <2> DEFINE e == pending[at]
  <2>2. t = <<e>> \o rest
    BY <1>0, <1>3
  <2>3. e \in E /\ rest \in Seq(E)
    BY <1>1, <2>1
  <2> HIDE DEF e
  <2>4. /\ t \in Seq(E) /\ Len(t) = Len(rest) + 1 /\ t[1] = e
        /\ \A i \in 2..Len(rest) + 1 : i - 1 \in 1..Len(rest) /\ t[i] = rest[i - 1]
    BY <2>2, <2>3, ConsIs
  <2>5. ASSUME NEW i \in 2..Len(t) PROVE t[i] = pending[k + (i - 1)] /\ k + (i - 1) \in 1..Len(pending) /\ k + (i - 1) # at
    <3>1. i - 1 \in 1..Len(rest) /\ t[i] = rest[i - 1]
      BY <2>4
    <3>2. rest[i - 1] = pending[k + (i - 1)]
      BY <1>1, <3>1
    <3>3. k + (i - 1) \in 1..Len(pending) /\ k + (i - 1) # at
      BY <1>1, <1>3, <3>1
    <3> QED BY <3>1, <3>2, <3>3
  <2> USE DEF e
  <2>6. \A i \in 1..Len(t) : IsIn(t[i], pending)
    <3> TAKE i \in 1..Len(t)
    <3>1. CASE i = 1
      BY <2>1, <2>4, <3>1 DEF IsIn
    <3>2. CASE i \in 2..Len(t)
      BY <2>5, <3>2 DEF IsIn
    <3> QED BY <2>4, <3>1, <3>2
  <2>7. OneEach(t)
    <3> SUFFICES ASSUME NEW i \in 1..Len(t), NEW j \in 1..Len(t), t[i].packetID = t[j].packetID
                 PROVE  i = j
      BY DEF OneEach
    <3>1. CASE i = 1 /\ j \in 2..Len(t)
      BY <2>1, <2>4, <2>5, <3>1, Zenon DEF OneEach
    <3>2. CASE j = 1 /\ i \in 2..Len(t)
      BY <2>1, <2>4, <2>5, <3>2 DEF OneEach
    <3>3. CASE i \in 2..Len(t) /\ j \in 2..Len(t)
      <4>1. k + (i - 1) = k + (j - 1)
        BY <2>5, <3>3, Zenon DEF OneEach
      <4> QED BY <1>1, <2>4, <3>3, <4>1
    <3>4. i \in 2..Len(t) \/ i = 1
      BY <2>4
    <3>5. j \in 2..Len(t) \/ j = 1
      BY <2>4
    <3> QED BY <3>1, <3>2, <3>3, <3>4, <3>5
  <2> QED BY <1>1, <1>3, <2>4, <2>6, <2>7 DEF t
<1>4. CASE at \notin 1..k
  <2>1. t = rest
    BY <1>0, <1>4
  <2>2. \A i \in 1..Len(t) : t[i] = pending[k + i] /\ k + i \in 1..Len(pending)
    BY <1>1, <2>1
  <2>3. OneEach(t)
    <3> SUFFICES ASSUME NEW i \in 1..Len(t), NEW j \in 1..Len(t), t[i].packetID = t[j].packetID
                 PROVE  i = j
      BY DEF OneEach
    <3>1. k + i = k + j
      BY <2>2, Zenon DEF OneEach
    <3> QED BY <3>1, <1>1, <2>1
  <2>4. \A i \in 1..Len(t) : IsIn(t[i], pending)
    BY <2>2, Zenon DEF IsIn
  <2> QED BY <1>1, <1>2, <2>1, <2>3, <2>4 DEF t
<1> QED BY <1>3, <1>4 DEF t

\* The oldest entry gives way, and only if the store is full.
LEMMA WithRoomIs ==
    ASSUME NEW E, NEW s \in Seq(E), OneEach(s), Len(s) <= MaxPending
    PROVE  /\ WithRoom(s) \in Seq(E) /\ Len(WithRoom(s)) < MaxPending /\ OneEach(WithRoom(s))
           /\ \A i \in 1..Len(WithRoom(s)) : IsIn(WithRoom(s)[i], s)
           /\ Len(s) < MaxPending => WithRoom(s) = s
<1>0. MaxPending \in Nat \ {0}
  BY AssociationAssumption
<1>1. CASE Len(s) < MaxPending
  <2>1. WithRoom(s) = s
    BY <1>0, <1>1 DEF WithRoom
  <2> QED BY <1>1, <2>1 DEF IsIn
<1>2. CASE Len(s) = MaxPending
  <2>1. WithRoom(s) = Tail(s)
    BY <1>0, <1>2 DEF WithRoom
  <2>2. s # <<>>
    BY <1>0, <1>2
  <2>3. Tail(s) \in Seq(E) /\ Len(Tail(s)) = Len(s) - 1 /\ \A i \in 1..Len(Tail(s)) : Tail(s)[i] = s[i + 1]
    BY <2>2
  <2>4. OneEach(Tail(s))
    <3> SUFFICES ASSUME NEW i \in 1..Len(Tail(s)), NEW j \in 1..Len(Tail(s)), Tail(s)[i].packetID = Tail(s)[j].packetID
                 PROVE  i = j
      BY DEF OneEach
    <3>1. i + 1 \in 1..Len(s) /\ j + 1 \in 1..Len(s) /\ s[i + 1].packetID = s[j + 1].packetID
      BY <2>3
    <3>2. i + 1 = j + 1
      BY <3>1 DEF OneEach
    <3> QED BY <2>3, <3>2
  <2>5. \A i \in 1..Len(Tail(s)) : IsIn(Tail(s)[i], s)
    BY <2>3 DEF IsIn
  <2> QED BY <1>0, <1>2, <2>1, <2>3, <2>4, <2>5
<1> QED BY <1>0, <1>1, <1>2

\* dropPending removes one entry and no other.
LEMMA DropPendingIs ==
    ASSUME NEW E, NEW s \in Seq(E), OneEach(s), NEW at \in 1..Len(s)
    PROVE  /\ DropPending(s, at) \in Seq(E) /\ Len(DropPending(s, at)) = Len(s) - 1 /\ OneEach(DropPending(s, at))
           /\ \A i \in 1..Len(DropPending(s, at)) : \E j \in 1..Len(s) : j # at /\ DropPending(s, at)[i] = s[j]
           /\ \A j \in 1..Len(s) : j # at => IsIn(s[j], DropPending(s, at))
<1> DEFINE x == SubSeq(s, 1, at - 1)
           y == SubSeq(s, at + 1, Len(s))
           t == DropPending(s, at)
<1>0. t = x \o y
  BY DEF DropPending
<1>1. x \in Seq(E) /\ Len(x) = at - 1 /\ \A i \in 1..at - 1 : x[i] = s[i]
  OBVIOUS
<1>2. y \in Seq(E) /\ Len(y) = Len(s) - at /\ \A i \in 1..Len(s) - at : y[i] = s[at + i]
  OBVIOUS
<1> HIDE DEF x, y, t
<1>3. t \in Seq(E) /\ Len(t) = Len(s) - 1
  BY <1>0, <1>1, <1>2
<1>4. \A i \in 1..at - 1 : t[i] = s[i]
  BY <1>0, <1>1, <1>2
<1>5. \A i \in at..Len(s) - 1 : t[i] = s[i + 1]
  <2> TAKE i \in at..Len(s) - 1
  <2>1. i - (at - 1) \in 1..Len(y) /\ at + (i - (at - 1)) = i + 1
    BY <1>2
  <2>2. t[Len(x) + (i - (at - 1))] = y[i - (at - 1)]
    BY <1>0, <1>1, <1>2, <2>1, ConcatIndex
  <2>3. Len(x) + (i - (at - 1)) = i
    BY <1>1
  <2>4. t[i] = y[i - (at - 1)]
    BY <2>2, <2>3
  <2> QED BY <1>2, <2>1, <2>4
<1>6. \A i \in 1..Len(t) : \E j \in 1..Len(s) : j # at /\ t[i] = s[j] /\ j = IF i < at THEN i ELSE i + 1
  <2> TAKE i \in 1..Len(t)
  <2>1. CASE i < at
    <3>1. i \in 1..at - 1 /\ i \in 1..Len(s) BY <2>1
    <3> QED BY <1>4, <2>1, <3>1
  <2>2. CASE ~(i < at)
    <3>1. i \in at..Len(s) - 1 /\ i + 1 \in 1..Len(s) /\ i + 1 # at BY <1>3, <2>2
    <3> QED BY <1>5, <2>2, <3>1
  <2> QED BY <2>1, <2>2
<1>7. OneEach(t)
  <2> SUFFICES ASSUME NEW i \in 1..Len(t), NEW j \in 1..Len(t), t[i].packetID = t[j].packetID
               PROVE  i = j
    BY DEF OneEach
  <2>1. PICK a \in 1..Len(s) : t[i] = s[a] /\ a = IF i < at THEN i ELSE i + 1
    BY <1>6
  <2>2. PICK b \in 1..Len(s) : t[j] = s[b] /\ b = IF j < at THEN j ELSE j + 1
    BY <1>6
  <2>3. a = b
    BY <2>1, <2>2 DEF OneEach
  <2> QED BY <1>3, <2>1, <2>2, <2>3
<1>8. ASSUME NEW j \in 1..Len(s), j # at PROVE IsIn(s[j], t)
  <2>1. CASE j < at
    BY <1>3, <1>4, <2>1 DEF IsIn
  <2>2. CASE j > at
    <3>1. j - 1 \in at..Len(s) - 1 /\ j - 1 \in 1..Len(t) /\ (j - 1) + 1 = j
      BY <1>3, <2>2
    <3>2. t[j - 1] = s[j]
      BY <1>5, <3>1
    <3> QED BY <3>1, <3>2 DEF IsIn
  <2> QED BY <1>8, <2>1, <2>2
<1> QED BY <1>3, <1>6, <1>7, <1>8 DEF t

(***************************************************************************)
(* pendingFor returns a store within its bound that has one entry for the  *)
(* datagram it was asked for; if nothing expired and there was room, it    *)
(* still has all the others.                                               *)
(***************************************************************************)
LEMMA PendingForIs ==
    ASSUME NEW E, pending \in Seq(E), OneEach(pending), Len(pending) <= MaxPending,
           NEW f, NEW k \in 0..Len(pending), NewPending(f.packetID, f.total) \in E
    PROVE  LET store == PendingFor(f, k) IN
           /\ store \in Seq(E) /\ Len(store) <= MaxPending /\ OneEach(store)
           /\ \A i \in 1..Len(store) :
                 IsIn(store[i], pending) \/ store[i] = NewPending(f.packetID, f.total)
           /\ Position(store, f.packetID) \in 1..Len(store)
           /\ store[Position(store, f.packetID)].packetID = f.packetID
           /\ k = 0 /\ (Position(pending, f.packetID) # 0 \/ Len(pending) < MaxPending)
                => \A i \in 1..Len(pending) : IsIn(pending[i], store)
<1> DEFINE id == f.packetID
           new == NewPending(f.packetID, f.total)
           kept == Kept(id, k)
           room == WithRoom(kept)
           store == PendingFor(f, k)
<1>0. store = IF Position(kept, id) # 0 THEN kept ELSE Append(room, new)
  BY DEF PendingFor
<1>1. /\ kept \in Seq(E) /\ Len(kept) <= Len(pending) /\ OneEach(kept)
      /\ \A i \in 1..Len(kept) : IsIn(kept[i], pending)
      /\ k = 0 => kept = pending
  BY KeptIs
<1>2. /\ room \in Seq(E) /\ Len(room) < MaxPending /\ OneEach(room)
      /\ \A i \in 1..Len(room) : IsIn(room[i], kept)
      /\ Len(kept) < MaxPending => room = kept
  <2>1. Len(kept) <= MaxPending
    BY <1>1, AssociationAssumption
  <2> HIDE DEF kept
  <2> QED BY <1>1, <2>1, WithRoomIs DEF room
<1>3. new.packetID = id /\ new \in E
  BY DEF NewPending
<1> HIDE DEF id, new, kept, room, store
<1>4. CASE Position(kept, id) # 0
  <2>1. store = kept
    BY <1>0, <1>4
  <2>2. Position(kept, id) \in 1..Len(kept) /\ kept[Position(kept, id)].packetID = id
    BY <1>1, <1>4, PositionFinds
  <2>3. Len(store) <= MaxPending
    BY <1>1, <2>1, AssociationAssumption
  <2>4. k = 0 => \A i \in 1..Len(pending) : IsIn(pending[i], store)
    BY <1>1, <2>1 DEF IsIn
  <2> QED BY <1>1, <2>1, <2>2, <2>3, <2>4 DEF store, id
<1>5. CASE Position(kept, id) = 0
  <2>1. store = Append(room, new)
    BY <1>0, <1>5
  <2>2. \A i \in 1..Len(kept) : kept[i].packetID # id
    BY <1>1, <1>5, PositionFinds
  <2>3. \A i \in 1..Len(room) : room[i].packetID # id
    BY <1>2, <2>2 DEF IsIn
  <2>4. /\ store \in Seq(E) /\ Len(store) = Len(room) + 1 /\ store[Len(room) + 1] = new
        /\ \A i \in 1..Len(room) : store[i] = room[i]
    BY <1>2, <1>3, <2>1
  <2>5. OneEach(store)
    BY <1>2, <1>3, <2>3, <2>4 DEF OneEach
  <2>6. Len(store) <= MaxPending
    BY <1>2, <2>4, AssociationAssumption
  <2>7. \A i \in 1..Len(store) : IsIn(store[i], pending) \/ store[i] = new
    <3> TAKE i \in 1..Len(store)
    <3>1. i \in 1..Len(room) \/ i = Len(room) + 1
      BY <1>2, <2>4
    <3>2. CASE i \in 1..Len(room)
      <4>1. PICK j \in 1..Len(kept) : kept[j] = room[i]
        BY <1>2, <3>2 DEF IsIn
      <4> QED BY <1>1, <2>4, <3>2, <4>1
    <3> QED BY <2>4, <3>1, <3>2
  <2>8. Position(store, id) \in 1..Len(store) /\ store[Position(store, id)].packetID = id
    <3>1. Len(room) + 1 \in 1..Len(store) /\ store[Len(room) + 1].packetID = id /\ Len(store) \in Nat
      BY <1>2, <1>3, <2>4
    <3> QED BY <3>1, PositionFinds
  <2>9. ASSUME k = 0, Position(pending, id) # 0 \/ Len(pending) < MaxPending
        PROVE  \A i \in 1..Len(pending) : IsIn(pending[i], store)
    <3>1. kept = pending /\ Len(pending) < MaxPending
      BY <1>1, <1>5, <2>9
    <3>2. room = pending
      BY <1>2, <3>1
    <3>3. \A i \in 1..Len(pending) : i \in 1..Len(store) /\ store[i] = pending[i]
      BY <2>4, <3>2
    <3> QED BY <3>3 DEF IsIn
  <2> QED BY <2>4, <2>5, <2>6, <2>7, <2>8, <2>9 DEF store, id, new
<1> QED BY <1>4, <1>5

-----------------------------------------------------------------------------
(* An entry of the store                                                   *)

\* The frame of the k-th fragment of datagram n, counted from 0.
FrameOf(n, len, k) == [packetID |-> n, total |-> Total(len), index |-> k, fragment |-> Fragment(Datagram(n, len), k)]

Entries == [packetID : Nat, total : Nat, remaining : Nat, size : Int, fragments : Seq(Seq(Bytes))]

\* The fragments that have not arrived, and what pending.size says of the
\* others.
Missing(d) == {k \in 1..d.total : d.fragments[k] = Nil}

Counted(d, len) ==
    LET got == d.total - d.remaining IN
    d.size = IF d.fragments[d.total] = Nil THEN got * Budget
             ELSE (got - 1) * Budget + (len - (d.total - 1) * Budget)

\* What an entry holds of datagram n: fragments of that datagram, at their
\* index, with remaining and size that agree with them.
IsOwnEntry(d, n, len) ==
    /\ len > Budget
    /\ d.packetID = n
    /\ d.total = Total(len)
    /\ Len(d.fragments) = Total(len)
    /\ \A k \in 1..Total(len) : d.fragments[k] \in {Nil, Fragment(Datagram(n, len), k - 1)}
    /\ d.remaining = Cardinality(Missing(d))
    /\ Counted(d, len)

\* The indices of the fragments can be counted.
LEMMA UpToIsFinite ==
    ASSUME NEW t \in Nat
    PROVE  IsFiniteSet(1..t) /\ Cardinality(1..t) = t
BY FS_Interval

\* A frame: one of at least one fragments, and not an empty one of several.
IsFrame(f) ==
    /\ f.packetID \in Nat /\ f.total \in Nat /\ f.index \in 0..f.total-1
    /\ f.fragment \in Seq(Bytes) /\ (f.total > 1 => f.fragment # Nil)

\* An entry whose count is right, whatever datagrams its fragments are from.
IsSound(d) == Len(d.fragments) = d.total /\ d.remaining = Cardinality(Missing(d)) /\ d.remaining > 0

\* A new entry has all its fragments missing.
LEMMA NewIsSound ==
    ASSUME NEW n \in Nat, NEW t \in Nat, t > 0
    PROVE  NewPending(n, t) \in Entries /\ IsSound(NewPending(n, t))
<1> DEFINE d == NewPending(n, t)
           s == [i \in 1..t |-> Nil]
<1>1. Nil \in Seq(Bytes)
  BY DEF Nil
<1>2. s \in Seq(Seq(Bytes)) /\ Len(s) = t /\ \A i \in 1..t : s[i] = Nil
  BY <1>1
<1> HIDE DEF s
<1>3. d = [packetID |-> n, total |-> t, remaining |-> t, size |-> 0, fragments |-> s]
  BY DEF NewPending, s
<1> HIDE DEF d
<1>4. d \in Entries
  BY <1>2, <1>3 DEF Entries
<1>5. Missing(d) = 1..t
  BY <1>2, <1>3 DEF Missing
<1>6. Cardinality(1..t) = t
  BY UpToIsFinite
<1>7. IsSound(d)
  BY <1>2, <1>3, <1>5, <1>6 DEF IsSound
<1> QED BY <1>4, <1>7 DEF d

\* A fragment that was missing: one less is.
LEMMA FilledIsSound ==
    ASSUME NEW d \in Entries, IsSound(d), NEW f, IsFrame(f), f.total > 1,
           d.total = f.total, d.fragments[f.index + 1] = Nil
    PROVE  LET e == Filled(d, f) IN
           e \in Entries /\ e.packetID = d.packetID /\ (e.remaining # 0 => IsSound(e))
<1> DEFINE t == d.total
           k == f.index
           x == f.fragment
           s == [d.fragments EXCEPT ![k + 1] = x]
           e == Filled(d, f)
<1>1. t \in Nat /\ k \in 0..t-1 /\ x \in Seq(Bytes) /\ x # Nil /\ Len(x) \in Nat
  BY DEF IsFrame
<1>2. Len(d.fragments) = t /\ d.remaining = Cardinality(Missing(d))
  BY DEF IsSound
<1>3. d.packetID \in Nat /\ d.remaining \in Nat /\ d.size \in Int /\ d.fragments \in Seq(Seq(Bytes))
  BY DEF Entries
<1>4. d.fragments[k + 1] = Nil
  OBVIOUS
<1> HIDE DEF t, k, x
<1>5. s \in Seq(Seq(Bytes)) /\ Len(s) = t /\ \A i \in 1..t : s[i] = IF i = k + 1 THEN x ELSE d.fragments[i]
  BY <1>1, <1>2, <1>3
<1> HIDE DEF s
<1>6. e = [packetID |-> d.packetID, total |-> t, remaining |-> d.remaining - 1, size |-> d.size + Len(x), fragments |-> s]
  <2>1. e = [d EXCEPT !.fragments = s, !.remaining = d.remaining - 1, !.size = d.size + Len(x)]
    BY DEF Filled, s, k, x
  <2> QED BY <2>1, Zenon DEF Entries, t
<1> HIDE DEF e
<1>7. Missing(e) = Missing(d) \ {k + 1} /\ k + 1 \in Missing(d) /\ IsFiniteSet(Missing(d))
  <2>1. Missing(e) = {i \in 1..t : s[i] = Nil}
    BY <1>6 DEF Missing
  <2>2. Missing(d) = {i \in 1..t : d.fragments[i] = Nil}
    BY DEF Missing, t
  <2>3. k + 1 \in 1..t
    BY <1>1
  <2>4. IsFiniteSet(1..t)
    BY <1>1, UpToIsFinite
  <2>5. IsFiniteSet(Missing(d))
    BY <2>2, <2>4, FS_Subset, Zenon
  <2> QED BY <1>1, <1>4, <1>5, <2>1, <2>2, <2>3, <2>5
<1>8. Cardinality(Missing(e)) = Cardinality(Missing(d)) - 1 /\ Cardinality(Missing(e)) \in Nat
  BY <1>7, FS_RemoveElement, FS_CardinalityType
<1>9. e.remaining = Cardinality(Missing(e)) /\ d.remaining - 1 \in Nat
  BY <1>2, <1>3, <1>6, <1>8
<1>10. e \in Entries
  BY <1>1, <1>3, <1>5, <1>6, <1>9 DEF Entries
<1>11. e.packetID = d.packetID /\ Len(e.fragments) = e.total
  BY <1>5, <1>6
<1>12. e.remaining # 0 => IsSound(e)
  <2>1. e.remaining \in Nat
    BY <1>10 DEF Entries
  <2> QED BY <1>9, <1>11, <2>1 DEF IsSound
<1> QED BY <1>10, <1>11, <1>12 DEF e

\* A new entry is its datagram's.
LEMMA NewIsOwn ==
    ASSUME NEW n \in Nat, NEW len \in Nat, len > Budget
    PROVE  LET d == NewPending(n, Total(len)) IN
           d \in Entries /\ IsOwnEntry(d, n, len) /\ d.remaining > 0
<1> DEFINE t == Total(len)
           d == NewPending(n, t)
           s == [i \in 1..t |-> Nil]
<1>0. Budget \in Nat /\ t \in Nat /\ t > 1
  BY AssociationAssumption, TotalBounds
<1> HIDE DEF t
<1>1. Nil \in Seq(Bytes)
  BY DEF Nil
<1>2. s \in Seq(Seq(Bytes)) /\ Len(s) = t /\ \A i \in 1..t : s[i] = Nil
  BY <1>0, <1>1
<1> HIDE DEF s
<1>3. d = [packetID |-> n, total |-> t, remaining |-> t, size |-> 0, fragments |-> s]
  BY DEF NewPending, s
<1> HIDE DEF d
<1>4. d \in Entries
  BY <1>0, <1>2, <1>3 DEF Entries
<1>5. Missing(d) = 1..t
  BY <1>2, <1>3 DEF Missing
<1>6. Cardinality(1..t) = t
  BY <1>0, UpToIsFinite
<1>7. Counted(d, len)
  BY <1>0, <1>2, <1>3 DEF Counted
<1>8. IsOwnEntry(d, n, len)
  BY <1>2, <1>3, <1>5, <1>6, <1>7 DEF IsOwnEntry, t
<1>9. d.remaining > 0
  BY <1>0, <1>3
<1> QED BY <1>4, <1>8, <1>9 DEF d, t

\* pending.size never exceeds the length of the datagram: its entry is not
\* dropped for its size.
LEMMA SizeBound ==
    ASSUME NEW len \in Nat, NEW d,
           NEW r \in Nat, d.remaining = r, d.total = Total(len), r <= Total(len), d.size \in Int,
           len > Budget, Counted(d, len), d.fragments[d.total] = Nil => r > 0
    PROVE  d.size <= len
<1> DEFINE t == Total(len)
<1>0. Budget \in Nat /\ t \in Nat /\ t > 1 /\ (t - 1) * Budget <= len
  BY AssociationAssumption, TotalBounds
<1>1. r * Budget \in Nat /\ t * Budget \in Nat
  BY <1>0
<1>2. r * Budget >= 0 /\ (r > 0 => (r - 1) * Budget >= 0)
  BY <1>0
<1>3. (t - r) * Budget = t * Budget - r * Budget
  BY <1>0
<1>4. (t - r - 1) * Budget = t * Budget - r * Budget - Budget
  BY <1>0
<1>5. (t - 1) * Budget = t * Budget - Budget
  BY <1>0
<1>6. (r - 1) * Budget = r * Budget - Budget
  BY <1>0
<1> HIDE DEF t
<1>7. CASE d.fragments[d.total] = Nil
  <2>1. d.size = (t - r) * Budget
    BY <1>7 DEF Counted, t
  <2> QED BY <1>0, <1>1, <1>2, <1>3, <1>5, <1>6, <1>7, <2>1
<1>8. CASE d.fragments[d.total] # Nil
  <2>1. d.size = (t - r - 1) * Budget + (len - (t - 1) * Budget)
    BY <1>8 DEF Counted, t
  <2> QED BY <1>0, <1>1, <1>2, <1>4, <1>5, <2>1
<1> QED BY <1>7, <1>8

\* A fragment that arrives for the first time: the entry stays its own, and one
\* less is missing.
LEMMA FilledIs ==
    ASSUME NEW n \in Nat, NEW len \in Nat, NEW d \in Entries, IsOwnEntry(d, n, len),
           NEW k \in 0..Total(len)-1, d.fragments[k + 1] = Nil
    PROVE  LET e == Filled(d, FrameOf(n, len, k)) IN
           /\ e \in Entries /\ IsOwnEntry(e, n, len) /\ e.size <= len
           /\ \A i \in 1..Total(len) : e.fragments[i] = IF i = k + 1 THEN Fragment(Datagram(n, len), k) ELSE d.fragments[i]
           /\ Fragment(Datagram(n, len), k) # Nil
<1> DEFINE t == Total(len)
           x == Fragment(Datagram(n, len), k)
           s == [d.fragments EXCEPT ![k + 1] = x]
           f == FrameOf(n, len, k)
           e == Filled(d, f)
<1>0. Budget \in Nat \ {0} /\ t \in Nat /\ t > 1 /\ len > Budget /\ len > 0
  <2>1. Budget \in Nat \ {0} /\ len > Budget
    BY AssociationAssumption DEF IsOwnEntry
  <2> QED BY <2>1, TotalBounds
<1>1. x \in Seq(Bytes) /\ Len(x) = FragmentSize(len, k) /\ x # Nil /\ FragmentSize(len, k) \in Nat
  <2>1. x \in Seq(Bytes) /\ Len(x) = FragmentSize(len, k) /\ (len > 0 => x # Nil)
    BY FragmentSound, Zenon
  <2>2. FragmentSize(len, k) \in Nat
    BY FragmentSizes, Zenon
  <2> QED BY <1>0, <2>1, <2>2
<1>2. /\ d.packetID = n /\ d.total = t /\ Len(d.fragments) = t
      /\ \A i \in 1..t : d.fragments[i] \in {Nil, Fragment(Datagram(n, len), i - 1)}
      /\ d.remaining = Cardinality(Missing(d))
      /\ Counted(d, len)
  BY DEF IsOwnEntry
<1>3. f.index = k /\ f.fragment = x
  BY DEF FrameOf
<1>4. d.packetID \in Nat /\ d.total \in Nat /\ d.remaining \in Nat /\ d.size \in Int /\ d.fragments \in Seq(Seq(Bytes))
  BY DEF Entries
<1>5. k \in 0..t-1 /\ d.fragments[k + 1] = Nil
  OBVIOUS
<1> HIDE DEF t, x, f
<1>6. s \in Seq(Seq(Bytes)) /\ Len(s) = t /\ \A i \in 1..t : s[i] = IF i = k + 1 THEN x ELSE d.fragments[i]
  BY <1>0, <1>1, <1>2, <1>4, <1>5
<1> HIDE DEF s
<1>7. e = [packetID |-> n, total |-> t, remaining |-> d.remaining - 1, size |-> d.size + Len(x), fragments |-> s]
  <2>1. e = [d EXCEPT !.fragments = s, !.remaining = d.remaining - 1, !.size = d.size + Len(x)]
    BY <1>3 DEF Filled, s
  <2> QED BY <1>2, <2>1, Zenon DEF Entries
<1> HIDE DEF e
<1>8. Missing(e) = Missing(d) \ {k + 1} /\ k + 1 \in Missing(d) /\ IsFiniteSet(Missing(d))
  <2>1. Missing(e) = {i \in 1..t : s[i] = Nil}
    BY <1>7 DEF Missing
  <2>2. Missing(d) = {i \in 1..t : d.fragments[i] = Nil}
    BY <1>2 DEF Missing
  <2>3. k + 1 \in 1..t
    BY <1>0, <1>5
  <2>4. IsFiniteSet(1..t)
    BY <1>0, UpToIsFinite
  <2>5. IsFiniteSet(Missing(d))
    BY <2>2, <2>4, FS_Subset, Zenon
  <2> QED BY <1>1, <1>5, <1>6, <2>1, <2>2, <2>3, <2>5
<1>9. Cardinality(Missing(e)) = Cardinality(Missing(d)) - 1 /\ Cardinality(Missing(e)) \in Nat
  BY <1>8, FS_RemoveElement, FS_CardinalityType
<1>10. e.remaining = Cardinality(Missing(e)) /\ d.remaining >= 1 /\ d.remaining - 1 \in Nat
  BY <1>2, <1>4, <1>7, <1>9
<1>11. e \in Entries
  BY <1>0, <1>1, <1>4, <1>6, <1>7, <1>10 DEF Entries
<1>12. \A i \in 1..t : e.fragments[i] = IF i = k + 1 THEN x ELSE d.fragments[i]
  BY <1>6, <1>7
<1>13. \A i \in 1..t : e.fragments[i] \in {Nil, Fragment(Datagram(n, len), i - 1)}
  <2> TAKE i \in 1..t
  <2>1. i = k + 1 => x = Fragment(Datagram(n, len), i - 1)
    BY <1>0, <1>5 DEF x
  <2> QED BY <1>2, <1>12, <2>1
<1>14. Counted(e, len)
  <2> DEFINE r == d.remaining
  <2>1. e.total = t /\ e.remaining = r - 1 /\ e.size = d.size + FragmentSize(len, k) /\ r \in Nat /\ d.size \in Int
    BY <1>1, <1>4, <1>7
  <2>2. t \in 1..t
    BY <1>0
  <2>3. d.size = IF d.fragments[t] = Nil THEN (t - r) * Budget ELSE (t - r - 1) * Budget + (len - (t - 1) * Budget)
    BY <1>2 DEF Counted
  <2>4. /\ (t - (r - 1)) * Budget = (t - r) * Budget + Budget
        /\ (t - (r - 1) - 1) * Budget = (t - r) * Budget
        /\ (t - r - 1) * Budget + Budget = (t - r) * Budget
        /\ (t - r) * Budget \in Int /\ (t - r - 1) * Budget \in Int /\ (t - 1) * Budget \in Int
    BY <1>0, <2>1
  <2> HIDE DEF r
  <2>5. CASE k = t - 1
    <3>1. e.fragments[t] = x /\ d.fragments[t] = Nil /\ FragmentSize(len, k) = len - (t - 1) * Budget
      BY <1>0, <1>5, <1>12, <2>2, <2>5 DEF FragmentSize, t
    <3>2. e.size = (t - r) * Budget + (len - (t - 1) * Budget)
      BY <2>1, <2>3, <3>1
    <3> QED BY <1>1, <2>1, <2>4, <3>1, <3>2 DEF Counted
  <2>6. CASE k # t - 1
    <3>1. e.fragments[t] = d.fragments[t] /\ FragmentSize(len, k) = Budget
      BY <1>0, <1>5, <1>12, <2>2, <2>6 DEF FragmentSize, t
    <3>2. e.size = d.size + Budget
      BY <2>1, <3>1
    <3>3. CASE d.fragments[t] = Nil
      BY <1>0, <2>1, <2>3, <2>4, <3>1, <3>2, <3>3 DEF Counted
    <3>4. CASE d.fragments[t] # Nil
      BY <1>0, <2>1, <2>3, <2>4, <3>1, <3>2, <3>4 DEF Counted
    <3> QED BY <3>3, <3>4
  <2> QED BY <2>5, <2>6
<1>15. IsOwnEntry(e, n, len)
  BY <1>0, <1>6, <1>7, <1>10, <1>13, <1>14 DEF IsOwnEntry, t
<1>16. e.size <= len
  <2>1. e.remaining \in Nat /\ e.size \in Int
    BY <1>11 DEF Entries
  <2>2. e.remaining <= t
    <3>1. Missing(e) \subseteq 1..t
      BY <1>7 DEF Missing
    <3>3. IsFiniteSet(1..t) /\ Cardinality(1..t) = t
      BY <1>0, UpToIsFinite
    <3>2. Cardinality(Missing(e)) <= Cardinality(1..t)
      BY <3>1, <3>3, FS_Subset, Zenon
    <3> QED BY <1>10, <3>2, <3>3
  <2>3. e.fragments[e.total] = Nil => e.remaining > 0
    <3>1. t \in 1..t /\ e.total = t
      BY <1>0, <1>7
    <3>2. e.fragments[t] = Nil => Missing(e) # {}
      BY <3>1 DEF Missing
    <3>3. IsFiniteSet(Missing(e))
      BY <1>8, FS_RemoveElement
    <3>4. Missing(e) # {} => Cardinality(Missing(e)) # 0
      BY <3>3, FS_EmptySet
    <3> QED BY <1>10, <2>1, <3>1, <3>2, <3>4
  <2> QED BY <1>0, <1>7, <1>14, <2>1, <2>2, <2>3, SizeBound DEF t
<1> QED BY <1>1, <1>11, <1>12, <1>15, <1>16 DEF e, f, x, t

\* An entry that lacks nothing is the datagram.
LEMMA CompleteIs ==
    ASSUME NEW n \in Nat, NEW len \in Nat, NEW d \in Entries, IsOwnEntry(d, n, len), d.remaining = 0
    PROVE  Payload(d.fragments) = Datagram(n, len)
<1> DEFINE t == Total(len)
<1>0. t \in Nat /\ d.total = t /\ Len(d.fragments) = t /\ d.remaining = Cardinality(Missing(d))
      /\ \A i \in 1..t : d.fragments[i] \in {Nil, Fragment(Datagram(n, len), i - 1)}
  BY TotalBounds DEF IsOwnEntry
<1>1. IsFiniteSet(Missing(d))
  <2>1. Missing(d) \subseteq 1..t
    BY <1>0 DEF Missing
  <2>2. IsFiniteSet(1..t)
    BY <1>0, UpToIsFinite
  <2> QED BY <2>1, <2>2, FS_Subset, Zenon
<1>2. Missing(d) = {}
  BY <1>0, <1>1, FS_EmptySet
<1>3. \A i \in 1..t : d.fragments[i] = Fragment(Datagram(n, len), i - 1)
  BY <1>0, <1>2 DEF Missing
<1> QED BY <1>0, <1>3, FragmentsRebuild

-----------------------------------------------------------------------------
(* Queues                                                                  *)

\* The elements of a sequence.
LEMMA RangeIs ==
    ASSUME NEW S, NEW s \in Seq(S)
    PROVE  Range(s) = {s[i] : i \in 1..Len(s)}
BY DEF Range

\* Those of one with at most one element.
LEMMA RangeOne ==
    ASSUME NEW x
    PROVE  Range(<<x>>) = {x} /\ Range(<<>>) = {}
<1>1. Range(<<>>) = {}
  BY DEF Range
<1>2. <<x>> \in Seq({x}) /\ Len(<<x>>) = 1 /\ <<x>>[1] = x
  OBVIOUS
<1>3. Range(<<x>>) = {<<x>>[i] : i \in 1..Len(<<x>>)}
  BY <1>2, RangeIs, Zenon
<1> QED BY <1>1, <1>2, <1>3

\* Those of a queue after a send,
LEMMA RangeAppend ==
    ASSUME NEW S, NEW s \in Seq(S), NEW x \in S
    PROVE  Range(Append(s, x)) = Range(s) \cup {x} /\ Append(s, x) \in Seq(S)
<1> DEFINE t == Append(s, x)
<1>1. t \in Seq(S) /\ Len(t) = Len(s) + 1 /\ t[Len(s) + 1] = x /\ \A i \in 1..Len(s) : t[i] = s[i]
  OBVIOUS
<1> HIDE DEF t
<1>2. Range(t) = {t[i] : i \in 1..Len(t)} /\ Range(s) = {s[i] : i \in 1..Len(s)}
  BY <1>1, RangeIs
<1>3. \A i \in 1..Len(t) : i \in 1..Len(s) \/ i = Len(s) + 1
  BY <1>1
<1>4. \A i \in 1..Len(s) : i \in 1..Len(t)
  BY <1>1
<1>5. Len(s) + 1 \in 1..Len(t)
  BY <1>1
<1>6. Range(t) = Range(s) \cup {x}
  BY <1>1, <1>2, <1>3, <1>4, <1>5
<1> QED BY <1>1, <1>6 DEF t

\* and before a receive.
LEMMA RangeTail ==
    ASSUME NEW S, NEW s \in Seq(S), s # <<>>
    PROVE  Range(s) = {Head(s)} \cup Range(Tail(s)) /\ Head(s) \in S /\ Tail(s) \in Seq(S)
<1> DEFINE t == Tail(s)
<1>1. t \in Seq(S) /\ Len(t) = Len(s) - 1 /\ Head(s) = s[1] /\ Head(s) \in S /\ Len(s) > 0 /\ \A i \in 1..Len(t) : t[i] = s[i + 1]
  OBVIOUS
<1> HIDE DEF t
<1>2. Range(t) = {t[i] : i \in 1..Len(t)} /\ Range(s) = {s[i] : i \in 1..Len(s)}
  BY <1>1, RangeIs
<1>3. ASSUME NEW i \in 1..Len(s) PROVE s[i] \in {Head(s)} \cup Range(t)
  <2>1. CASE i = 1 BY <1>1, <2>1
  <2>2. CASE i # 1
    <3>1. i - 1 \in 1..Len(t) /\ (i - 1) + 1 = i BY <1>1, <2>2
    <3>2. t[i - 1] = s[i] BY <1>1, <3>1
    <3> QED BY <1>2, <3>1, <3>2
  <2> QED BY <2>1, <2>2
<1>4. \A i \in 1..Len(t) : i + 1 \in 1..Len(s) /\ t[i] = s[i + 1]
  BY <1>1
<1>5. 1 \in 1..Len(s)
  BY <1>1
<1>6. Range(s) = {Head(s)} \cup Range(t)
  BY <1>1, <1>2, <1>3, <1>4, <1>5
<1> QED BY <1>1, <1>6 DEF t
=============================================================================
