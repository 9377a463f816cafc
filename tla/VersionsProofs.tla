--------------------------- MODULE VersionsProofs ---------------------------
(***************************************************************************)
(* Versions keep the parts that were set, packed versions compare as PEP   *)
(* 440 orders them, whatever the widths of the fields, and the range of a  *)
(* specifier holds the versions that the specifier contains.               *)
(***************************************************************************)
EXTENDS VersionSpecifiers, SequenceTheorems, WellFoundedInduction, TLAPS

\* Every non-empty set of numbers has a least one.
LEMMA Least ==
    ASSUME NEW S \in SUBSET Nat, S # {}
    PROVE  \E m \in S : \A k \in S : m <= k
  <1>1. \E x \in S : \A y \in S : ~ (<<y, x>> \in OpToRel(<, Nat))
    BY NatLessThanWellFounded, WFMin, Zenon
  <1>2. PICK x \in S : \A y \in S : ~ (<<y, x>> \in OpToRel(<, Nat))
    BY <1>1
  <1>3. \A y \in S : ~ (y < x)
    BY <1>2 DEF OpToRel
  <1> QED BY <1>3
-----------------------------------------------------------------------------
(* Lexicographic comparison.                                               *)

\* The sign of a number is one of three.
LEMMA SignType ==
    ASSUME NEW n \in Int
    PROVE  /\ Sign(n) \in {-1, 0, 1}
           /\ Sign(n) = 0 <=> n = 0
           /\ Sign(n) > 0 <=> n > 0
           /\ Sign(n) < 0 <=> n < 0
  BY DEF Sign

\* The places where two sequences differ decide how they compare.
LEMMA LexFirst ==
    ASSUME NEW s \in Seq(Int), NEW t \in Seq(Int), Len(s) = Len(t),
           NEW i \in 1..Len(s), s[i] # t[i], \A j \in 1..Len(s) : j < i => s[j] = t[j]
    PROVE  Lexicographic(s, t) = Sign(s[i] - t[i])
  <1> DEFINE diff == {j \in DOMAIN s : s[j] # t[j]}
  <1>1. i \in diff /\ \A j \in diff : i <= j
    OBVIOUS
  <1>2. (CHOOSE j \in diff : \A k \in diff : j <= k) = i
    BY <1>1
  <1> QED BY <1>1, <1>2 DEF Lexicographic

\* Sequences that differ do so at a first place.
LEMMA FirstPlace ==
    ASSUME NEW s \in Seq(Int), NEW t \in Seq(Int), Len(s) = Len(t), s # t
    PROVE  \E i \in 1..Len(s) : s[i] # t[i] /\ \A j \in 1..Len(s) : j < i => s[j] = t[j]
  <1> DEFINE diff == {j \in 1..Len(s) : s[j] # t[j]}
  <1>1. Len(s) \in Nat /\ diff \in SUBSET Nat
    OBVIOUS
  <1>2. diff # {}
    <2>1. ~ \A j \in 1..Len(s) : s[j] = t[j]
      BY SeqEqual, Zenon
    <2> QED BY <2>1
  <1>3. PICK m \in diff : \A k \in diff : m <= k
    BY <1>1, <1>2, Least
  <1>4. ASSUME NEW j \in 1..Len(s), j < m
        PROVE  s[j] = t[j]
    BY <1>1, <1>3, <1>4
  <1> QED BY <1>3, <1>4

\* Only equal sequences compare as equal.
LEMMA LexZero ==
    ASSUME NEW s \in Seq(Int), NEW t \in Seq(Int), Len(s) = Len(t)
    PROVE  /\ Lexicographic(s, t) = 0 <=> s = t
           /\ Lexicographic(s, t) \in {-1, 0, 1}
  <1>1. CASE s = t
    BY <1>1 DEF Lexicographic
  <1>2. CASE s # t
    <2>1. PICK i \in 1..Len(s) : s[i] # t[i] /\ \A j \in 1..Len(s) : j < i => s[j] = t[j]
      BY <1>2, FirstPlace
    <2>2. Lexicographic(s, t) = Sign(s[i] - t[i])
      BY <2>1, LexFirst
    <2>3. s[i] - t[i] \in Int /\ s[i] - t[i] # 0
      BY <2>1
    <2> QED BY <1>2, <2>2, <2>3, SignType
  <1> QED BY <1>1, <1>2

\* Sequences in two parts compare by the first parts, then by the second.
LEMMA LexConcat ==
    ASSUME NEW s \in Seq(Int), NEW t \in Seq(Int), Len(s) = Len(t),
           NEW u \in Seq(Int), NEW v \in Seq(Int), Len(u) = Len(v)
    PROVE  Lexicographic(s \o u, t \o v) =
             IF s # t THEN Lexicographic(s, t) ELSE Lexicographic(u, v)
  <1>a. /\ s \o u \in Seq(Int)
        /\ Len(s \o u) = Len(s) + Len(u)
        /\ \A i \in 1..Len(s) + Len(u) : (s \o u)[i] = IF i <= Len(s) THEN s[i] ELSE u[i - Len(s)]
    BY ConcatProperties, Zenon
  <1>b. /\ t \o v \in Seq(Int)
        /\ Len(t \o v) = Len(t) + Len(v)
        /\ \A i \in 1..Len(t) + Len(v) : (t \o v)[i] = IF i <= Len(t) THEN t[i] ELSE v[i - Len(t)]
    BY ConcatProperties, Zenon
  <1>c. Len(s) \in Nat /\ Len(u) \in Nat
    OBVIOUS
  <1>0. /\ s \o u \in Seq(Int) /\ t \o v \in Seq(Int)
        /\ Len(s \o u) = Len(s) + Len(u) /\ Len(t \o v) = Len(s) + Len(u)
        /\ \A i \in 1..Len(s) : (s \o u)[i] = s[i] /\ (t \o v)[i] = t[i]
        /\ \A i \in 1..Len(u) : (s \o u)[Len(s) + i] = u[i] /\ (t \o v)[Len(s) + i] = v[i]
    BY SMTT(60), <1>a, <1>b, <1>c
  <1>1. CASE s # t
    <2>1. PICK i \in 1..Len(s) : s[i] # t[i] /\ \A j \in 1..Len(s) : j < i => s[j] = t[j]
      BY <1>1, FirstPlace
    <2>2. Lexicographic(s, t) = Sign(s[i] - t[i])
      BY <2>1, LexFirst
    <2>3. /\ i \in 1..Len(s \o u) /\ (s \o u)[i] # (t \o v)[i]
          /\ \A j \in 1..Len(s \o u) : j < i => (s \o u)[j] = (t \o v)[j]
      BY <1>0, <2>1
    <2>4. Lexicographic(s \o u, t \o v) = Sign((s \o u)[i] - (t \o v)[i])
      BY <1>0, <2>3, LexFirst
    <2> QED BY <1>0, <1>1, <2>2, <2>4
  <1>2. CASE s = t /\ u # v
    <2>1. PICK i \in 1..Len(u) : u[i] # v[i] /\ \A j \in 1..Len(u) : j < i => u[j] = v[j]
      BY <1>2, FirstPlace
    <2>2. Lexicographic(u, v) = Sign(u[i] - v[i])
      BY <2>1, LexFirst
    <2>3. Len(s) + i \in 1..Len(s \o u) /\ (s \o u)[Len(s) + i] # (t \o v)[Len(s) + i]
      BY <1>0, <2>1
    <2>4. ASSUME NEW j \in 1..Len(s \o u), j < Len(s) + i
          PROVE  (s \o u)[j] = (t \o v)[j]
      <3>1. CASE j <= Len(s)
        BY <1>0, <1>2, <3>1
      <3>2. CASE j > Len(s)
        <4>1. j - Len(s) \in 1..Len(u) /\ j - Len(s) < i /\ j = Len(s) + (j - Len(s))
          BY <1>0, <2>4, <3>2
        <4>2. (s \o u)[j] = u[j - Len(s)] /\ (t \o v)[j] = v[j - Len(s)]
          BY <1>0, <4>1
        <4> QED BY <2>1, <4>1, <4>2
      <3> QED BY SMTT(60), <3>1, <3>2, <1>0
    <2>5. Lexicographic(s \o u, t \o v) = Sign((s \o u)[Len(s) + i] - (t \o v)[Len(s) + i])
      BY <1>0, <2>3, <2>4, LexFirst
    <2> QED BY <1>0, <1>2, <2>1, <2>2, <2>5
  <1>3. CASE s = t /\ u = v
    BY <1>0, <1>3, LexZero
  <1> QED BY <1>1, <1>2, <1>3
-----------------------------------------------------------------------------
(* Packed versions.                                                        *)

\* Quotient and remainder of a number in two parts.
LEMMA DivMod ==
    ASSUME NEW a \in Nat, NEW b \in Nat, NEW m \in Nat \ {0}, b < m
    PROVE  (a * m + b) % m = b /\ (a * m + b) \div m = a
  OBVIOUS

\* Two parts stay below the product of their bounds.
LEMMA Below ==
    ASSUME NEW a \in Nat, NEW b \in Nat, NEW k \in Nat, NEW m \in Nat \ {0}, a < k, b < m
    PROVE  a * m + b \in Nat /\ a * m + b < k * m
  <1>1. a * m + m <= k * m
    <2>1. a + 1 <= k /\ (a + 1) * m = a * m + m
      OBVIOUS
    <2>2. (a + 1) * m <= k * m
      BY <2>1
    <2> QED BY <2>1, <2>2
  <1>2. a * m \in Nat /\ k * m \in Nat
    OBVIOUS
  <1> QED BY <1>1, <1>2

\* `Ordering::then`.
Then(x, y) == IF x # 0 THEN x ELSE y

\* x is made of a and b, which is below m.
Placed(x, a, b, m) == a \in Nat /\ b \in Nat /\ m \in Nat \ {0} /\ b < m /\ x = a * m + b

\* Numbers in two parts compare by the first, then by the second.
LEMMA Positional ==
    ASSUME NEW x, NEW y, NEW a, NEW b, NEW c, NEW d, NEW m, Placed(x, a, b, m), Placed(y, c, d, m)
    PROVE  Sign(x - y) = Then(Sign(a - c), Sign(b - d))
  <1>0. /\ a \in Nat /\ b \in Nat /\ m \in Nat \ {0} /\ b < m /\ x = a * m + b
        /\ c \in Nat /\ d \in Nat /\ d < m /\ y = c * m + d
        /\ a * m \in Nat /\ c * m \in Nat
    BY DEF Placed
  <1>1. CASE a = c
    BY <1>0, <1>1 DEF Sign, Then
  <1>2. CASE a < c
    <2>1. a * m + b < c * m
      BY <1>0, <1>2, Below
    <2> QED BY <1>0, <1>2, <2>1 DEF Sign, Then
  <1>3. CASE a > c
    <2>1. c * m + d < a * m
      BY <1>0, <1>3, Below
    <2> QED BY <1>0, <1>3, <2>1 DEF Sign, Then
  <1> QED BY <1>0, <1>1, <1>2, <1>3

\* A segment of a release, the ones that are not there being zero.
Segment(r, i) == IF i <= Len(r) THEN r[i] ELSE 0

Value(r) ==
    ((Segment(r, 1) * Rest + Segment(r, 2)) * Rest + Segment(r, 3)) * Rest + Segment(r, 4)

\* The releases and suffixes that a packed version can hold.
Fits(r) ==
    /\ r \in Seq(Nat) /\ Len(r) <= 4
    /\ \A i \in 1..Len(r) : r[i] < (IF i = 1 THEN First ELSE Rest)

SuffixFits(kind, n) ==
    /\ kind \in 0..8 /\ n \in 0..Suffix - 1
    /\ kind \in {SUFFIX_MIN, SUFFIX_NONE, SUFFIX_LOCAL, SUFFIX_MAX} => n = 0

Pack(r, kind, n) ==
    [small |-> TRUE, repr |-> (Value(r) * 16 + kind) * Suffix + n, len |-> Len(r)]

LEMMA Widths == {First, Rest, Suffix, Top} \subseteq Nat \ {0}
  BY VersionAssumption

LEMMA SegmentType ==
    ASSUME NEW r, Fits(r)
    PROVE  /\ Segment(r, 1) \in 0..First - 1
           /\ \A i \in 2..4 : Segment(r, i) \in 0..Rest - 1
           /\ Len(r) \in Nat /\ Len(r) <= 4
           /\ Value(r) \in Nat
  <1>0. Len(r) \in Nat /\ Len(r) <= 4 /\ \A i \in 1..Len(r) : r[i] \in Nat
    BY DEF Fits
  <1>1. Segment(r, 1) \in 0..First - 1
    BY <1>0, Widths DEF Fits, Segment
  <1>2. ASSUME NEW i \in 2..4 PROVE Segment(r, i) \in 0..Rest - 1
    BY Widths DEF Fits, Segment
  <1>3. Value(r) \in Nat
    <2>1. /\ Segment(r, 1) \in Nat /\ Segment(r, 2) \in Nat /\ Segment(r, 3) \in Nat
          /\ Segment(r, 4) \in Nat
      BY <1>1, <1>2, Widths
    <2>2. Segment(r, 1) * Rest + Segment(r, 2) \in Nat
      BY <2>1, Widths
    <2>3. (Segment(r, 1) * Rest + Segment(r, 2)) * Rest + Segment(r, 3) \in Nat
      BY <2>1, <2>2, Widths
    <2> QED BY <2>1, <2>3, Widths DEF Value
  <1> QED BY <1>0, <1>1, <1>2, <1>3

\* The suffix of a packed version is read back.
LEMMA PackSuffix ==
    ASSUME NEW r, Fits(r), NEW kind, NEW n, SuffixFits(kind, n)
    PROVE  /\ suffix_kind(Pack(r, kind, n)) = kind
           /\ suffix_version(Pack(r, kind, n)) = n
           /\ Pack(r, kind, n).repr \in Nat /\ Pack(r, kind, n).small = TRUE
           /\ Pack(r, kind, n).len = Len(r)
  <1> DEFINE v == Pack(r, kind, n)
             a == Value(r) * 16 + kind
  <1>1. kind \in 0..8 /\ n \in Nat /\ n < Suffix /\ Suffix \in Nat \ {0} /\ Value(r) \in Nat
    BY SegmentType, Widths DEF SuffixFits
  <1>2. a \in Nat /\ a % 16 = kind
    BY <1>1
  <1>3. v.repr = a * Suffix + n /\ v.small = TRUE /\ v.len = Len(r)
    BY DEF Pack
  <1> HIDE DEF a, v
  <1>4. v.repr \div Suffix = a /\ v.repr % Suffix = n
    <2>1. a \in Nat
      BY <1>2
    <2>2. (a * Suffix + n) % Suffix = n /\ (a * Suffix + n) \div Suffix = a
      BY <1>1, <2>1, DivMod
    <2> QED BY <1>3, <2>2
  <1>5. v.repr \in Nat
    BY <1>1, <1>2, <1>3
  <1>6. suffix_kind(v) = kind /\ suffix_version(v) = n
    BY <1>2, <1>4 DEF suffix_kind, suffix_version
  <1> QED BY <1>3, <1>5, <1>6 DEF v

\* So are the segments of its release.
LEMMA PackRelease ==
    ASSUME NEW r, Fits(r), NEW kind, NEW n, SuffixFits(kind, n)
    PROVE  SmallRelease(Pack(r, kind, n)) = r
  <1> DEFINE a == Segment(r, 1)
             b == Segment(r, 2)
             c == Segment(r, 3)
             d == Segment(r, 4)
             k == 16 * Suffix
             low == kind * Suffix + n
             repr == Pack(r, kind, n).repr
  <1>1. /\ a \in Nat /\ b \in Nat /\ c \in Nat /\ d \in Nat
        /\ a < First /\ b < Rest /\ c < Rest /\ d < Rest
        /\ First \in Nat \ {0} /\ Rest \in Nat \ {0} /\ Suffix \in Nat \ {0}
    BY SegmentType, Widths
  <1>2. kind \in 0..8 /\ n \in Nat /\ n < Suffix
    BY Widths DEF SuffixFits
  <1>3. k \in Nat \ {0} /\ low \in Nat /\ low < k
    BY <1>1, <1>2, Below
  <1>4. repr = (((a * Rest + b) * Rest + c) * Rest + d) * k + low
    <2>1. Value(r) = ((a * Rest + b) * Rest + c) * Rest + d
      BY DEF Value
    <2>2. Value(r) \in Nat
      BY SegmentType
    <2>3. repr = (Value(r) * 16 + kind) * Suffix + n
      BY DEF Pack
    <2>4. (Value(r) * 16 + kind) * Suffix + n = Value(r) * (16 * Suffix) + (kind * Suffix + n)
      BY <1>1, <1>2, <2>2
    <2> QED BY <2>1, <2>3, <2>4
  <1>5. Pack(r, kind, n).len = Len(r)
    BY DEF Pack
  <1> HIDE DEF a, b, c, d, k, low, repr
  <1>6. /\ Shift(1) = (Rest * (Rest * (Rest * k))) /\ Shift(2) = Rest * (Rest * k)
        /\ Shift(3) = Rest * k /\ Shift(4) = k
    BY <1>1 DEF Shift, k
  <1> DEFINE k3 == Rest * k
             k2 == Rest * k3
             k1 == Rest * k2
             low3 == d * k + low
             low2 == c * k3 + low3
             low1 == b * k2 + low2
             x2 == a * Rest + b
             x3 == x2 * Rest + c
             x4 == x3 * Rest + d
  <1>7. /\ k3 \in Nat \ {0} /\ low3 \in Nat /\ low3 < k3
    BY <1>1, <1>3, Below
  <1>8. /\ k2 \in Nat \ {0} /\ low2 \in Nat /\ low2 < k2
    <2> HIDE DEF k3, low3
    <2> QED BY <1>1, <1>7, Below
  <1>9. /\ k1 \in Nat \ {0} /\ low1 \in Nat /\ low1 < k1
    <2> HIDE DEF k2, low2
    <2> QED BY <1>1, <1>8, Below
  <1>10. x2 \in Nat
    BY <1>1
  <1>11. x3 \in Nat
    BY <1>1, <1>10
  <1>12. x4 \in Nat
    BY <1>1, <1>11
  <1>13. repr = x4 * k + low
    BY <1>4
  <1>14. repr = x3 * k3 + low3
    <2> HIDE DEF x3
    <2> QED BY <1>1, <1>3, <1>11, <1>13
  <1>15. repr = x2 * k2 + low2
    <2> HIDE DEF x2, k3, low3
    <2> QED BY <1>1, <1>7, <1>10, <1>14
  <1>16. repr = a * k1 + low1
    <2> HIDE DEF k2, low2
    <2> QED BY <1>1, <1>8, <1>15
  <1>17. /\ repr \div Shift(1) = a /\ repr \div Shift(2) = x2
         /\ repr \div Shift(3) = x3 /\ repr \div Shift(4) = x4
    <2>1. repr \div k1 = a
      <3> HIDE DEF k1, low1
      <3> QED BY <1>1, <1>9, <1>16, DivMod
    <2>2. repr \div k2 = x2
      <3> HIDE DEF k2, low2, x2
      <3> QED BY <1>8, <1>10, <1>15, DivMod
    <2>3. repr \div k3 = x3
      <3> HIDE DEF k3, low3, x3
      <3> QED BY <1>7, <1>11, <1>14, DivMod
    <2>4. repr \div k = x4
      <3> HIDE DEF x4
      <3> QED BY <1>3, <1>12, <1>13, DivMod
    <2> QED BY <1>6, <2>1, <2>2, <2>3, <2>4
  <1>18. a % First = a /\ x2 % Rest = b /\ x3 % Rest = c /\ x4 % Rest = d
    <2>1. a % First = a
      BY <1>1
    <2>2. x2 % Rest = b
      BY <1>1, DivMod
    <2>3. x3 % Rest = c
      <3> HIDE DEF x2
      <3> QED BY <1>1, <1>10, DivMod
    <2>4. x4 % Rest = d
      <3> HIDE DEF x3
      <3> QED BY <1>1, <1>11, DivMod
    <2> QED BY <2>1, <2>2, <2>3, <2>4
  <1>19. ASSUME NEW i \in 1..Len(r)
         PROVE  (repr \div Shift(i)) % (IF i = 1 THEN First ELSE Rest) = r[i]
    <2>1. i \in 1..4
      <3>1. Len(r) \in Nat /\ Len(r) <= 4
        BY SegmentType
      <3> QED BY <3>1
    <2>2. r[i] = Segment(r, i)
      BY DEF Segment
    <2> QED BY <1>17, <1>18, <2>1, <2>2 DEF a, b, c, d
  <1>20. r \in [1..Len(r) -> Nat]
    BY DEF Fits
  <1> QED BY <1>5, <1>19, <1>20 DEF SmallRelease, repr
-----------------------------------------------------------------------------
(* Versions and their parts.                                               *)

PartsType ==
    [small : {FALSE}, epoch : Nat, release : Seq(Nat), pre : ((2..4) \X Nat) \cup {NoPre},
     post : Nat \cup {None}, dev : Nat \cup {None}, min : {None, 0}, max : {None, 0},
     local : Nat \cup {LocalMax}]

\* A version is packed, or a record of its parts.
IsPacked(v) == \E r, kind, n : Fits(r) /\ SuffixFits(kind, n) /\ v = Pack(r, kind, n)
IsVersion(v) == IsPacked(v) \/ v \in PartsType

\* A record is what its fields are.
LEMMA PartsIs ==
    ASSUME NEW c \in PartsType
    PROVE  c = [small |-> FALSE, epoch |-> c.epoch, release |-> c.release, pre |-> c.pre,
                post |-> c.post, dev |-> c.dev, min |-> c.min, max |-> c.max, local |-> c.local]
  BY DEF PartsType

LEMMA PartsEqual ==
    ASSUME NEW c \in PartsType, NEW d \in PartsType,
           c.epoch = d.epoch, c.release = d.release, c.pre = d.pre, c.post = d.post,
           c.dev = d.dev, c.min = d.min, c.max = d.max, c.local = d.local
    PROVE  c = d
  <1>1. c = [small |-> FALSE, epoch |-> c.epoch, release |-> c.release, pre |-> c.pre,
             post |-> c.post, dev |-> c.dev, min |-> c.min, max |-> c.max, local |-> c.local]
    BY PartsIs, Zenon
  <1>2. d = [small |-> FALSE, epoch |-> d.epoch, release |-> d.release, pre |-> d.pre,
             post |-> d.post, dev |-> d.dev, min |-> d.min, max |-> d.max, local |-> d.local]
    BY PartsIs, Zenon
  <1> HIDE DEF PartsType
  <1>3. [small |-> FALSE, epoch |-> c.epoch, release |-> c.release, pre |-> c.pre,
             post |-> c.post, dev |-> c.dev, min |-> c.min, max |-> c.max, local |-> c.local]
     =  [small |-> FALSE, epoch |-> d.epoch, release |-> d.release, pre |-> d.pre,
             post |-> d.post, dev |-> d.dev, min |-> d.min, max |-> d.max, local |-> d.local]
    OBVIOUS
  <1> QED BY <1>1, <1>2, <1>3, Zenon

LEMMA PartsFields ==
    ASSUME NEW c \in PartsType
    PROVE  /\ c.small = FALSE /\ c.epoch \in Nat /\ c.release \in Seq(Nat)
           /\ c.pre \in ((2..4) \X Nat) \cup {NoPre}
           /\ c.post \in Nat \cup {None} /\ c.dev \in Nat \cup {None}
           /\ c.min \in {None, 0} /\ c.max \in {None, 0} /\ c.local \in Nat \cup {LocalMax}
  BY DEF PartsType

\* The parts of a packed version.
Unpacked(r, kind, n) ==
    [small |-> FALSE, epoch |-> 0, release |-> r,
     pre   |-> IF kind \in SUFFIX_PRE THEN <<kind, n>> ELSE NoPre,
     post  |-> IF kind = SUFFIX_POST THEN n ELSE None,
     dev   |-> IF kind = SUFFIX_DEV THEN n ELSE None,
     min   |-> IF kind = SUFFIX_MIN THEN n ELSE None,
     max   |-> IF kind = SUFFIX_MAX THEN n ELSE None,
     local |-> IF kind = SUFFIX_LOCAL THEN LocalMax ELSE NoLocal]

LEMMA PackParts ==
    ASSUME NEW r, Fits(r), NEW kind, NEW n, SuffixFits(kind, n)
    PROVE  /\ Parts(Pack(r, kind, n)) = Unpacked(r, kind, n)
           /\ Unpacked(r, kind, n) \in PartsType
  <1>1. /\ suffix_kind(Pack(r, kind, n)) = kind
        /\ suffix_version(Pack(r, kind, n)) = n
        /\ Pack(r, kind, n).small = TRUE
        /\ SmallRelease(Pack(r, kind, n)) = r
    BY PackSuffix, PackRelease
  <1>2. Parts(Pack(r, kind, n)) = Unpacked(r, kind, n)
    BY <1>1 DEF Parts, Unpacked, Number
  <1>3. kind \in 0..8 /\ n \in Nat /\ (kind \in {0, 5, 6, 8} => n = 0) /\ r \in Seq(Nat)
    BY Widths DEF SuffixFits, Fits, SUFFIX_MIN, SUFFIX_NONE, SUFFIX_LOCAL, SUFFIX_MAX
  <1>4. Unpacked(r, kind, n) \in PartsType
    BY <1>3 DEF Unpacked, PartsType, SUFFIX_MIN, SUFFIX_NONE, SUFFIX_LOCAL, SUFFIX_MAX,
                SUFFIX_PRE, SUFFIX_POST, SUFFIX_DEV, None, NoPre, NoLocal, LocalMax
  <1> QED BY <1>2, <1>4

LEMMA VersionParts ==
    ASSUME NEW v, IsVersion(v)
    PROVE  Parts(v) \in PartsType /\ (~v.small => Parts(v) = v)
  <1>1. CASE IsPacked(v)
    <2>1. PICK r, kind, n : Fits(r) /\ SuffixFits(kind, n) /\ v = Pack(r, kind, n)
      BY <1>1 DEF IsPacked
    <2> QED BY <2>1, PackParts, PackSuffix
  <1>2. CASE v \in PartsType
    BY <1>2, PartsFields DEF Parts
  <1> QED BY <1>1, <1>2 DEF IsVersion

SmallType == [small : {TRUE}, repr : Int, len : Int]

LEMMA SmallIs ==
    ASSUME NEW v \in SmallType
    PROVE  v = [small |-> TRUE, repr |-> v.repr, len |-> v.len]
  BY DEF SmallType

LEMMA SmallExcept ==
    ASSUME NEW v \in SmallType, NEW x \in Int
    PROVE  [v EXCEPT !.repr = x] = [small |-> TRUE, repr |-> x, len |-> v.len]
  <1>1. [v EXCEPT !.repr = x] \in SmallType
    BY DEF SmallType
  <1>2. [v EXCEPT !.repr = x].repr = x /\ [v EXCEPT !.repr = x].len = v.len
    BY DEF SmallType
  <1> QED BY <1>1, <1>2, SmallIs

LEMMA PackType ==
    ASSUME NEW r, Fits(r), NEW kind, NEW n, SuffixFits(kind, n)
    PROVE  /\ Pack(r, kind, n) \in SmallType
           /\ Pack(r, kind, n).repr = (Value(r) * 16 + kind) * Suffix + n
           /\ Pack(r, kind, n).len = Len(r)
  <1>1. Pack(r, kind, n).repr \in Nat
    BY PackSuffix
  <1>2. Len(r) \in Int
    BY SegmentType
  <1> QED BY <1>1, <1>2 DEF Pack, SmallType

\* The suffix of a packed version is replaced as a whole.
LEMMA PackKind ==
    ASSUME NEW r, Fits(r), NEW kind, NEW n, SuffixFits(kind, n), NEW k \in 0..8
    PROVE  set_suffix_kind(Pack(r, kind, n), k) =
             Pack(r, k, IF k \in {SUFFIX_NONE, SUFFIX_LOCAL} THEN 0 ELSE n)
  <1>1. /\ suffix_kind(Pack(r, kind, n)) = kind
        /\ suffix_version(Pack(r, kind, n)) = n
    BY PackSuffix
  <1>2. kind \in 0..8 /\ n \in Nat /\ Suffix \in Nat /\ Value(r) \in Nat
    BY SegmentType, Widths DEF SuffixFits
  <1>3. (Value(r) * 16 + kind) * Suffix + n + (k - kind) * Suffix = (Value(r) * 16 + k) * Suffix + n
    BY <1>2
  <1>4. (Value(r) * 16 + k) * Suffix + n \in Int /\ (Value(r) * 16 + k) * Suffix \in Int
    BY <1>2
  <1> DEFINE v == Pack(r, kind, n)
             x == v.repr + (k - suffix_kind(v)) * Suffix
                    - IF k \in {SUFFIX_NONE, SUFFIX_LOCAL} THEN suffix_version(v) ELSE 0
  <1>5. /\ v \in SmallType /\ v.repr = (Value(r) * 16 + kind) * Suffix + n /\ v.len = Len(r)
    BY PackType
  <1>6. x = (Value(r) * 16 + k) * Suffix + (IF k \in {SUFFIX_NONE, SUFFIX_LOCAL} THEN 0 ELSE n)
    <2> DEFINE a == (Value(r) * 16 + kind) * Suffix
               b == (k - kind) * Suffix
               c == (Value(r) * 16 + k) * Suffix
               y == IF k \in {SUFFIX_NONE, SUFFIX_LOCAL} THEN n ELSE 0
    <2>1. a \in Int /\ b \in Int /\ c \in Int /\ a + n + b = c + n
      BY <1>2, <1>3
    <2>2. x = (a + n) + b - y
      BY <1>1, <1>5
    <2> HIDE DEF a, b, c
    <2>3. (a + n) + b - y = c + (IF k \in {SUFFIX_NONE, SUFFIX_LOCAL} THEN 0 ELSE n)
      BY <1>2, <2>1
    <2> QED BY <2>2, <2>3 DEF c
  <1>7. x \in Int
    BY <1>2, <1>4, <1>6
  <1>8. set_suffix_kind(v, k) = [v EXCEPT !.repr = x]
    BY DEF set_suffix_kind
  <1> HIDE DEF v, x
  <1>9. [v EXCEPT !.repr = x] = [small |-> TRUE, repr |-> x, len |-> v.len]
    BY <1>5, <1>7, SmallExcept
  <1> QED BY <1>5, <1>6, <1>8, <1>9 DEF v, Pack

LEMMA PackVersion ==
    ASSUME NEW r, Fits(r), NEW kind, NEW n, SuffixFits(kind, n), NEW m \in Nat
    PROVE  set_suffix_version(Pack(r, kind, n), m) = Pack(r, kind, m)
  <1>1. suffix_version(Pack(r, kind, n)) = n
    BY PackSuffix
  <1>2. kind \in 0..8 /\ n \in Nat /\ Suffix \in Nat /\ Value(r) \in Nat
    BY SegmentType, Widths DEF SuffixFits
  <1>3. (Value(r) * 16 + kind) * Suffix \in Int
    BY <1>2
  <1> DEFINE v == Pack(r, kind, n)
             x == v.repr - suffix_version(v) + m
  <1>4. /\ v \in SmallType /\ v.repr = (Value(r) * 16 + kind) * Suffix + n /\ v.len = Len(r)
    BY PackType
  <1>5. x = (Value(r) * 16 + kind) * Suffix + m /\ x \in Int
    BY <1>1, <1>2, <1>3, <1>4
  <1>6. set_suffix_version(v, m) = [v EXCEPT !.repr = x]
    BY DEF set_suffix_version
  <1> HIDE DEF v, x
  <1>7. [v EXCEPT !.repr = x] = [small |-> TRUE, repr |-> x, len |-> v.len]
    BY <1>4, <1>5, SmallExcept
  <1> QED BY <1>4, <1>5, <1>6, <1>7 DEF v, Pack
-----------------------------------------------------------------------------
(* Setters change the part they are for, and no other.                     *)

LEMMA WithPart ==
    ASSUME NEW v, IsVersion(v), NEW packed, NEW full \in PartsType,
           IsPacked(v) =>
             packed = <<>> \/ \E w : packed = <<w>> /\ IsPacked(w) /\ Parts(w) = full
    PROVE  IsVersion(With(v, packed, full)) /\ Parts(With(v, packed, full)) = full
  <1>1. CASE With(v, packed, full) = full
    <2>1. Parts(full) = full
      BY PartsFields DEF Parts
    <2> QED BY <1>1, <2>1 DEF IsVersion
  <1>2. CASE With(v, packed, full) # full
    <2>1. v.small /\ packed # <<>> /\ With(v, packed, full) = packed[1]
      BY <1>2 DEF With
    <2>2. IsPacked(v)
      BY <2>1, PartsFields DEF IsVersion
    <2>3. PICK w : packed = <<w>> /\ IsPacked(w) /\ Parts(w) = full
      BY <2>1, <2>2
    <2>4. With(v, packed, full) = w
      BY <2>1, <2>3
    <2> QED BY <2>3, <2>4 DEF IsVersion
  <1> QED BY <1>1, <1>2

\* What a packed version makes of a suffix: it does not fit, nothing changes, it
\* goes, or it takes the place of the one before.
SuffixSet(try, r, kind, n, own, k, x) ==
    \/ try = <<>>
    \/ try = <<Pack(r, kind, n)>> /\ kind \notin own /\ kind # SUFFIX_NONE /\ x = None
    \/ try = <<Pack(r, SUFFIX_NONE, 0)>> /\ kind \in own \cup {SUFFIX_NONE} /\ x = None
    \/ try = <<Pack(r, k, x)>> /\ kind \in own \cup {SUFFIX_NONE} /\ x < Suffix /\ x # None

LEMMA SetSuffix ==
    ASSUME NEW r, Fits(r), NEW kind, NEW n, SuffixFits(kind, n),
           NEW own \in SUBSET (0..8), NEW k, NEW x \in Nat \cup {None},
           x # None => /\ k \in own \ {SUFFIX_NONE, SUFFIX_LOCAL}
                       /\ k \in {SUFFIX_MIN, SUFFIX_MAX} => own = {k}
    PROVE  SuffixSet(set_suffix(Pack(r, kind, n), own, k, x), r, kind, n, own, k, x)
  <1> DEFINE v == Pack(r, kind, n)
             try == set_suffix(v, own, k, x)
  <1>1. suffix_kind(v) = kind
    BY PackSuffix
  <1>2. CASE kind \notin own \cup {SUFFIX_NONE}
    BY <1>1, <1>2 DEF set_suffix, SuffixSet
  <1>3. CASE kind \in own \cup {SUFFIX_NONE} /\ x = None
    <2>1. set_suffix_kind(v, SUFFIX_NONE) = Pack(r, SUFFIX_NONE, 0)
      BY PackKind DEF SUFFIX_NONE
    <2>2. try = <<set_suffix_kind(v, SUFFIX_NONE)>>
      BY <1>1, <1>3, Widths DEF set_suffix, None
    <2> QED BY <1>3, <2>1, <2>2 DEF SuffixSet
  <1>4. CASE kind \in own \cup {SUFFIX_NONE} /\ x # None /\ x >= Suffix
    BY <1>1, <1>4, Widths DEF set_suffix, SuffixSet, None
  <1>5. CASE kind \in own \cup {SUFFIX_NONE} /\ x # None /\ ~(x >= Suffix)
    <2>1. k \in 0..8 /\ k \notin {SUFFIX_NONE, SUFFIX_LOCAL} /\ x \in Nat /\ x < Suffix
      <3>1. k \in own /\ k \notin {SUFFIX_NONE, SUFFIX_LOCAL}
        BY <1>5
      <3>2. x \in Nat /\ Suffix \in Nat
        BY <1>5, Widths
      <3> QED BY <1>5, <3>1, <3>2
    <2>2. set_suffix_kind(v, k) = Pack(r, k, n)
      BY <2>1, PackKind
    <2>3. SuffixFits(k, n)
      BY <1>5, <2>1 DEF SuffixFits
    <2>4. set_suffix_version(Pack(r, k, n), x) = Pack(r, k, x)
      BY <2>1, <2>3, PackVersion
    <2>5. try = <<set_suffix_version(set_suffix_kind(v, k), x)>>
      BY <1>1, <1>5 DEF set_suffix
    <2> QED BY <1>5, <2>1, <2>2, <2>4, <2>5 DEF SuffixSet
  <1> QED BY <1>2, <1>3, <1>4, <1>5

LEMMA NoneFits == SuffixFits(SUFFIX_NONE, 0)
  BY Widths DEF SuffixFits, SUFFIX_NONE

\* `with_post`.
LEMMA WithPost ==
    ASSUME NEW v, IsVersion(v), NEW x \in Nat \cup {None}
    PROVE  /\ IsVersion(with_post(v, x))
           /\ Parts(with_post(v, x)) = [Parts(v) EXCEPT !.post = x]
  <1> DEFINE try == set_suffix(v, {SUFFIX_POST}, SUFFIX_POST, x)
             c == [Parts(v) EXCEPT !.post = x]
  <1>1. Parts(v) \in PartsType
    BY VersionParts
  <1>2. c \in PartsType
    BY <1>1 DEF PartsType
  <1>3. ASSUME IsPacked(v)
        PROVE  try = <<>> \/ \E w : try = <<w>> /\ IsPacked(w) /\ Parts(w) = c
    <2>1. PICK r, kind, n : Fits(r) /\ SuffixFits(kind, n) /\ v = Pack(r, kind, n)
      BY <1>3 DEF IsPacked
    <2>2. Parts(v) = Unpacked(r, kind, n)
      BY <2>1, PackParts
    <2>3. \/ try = <<>>
          \/ try = <<v>> /\ kind # SUFFIX_POST /\ x = None
          \/ try = <<Pack(r, SUFFIX_NONE, 0)>> /\ kind \in {SUFFIX_POST, SUFFIX_NONE} /\ x = None
          \/ try = <<Pack(r, SUFFIX_POST, x)>> /\ kind \in {SUFFIX_POST, SUFFIX_NONE} /\ x < Suffix /\ x # None
      <3>1. /\ {SUFFIX_POST} \in SUBSET (0..8) /\ x \in Nat \cup {None}
            /\ SUFFIX_POST \in {SUFFIX_POST} \ {SUFFIX_NONE, SUFFIX_LOCAL}
        BY DEF SUFFIX_NONE, SUFFIX_LOCAL, SUFFIX_POST
      <3>2. SuffixSet(set_suffix(Pack(r, kind, n), {SUFFIX_POST}, SUFFIX_POST, x), r, kind, n, {SUFFIX_POST}, SUFFIX_POST, x)
        BY <2>1, <3>1, SetSuffix
      <3> QED BY <2>1, <3>2 DEF SuffixSet
    <2>4. CASE try = <<v>> /\ kind # SUFFIX_POST /\ x = None
      <3>1. Parts(v).post = None
        BY <2>2, <2>4 DEF Unpacked
      <3>2. Parts(v) = c
        BY <1>1, <1>2, <2>4, <3>1, PartsEqual DEF PartsType
      <3> QED BY <1>3, <2>4, <3>2
    <2>5. CASE try = <<Pack(r, SUFFIX_NONE, 0)>> /\ kind \in {SUFFIX_POST, SUFFIX_NONE} /\ x = None
      <3>1. Unpacked(r, SUFFIX_NONE, 0) \in PartsType
            /\ Parts(Pack(r, SUFFIX_NONE, 0)) = Unpacked(r, SUFFIX_NONE, 0)
        BY <2>1, NoneFits, PackParts
      <3>2. Unpacked(r, SUFFIX_NONE, 0) = c
        BY <1>1, <1>2, <2>2, <2>5, <3>1, PartsEqual DEF Unpacked, SUFFIX_NONE, SUFFIX_PRE, SUFFIX_POST,
           SUFFIX_DEV, SUFFIX_MIN, SUFFIX_MAX, SUFFIX_LOCAL
      <3> QED BY <2>1, <2>5, <3>1, <3>2, NoneFits DEF IsPacked
    <2>6. CASE /\ try = <<Pack(r, SUFFIX_POST, x)>> /\ kind \in {SUFFIX_POST, SUFFIX_NONE}
               /\ x < Suffix /\ x # None
      <3>1. SuffixFits(SUFFIX_POST, x)
        BY <2>6, Widths DEF SuffixFits, SUFFIX_MIN, SUFFIX_NONE, SUFFIX_LOCAL, SUFFIX_MAX, SUFFIX_POST
      <3>2. Unpacked(r, SUFFIX_POST, x) \in PartsType
            /\ Parts(Pack(r, SUFFIX_POST, x)) = Unpacked(r, SUFFIX_POST, x)
        BY <2>1, <3>1, PackParts
      <3>3. Unpacked(r, SUFFIX_POST, x) = c
        BY <1>1, <1>2, <2>2, <2>6, <3>2, PartsEqual DEF Unpacked, SUFFIX_NONE, SUFFIX_PRE, SUFFIX_POST,
           SUFFIX_DEV, SUFFIX_MIN, SUFFIX_MAX, SUFFIX_LOCAL
      <3> QED BY <2>1, <2>6, <3>1, <3>2, <3>3 DEF IsPacked
    <2> QED BY <2>3, <2>4, <2>5, <2>6
  <1>4. with_post(v, x) = With(v, try, c)
    BY DEF with_post, make_full
  <1> HIDE DEF try, c
  <1>5. IsVersion(With(v, try, c)) /\ Parts(With(v, try, c)) = c
    BY <1>2, <1>3, WithPart
  <1> QED BY <1>4, <1>5 DEF c

\* `with_dev`.
LEMMA WithDev ==
    ASSUME NEW v, IsVersion(v), NEW x \in Nat \cup {None}
    PROVE  /\ IsVersion(with_dev(v, x))
           /\ Parts(with_dev(v, x)) = [Parts(v) EXCEPT !.dev = x]
  <1> DEFINE try == set_suffix(v, {SUFFIX_DEV}, SUFFIX_DEV, x)
             c == [Parts(v) EXCEPT !.dev = x]
  <1>1. Parts(v) \in PartsType
    BY VersionParts
  <1>2. c \in PartsType
    BY <1>1 DEF PartsType
  <1>3. ASSUME IsPacked(v)
        PROVE  try = <<>> \/ \E w : try = <<w>> /\ IsPacked(w) /\ Parts(w) = c
    <2>1. PICK r, kind, n : Fits(r) /\ SuffixFits(kind, n) /\ v = Pack(r, kind, n)
      BY <1>3 DEF IsPacked
    <2>2. Parts(v) = Unpacked(r, kind, n)
      BY <2>1, PackParts
    <2>3. \/ try = <<>>
          \/ try = <<v>> /\ kind # SUFFIX_DEV /\ x = None
          \/ try = <<Pack(r, SUFFIX_NONE, 0)>> /\ kind \in {SUFFIX_DEV, SUFFIX_NONE} /\ x = None
          \/ try = <<Pack(r, SUFFIX_DEV, x)>> /\ kind \in {SUFFIX_DEV, SUFFIX_NONE} /\ x < Suffix /\ x # None
      <3>1. /\ {SUFFIX_DEV} \in SUBSET (0..8) /\ x \in Nat \cup {None}
            /\ SUFFIX_DEV \in {SUFFIX_DEV} \ {SUFFIX_NONE, SUFFIX_LOCAL}
        BY DEF SUFFIX_NONE, SUFFIX_LOCAL, SUFFIX_DEV
      <3>2. SuffixSet(set_suffix(Pack(r, kind, n), {SUFFIX_DEV}, SUFFIX_DEV, x), r, kind, n, {SUFFIX_DEV}, SUFFIX_DEV, x)
        BY <2>1, <3>1, SetSuffix
      <3> QED BY <2>1, <3>2 DEF SuffixSet
    <2>4. CASE try = <<v>> /\ kind # SUFFIX_DEV /\ x = None
      <3>1. Parts(v).dev = None
        BY <2>2, <2>4 DEF Unpacked
      <3>2. Parts(v) = c
        BY <1>1, <1>2, <2>4, <3>1, PartsEqual DEF PartsType
      <3> QED BY <1>3, <2>4, <3>2
    <2>5. CASE try = <<Pack(r, SUFFIX_NONE, 0)>> /\ kind \in {SUFFIX_DEV, SUFFIX_NONE} /\ x = None
      <3>1. Unpacked(r, SUFFIX_NONE, 0) \in PartsType
            /\ Parts(Pack(r, SUFFIX_NONE, 0)) = Unpacked(r, SUFFIX_NONE, 0)
        BY <2>1, NoneFits, PackParts
      <3>2. Unpacked(r, SUFFIX_NONE, 0) = c
        BY <1>1, <1>2, <2>2, <2>5, <3>1, PartsEqual DEF Unpacked, SUFFIX_NONE, SUFFIX_PRE, SUFFIX_POST,
           SUFFIX_DEV, SUFFIX_MIN, SUFFIX_MAX, SUFFIX_LOCAL
      <3> QED BY <2>1, <2>5, <3>1, <3>2, NoneFits DEF IsPacked
    <2>6. CASE /\ try = <<Pack(r, SUFFIX_DEV, x)>> /\ kind \in {SUFFIX_DEV, SUFFIX_NONE}
               /\ x < Suffix /\ x # None
      <3>1. SuffixFits(SUFFIX_DEV, x)
        BY <2>6, Widths DEF SuffixFits, SUFFIX_MIN, SUFFIX_NONE, SUFFIX_LOCAL, SUFFIX_MAX, SUFFIX_DEV
      <3>2. Unpacked(r, SUFFIX_DEV, x) \in PartsType
            /\ Parts(Pack(r, SUFFIX_DEV, x)) = Unpacked(r, SUFFIX_DEV, x)
        BY <2>1, <3>1, PackParts
      <3>3. Unpacked(r, SUFFIX_DEV, x) = c
        BY <1>1, <1>2, <2>2, <2>6, <3>2, PartsEqual DEF Unpacked, SUFFIX_NONE, SUFFIX_PRE, SUFFIX_POST,
           SUFFIX_DEV, SUFFIX_MIN, SUFFIX_MAX, SUFFIX_LOCAL
      <3> QED BY <2>1, <2>6, <3>1, <3>2, <3>3 DEF IsPacked
    <2> QED BY <2>3, <2>4, <2>5, <2>6
  <1>4. with_dev(v, x) = With(v, try, c)
    BY DEF with_dev, make_full
  <1> HIDE DEF try, c
  <1>5. IsVersion(With(v, try, c)) /\ Parts(With(v, try, c)) = c
    BY <1>2, <1>3, WithPart
  <1> QED BY <1>4, <1>5 DEF c

\* `with_min`: the code sets a min of 0 only.
LEMMA WithMin ==
    ASSUME NEW v, IsVersion(v), NEW x \in {None, 0}
    PROVE  /\ IsVersion(with_min(v, x))
           /\ Parts(with_min(v, x)) = [Parts(v) EXCEPT !.min = x]
  <1> DEFINE try == set_suffix(v, {SUFFIX_MIN}, SUFFIX_MIN, x)
             c == [Parts(v) EXCEPT !.min = x]
  <1>1. Parts(v) \in PartsType
    BY VersionParts
  <1>2. c \in PartsType
    BY <1>1 DEF PartsType
  <1>3. ASSUME IsPacked(v)
        PROVE  try = <<>> \/ \E w : try = <<w>> /\ IsPacked(w) /\ Parts(w) = c
    <2>1. PICK r, kind, n : Fits(r) /\ SuffixFits(kind, n) /\ v = Pack(r, kind, n)
      BY <1>3 DEF IsPacked
    <2>2. Parts(v) = Unpacked(r, kind, n)
      BY <2>1, PackParts
    <2>3. \/ try = <<>>
          \/ try = <<v>> /\ kind # SUFFIX_MIN /\ x = None
          \/ try = <<Pack(r, SUFFIX_NONE, 0)>> /\ kind \in {SUFFIX_MIN, SUFFIX_NONE} /\ x = None
          \/ try = <<Pack(r, SUFFIX_MIN, x)>> /\ kind \in {SUFFIX_MIN, SUFFIX_NONE} /\ x < Suffix /\ x # None
      <3>1. /\ {SUFFIX_MIN} \in SUBSET (0..8) /\ x \in Nat \cup {None}
            /\ SUFFIX_MIN \in {SUFFIX_MIN} \ {SUFFIX_NONE, SUFFIX_LOCAL}
        BY DEF SUFFIX_NONE, SUFFIX_LOCAL, SUFFIX_MIN
      <3>2. SuffixSet(set_suffix(Pack(r, kind, n), {SUFFIX_MIN}, SUFFIX_MIN, x), r, kind, n, {SUFFIX_MIN}, SUFFIX_MIN, x)
        BY <2>1, <3>1, SetSuffix
      <3> QED BY <2>1, <3>2 DEF SuffixSet
    <2>4. CASE try = <<v>> /\ kind # SUFFIX_MIN /\ x = None
      <3>1. Parts(v).min = None
        BY <2>2, <2>4 DEF Unpacked
      <3>2. Parts(v) = c
        BY <1>1, <1>2, <2>4, <3>1, PartsEqual DEF PartsType
      <3> QED BY <1>3, <2>4, <3>2
    <2>5. CASE try = <<Pack(r, SUFFIX_NONE, 0)>> /\ kind \in {SUFFIX_MIN, SUFFIX_NONE} /\ x = None
      <3>1. Unpacked(r, SUFFIX_NONE, 0) \in PartsType
            /\ Parts(Pack(r, SUFFIX_NONE, 0)) = Unpacked(r, SUFFIX_NONE, 0)
        BY <2>1, NoneFits, PackParts
      <3>2. Unpacked(r, SUFFIX_NONE, 0) = c
        BY <1>1, <1>2, <2>2, <2>5, <3>1, PartsEqual DEF Unpacked, SUFFIX_NONE, SUFFIX_PRE, SUFFIX_POST,
           SUFFIX_DEV, SUFFIX_MIN, SUFFIX_MAX, SUFFIX_LOCAL
      <3> QED BY <2>1, <2>5, <3>1, <3>2, NoneFits DEF IsPacked
    <2>6. CASE /\ try = <<Pack(r, SUFFIX_MIN, x)>> /\ kind \in {SUFFIX_MIN, SUFFIX_NONE}
               /\ x < Suffix /\ x # None
      <3>1. SuffixFits(SUFFIX_MIN, x)
        BY <2>6, Widths DEF SuffixFits, SUFFIX_MIN, SUFFIX_NONE, SUFFIX_LOCAL, SUFFIX_MAX, SUFFIX_MIN
      <3>2. Unpacked(r, SUFFIX_MIN, x) \in PartsType
            /\ Parts(Pack(r, SUFFIX_MIN, x)) = Unpacked(r, SUFFIX_MIN, x)
        BY <2>1, <3>1, PackParts
      <3>3. Unpacked(r, SUFFIX_MIN, x) = c
        BY <1>1, <1>2, <2>2, <2>6, <3>2, PartsEqual DEF Unpacked, SUFFIX_NONE, SUFFIX_PRE, SUFFIX_POST,
           SUFFIX_DEV, SUFFIX_MIN, SUFFIX_MAX, SUFFIX_LOCAL
      <3> QED BY <2>1, <2>6, <3>1, <3>2, <3>3 DEF IsPacked
    <2> QED BY <2>3, <2>4, <2>5, <2>6
  <1>4. with_min(v, x) = With(v, try, c)
    BY DEF with_min, make_full
  <1> HIDE DEF try, c
  <1>5. IsVersion(With(v, try, c)) /\ Parts(With(v, try, c)) = c
    BY <1>2, <1>3, WithPart
  <1> QED BY <1>4, <1>5 DEF c

\* `with_max`, likewise.
LEMMA WithMax ==
    ASSUME NEW v, IsVersion(v), NEW x \in {None, 0}
    PROVE  /\ IsVersion(with_max(v, x))
           /\ Parts(with_max(v, x)) = [Parts(v) EXCEPT !.max = x]
  <1> DEFINE try == set_suffix(v, {SUFFIX_MAX}, SUFFIX_MAX, x)
             c == [Parts(v) EXCEPT !.max = x]
  <1>1. Parts(v) \in PartsType
    BY VersionParts
  <1>2. c \in PartsType
    BY <1>1 DEF PartsType
  <1>3. ASSUME IsPacked(v)
        PROVE  try = <<>> \/ \E w : try = <<w>> /\ IsPacked(w) /\ Parts(w) = c
    <2>1. PICK r, kind, n : Fits(r) /\ SuffixFits(kind, n) /\ v = Pack(r, kind, n)
      BY <1>3 DEF IsPacked
    <2>2. Parts(v) = Unpacked(r, kind, n)
      BY <2>1, PackParts
    <2>3. \/ try = <<>>
          \/ try = <<v>> /\ kind # SUFFIX_MAX /\ x = None
          \/ try = <<Pack(r, SUFFIX_NONE, 0)>> /\ kind \in {SUFFIX_MAX, SUFFIX_NONE} /\ x = None
          \/ try = <<Pack(r, SUFFIX_MAX, x)>> /\ kind \in {SUFFIX_MAX, SUFFIX_NONE} /\ x < Suffix /\ x # None
      <3>1. /\ {SUFFIX_MAX} \in SUBSET (0..8) /\ x \in Nat \cup {None}
            /\ SUFFIX_MAX \in {SUFFIX_MAX} \ {SUFFIX_NONE, SUFFIX_LOCAL}
        BY DEF SUFFIX_NONE, SUFFIX_LOCAL, SUFFIX_MAX
      <3>2. SuffixSet(set_suffix(Pack(r, kind, n), {SUFFIX_MAX}, SUFFIX_MAX, x), r, kind, n, {SUFFIX_MAX}, SUFFIX_MAX, x)
        BY <2>1, <3>1, SetSuffix
      <3> QED BY <2>1, <3>2 DEF SuffixSet
    <2>4. CASE try = <<v>> /\ kind # SUFFIX_MAX /\ x = None
      <3>1. Parts(v).max = None
        BY <2>2, <2>4 DEF Unpacked
      <3>2. Parts(v) = c
        BY <1>1, <1>2, <2>4, <3>1, PartsEqual DEF PartsType
      <3> QED BY <1>3, <2>4, <3>2
    <2>5. CASE try = <<Pack(r, SUFFIX_NONE, 0)>> /\ kind \in {SUFFIX_MAX, SUFFIX_NONE} /\ x = None
      <3>1. Unpacked(r, SUFFIX_NONE, 0) \in PartsType
            /\ Parts(Pack(r, SUFFIX_NONE, 0)) = Unpacked(r, SUFFIX_NONE, 0)
        BY <2>1, NoneFits, PackParts
      <3>2. Unpacked(r, SUFFIX_NONE, 0) = c
        BY <1>1, <1>2, <2>2, <2>5, <3>1, PartsEqual DEF Unpacked, SUFFIX_NONE, SUFFIX_PRE, SUFFIX_POST,
           SUFFIX_DEV, SUFFIX_MIN, SUFFIX_MAX, SUFFIX_LOCAL
      <3> QED BY <2>1, <2>5, <3>1, <3>2, NoneFits DEF IsPacked
    <2>6. CASE /\ try = <<Pack(r, SUFFIX_MAX, x)>> /\ kind \in {SUFFIX_MAX, SUFFIX_NONE}
               /\ x < Suffix /\ x # None
      <3>1. SuffixFits(SUFFIX_MAX, x)
        BY <2>6, Widths DEF SuffixFits, SUFFIX_MIN, SUFFIX_NONE, SUFFIX_LOCAL, SUFFIX_MAX, SUFFIX_MAX
      <3>2. Unpacked(r, SUFFIX_MAX, x) \in PartsType
            /\ Parts(Pack(r, SUFFIX_MAX, x)) = Unpacked(r, SUFFIX_MAX, x)
        BY <2>1, <3>1, PackParts
      <3>3. Unpacked(r, SUFFIX_MAX, x) = c
        BY <1>1, <1>2, <2>2, <2>6, <3>2, PartsEqual DEF Unpacked, SUFFIX_NONE, SUFFIX_PRE, SUFFIX_POST,
           SUFFIX_DEV, SUFFIX_MIN, SUFFIX_MAX, SUFFIX_LOCAL
      <3> QED BY <2>1, <2>6, <3>1, <3>2, <3>3 DEF IsPacked
    <2> QED BY <2>3, <2>4, <2>5, <2>6
  <1>4. with_max(v, x) = With(v, try, c)
    BY DEF with_max, make_full
  <1> HIDE DEF try, c
  <1>5. IsVersion(With(v, try, c)) /\ Parts(With(v, try, c)) = c
    BY <1>2, <1>3, WithPart
  <1> QED BY <1>4, <1>5 DEF c

\* `with_pre`: the kind of a pre-release is the kind of the suffix.
LEMMA WithPre ==
    ASSUME NEW v, IsVersion(v), NEW x \in ((2..4) \X Nat) \cup {NoPre}
    PROVE  /\ IsVersion(with_pre(v, x))
           /\ Parts(with_pre(v, x)) = [Parts(v) EXCEPT !.pre = x]
  <1> DEFINE try == IF x = NoPre THEN set_suffix(v, SUFFIX_PRE, SUFFIX_NONE, None)
                    ELSE set_suffix(v, SUFFIX_PRE, x[1], x[2])
             c == [Parts(v) EXCEPT !.pre = x]
  <1>1. Parts(v) \in PartsType
    BY VersionParts
  <1>2. c \in PartsType
    BY <1>1 DEF PartsType
  <1>3. ASSUME IsPacked(v)
        PROVE  try = <<>> \/ \E w : try = <<w>> /\ IsPacked(w) /\ Parts(w) = c
    <2>1. PICK r, kind, n : Fits(r) /\ SuffixFits(kind, n) /\ v = Pack(r, kind, n)
      BY <1>3 DEF IsPacked
    <2>2. Parts(v) = Unpacked(r, kind, n) /\ kind \in 0..8
      BY <2>1, PackParts DEF SuffixFits
    <2>3. \/ try = <<>>
          \/ try = <<v>> /\ kind \notin SUFFIX_PRE /\ x = NoPre
          \/ try = <<Pack(r, SUFFIX_NONE, 0)>> /\ kind \in SUFFIX_PRE \cup {SUFFIX_NONE} /\ x = NoPre
          \/ /\ try = <<Pack(r, x[1], x[2])>> /\ kind \in SUFFIX_PRE \cup {SUFFIX_NONE}
             /\ x[2] < Suffix /\ x # NoPre
      <3>1. CASE x = NoPre
        <4>1. SUFFIX_PRE \in SUBSET (0..8) /\ try = set_suffix(v, SUFFIX_PRE, SUFFIX_NONE, None)
          BY <3>1 DEF SUFFIX_PRE
        <4> HIDE DEF try
        <4>2. SuffixSet(set_suffix(Pack(r, kind, n), SUFFIX_PRE, SUFFIX_NONE, None),
                        r, kind, n, SUFFIX_PRE, SUFFIX_NONE, None)
          BY <2>1, <4>1, SetSuffix
        <4> QED BY <2>1, <3>1, <4>1, <4>2 DEF SuffixSet
      <3>2. CASE x # NoPre
        <4>1. /\ SUFFIX_PRE \in SUBSET (0..8) /\ x[2] \in Nat \cup {None} /\ x[2] # None
              /\ x[1] \in SUFFIX_PRE \ {SUFFIX_NONE, SUFFIX_LOCAL} /\ x[1] \notin {SUFFIX_MIN, SUFFIX_MAX}
          BY <3>2 DEF None, SUFFIX_PRE, SUFFIX_NONE, SUFFIX_LOCAL, SUFFIX_MIN, SUFFIX_MAX
        <4>2. try = set_suffix(v, SUFFIX_PRE, x[1], x[2])
          BY <3>2
        <4> HIDE DEF try
        <4>3. SuffixSet(set_suffix(Pack(r, kind, n), SUFFIX_PRE, x[1], x[2]),
                        r, kind, n, SUFFIX_PRE, x[1], x[2])
          BY <2>1, <4>1, SetSuffix
        <4> QED BY <2>1, <3>2, <4>1, <4>2, <4>3 DEF SuffixSet
      <3> QED BY <3>1, <3>2
    <2>4. CASE try = <<v>> /\ kind \notin SUFFIX_PRE /\ x = NoPre
      <3>1. Parts(v).pre = NoPre
        BY <2>2, <2>4 DEF Unpacked
      <3>2. Parts(v) = c
        BY <1>1, <1>2, <2>4, <3>1, PartsEqual DEF PartsType
      <3> QED BY <1>3, <2>4, <3>2
    <2>5. CASE try = <<Pack(r, SUFFIX_NONE, 0)>> /\ kind \in SUFFIX_PRE \cup {SUFFIX_NONE} /\ x = NoPre
      <3>1. Unpacked(r, SUFFIX_NONE, 0) \in PartsType
            /\ Parts(Pack(r, SUFFIX_NONE, 0)) = Unpacked(r, SUFFIX_NONE, 0)
        BY <2>1, NoneFits, PackParts
      <3>2. Unpacked(r, SUFFIX_NONE, 0) = c
        BY <1>1, <1>2, <2>2, <2>5, <3>1, PartsEqual DEF Unpacked, SUFFIX_NONE, SUFFIX_PRE, SUFFIX_POST,
           SUFFIX_DEV, SUFFIX_MIN, SUFFIX_MAX, SUFFIX_LOCAL
      <3> QED BY <2>1, <2>5, <3>1, <3>2, NoneFits DEF IsPacked
    <2>6. CASE /\ try = <<Pack(r, x[1], x[2])>> /\ kind \in SUFFIX_PRE \cup {SUFFIX_NONE}
               /\ x[2] < Suffix /\ x # NoPre
      <3>0. x[1] \in 2..4 /\ x[2] \in Nat /\ x = <<x[1], x[2]>>
        BY <2>6
      <3>1. SuffixFits(x[1], x[2])
        BY <2>6, <3>0, Widths DEF SuffixFits, SUFFIX_MIN, SUFFIX_NONE, SUFFIX_LOCAL, SUFFIX_MAX
      <3>2. Unpacked(r, x[1], x[2]) \in PartsType
            /\ Parts(Pack(r, x[1], x[2])) = Unpacked(r, x[1], x[2])
        BY <2>1, <3>1, PackParts
      <3>3. Unpacked(r, x[1], x[2]) = c
        BY <1>1, <1>2, <2>2, <2>6, <3>0, <3>2, PartsEqual DEF Unpacked, SUFFIX_NONE, SUFFIX_PRE,
           SUFFIX_POST, SUFFIX_DEV, SUFFIX_MIN, SUFFIX_MAX, SUFFIX_LOCAL
      <3> QED BY <2>1, <2>6, <3>1, <3>2, <3>3 DEF IsPacked
    <2> QED BY <2>3, <2>4, <2>5, <2>6
  <1>4. with_pre(v, x) = With(v, try, c)
    BY DEF with_pre, make_full
  <1> HIDE DEF try, c
  <1>5. IsVersion(With(v, try, c)) /\ Parts(With(v, try, c)) = c
    BY <1>2, <1>3, WithPart
  <1> QED BY <1>4, <1>5 DEF c

\* `with_local`: a packed version has no local version but the greatest.
LEMMA WithLocal ==
    ASSUME NEW v, IsVersion(v), NEW x \in Nat \cup {LocalMax}
    PROVE  /\ IsVersion(with_local(v, x))
           /\ Parts(with_local(v, x)) = [Parts(v) EXCEPT !.local = x]
  <1> DEFINE try == set_local(v, x)
             c == [Parts(v) EXCEPT !.local = x]
  <1>1. Parts(v) \in PartsType
    BY VersionParts
  <1>2. c \in PartsType
    BY <1>1 DEF PartsType
  <1>3. ASSUME IsPacked(v)
        PROVE  try = <<>> \/ \E w : try = <<w>> /\ IsPacked(w) /\ Parts(w) = c
    <2>1. PICK r, kind, n : Fits(r) /\ SuffixFits(kind, n) /\ v = Pack(r, kind, n)
      BY <1>3 DEF IsPacked
    <2>2. Parts(v) = Unpacked(r, kind, n) /\ suffix_kind(v) = kind
      BY <2>1, PackParts, PackSuffix
    <2>3. CASE kind \notin {SUFFIX_NONE, SUFFIX_LOCAL}
      <3>1. try = <<>> \/ (try = <<v>> /\ x = NoLocal)
        BY <2>2, <2>3 DEF set_local
      <3>2. Parts(v).local = NoLocal
        BY <2>2, <2>3 DEF Unpacked
      <3>3. x = NoLocal => Parts(v) = c
        BY <1>1, <1>2, <3>2, PartsEqual DEF PartsType
      <3> QED BY <1>3, <3>1, <3>3
    <2>4. CASE kind \in {SUFFIX_NONE, SUFFIX_LOCAL}
      <3> DEFINE k == IF x = LocalMax THEN SUFFIX_LOCAL ELSE SUFFIX_NONE
      <3>1. try = <<>> \/ (x \in {LocalMax, NoLocal} /\ try = <<set_suffix_kind(v, k)>>)
        BY <2>2, <2>4 DEF set_local, LocalMax, NoLocal
      <3>2. k \in 0..8 /\ k \in {SUFFIX_NONE, SUFFIX_LOCAL} /\ SuffixFits(k, 0)
        BY Widths DEF SUFFIX_NONE, SUFFIX_LOCAL, SuffixFits
      <3>3. set_suffix_kind(v, k) = Pack(r, k, 0)
        <4> HIDE DEF k
        <4> QED BY <2>1, <3>2, PackKind
      <3>4. Unpacked(r, k, 0) \in PartsType /\ Parts(Pack(r, k, 0)) = Unpacked(r, k, 0)
        BY <2>1, <3>2, PackParts
      <3>5. x \in {LocalMax, NoLocal} => Unpacked(r, k, 0) = c
        BY <1>1, <1>2, <2>2, <2>4, <3>4, PartsEqual DEF Unpacked, SUFFIX_NONE, SUFFIX_PRE,
           SUFFIX_POST, SUFFIX_DEV, SUFFIX_MIN, SUFFIX_MAX, SUFFIX_LOCAL, LocalMax, NoLocal
      <3> QED BY <2>1, <3>1, <3>2, <3>3, <3>4, <3>5 DEF IsPacked
    <2> QED BY <2>3, <2>4
  <1>4. with_local(v, x) = With(v, try, c)
    BY DEF with_local, make_full
  <1> HIDE DEF try, c
  <1>5. IsVersion(With(v, try, c)) /\ Parts(With(v, try, c)) = c
    BY <1>2, <1>3, WithPart
  <1> QED BY <1>4, <1>5 DEF c

\* `with_epoch`: a packed version has none.
LEMMA WithEpoch ==
    ASSUME NEW v, IsVersion(v), NEW x \in Nat
    PROVE  /\ IsVersion(with_epoch(v, x))
           /\ Parts(with_epoch(v, x)) = [Parts(v) EXCEPT !.epoch = x]
  <1> DEFINE try == IF x = 0 THEN <<v>> ELSE <<>>
             c == [Parts(v) EXCEPT !.epoch = x]
  <1>1. Parts(v) \in PartsType
    BY VersionParts
  <1>2. c \in PartsType
    BY <1>1 DEF PartsType
  <1>3. ASSUME IsPacked(v)
        PROVE  try = <<>> \/ \E w : try = <<w>> /\ IsPacked(w) /\ Parts(w) = c
    <2>1. PICK r, kind, n : Fits(r) /\ SuffixFits(kind, n) /\ v = Pack(r, kind, n)
      BY <1>3 DEF IsPacked
    <2>2. Parts(v).epoch = 0
      <3>1. Parts(v) = Unpacked(r, kind, n)
        BY <2>1, PackParts
      <3> QED BY <3>1 DEF Unpacked
    <2>3. x = 0 => Parts(v) = c
      BY <1>1, <1>2, <2>2, PartsEqual DEF PartsType
    <2> QED BY <1>3, <2>3
  <1>4. with_epoch(v, x) = With(v, try, c)
    BY DEF with_epoch, make_full
  <1> HIDE DEF try, c
  <1>5. IsVersion(With(v, try, c)) /\ Parts(With(v, try, c)) = c
    BY <1>2, <1>3, WithPart
  <1> QED BY <1>4, <1>5 DEF c
-----------------------------------------------------------------------------
(* Releases.                                                               *)

LEMMA AppendSegments ==
    ASSUME NEW r \in Seq(Nat), NEW x \in Nat
    PROVE  /\ Append(r, x) \in Seq(Nat) /\ Len(Append(r, x)) = Len(r) + 1 /\ Len(r) \in Nat
           /\ \A i \in 1..Len(r) : Append(r, x)[i] = r[i]
           /\ Append(r, x)[Len(r) + 1] = x
  BY AppendProperties

LEMMA SmallExceptBoth ==
    ASSUME NEW v \in SmallType, NEW x \in Int, NEW l \in Int
    PROVE  [v EXCEPT !.repr = x, !.len = l] = [small |-> TRUE, repr |-> x, len |-> l]
  <1> DEFINE u == [small |-> TRUE, repr |-> x, len |-> v.len]
  <1>1. [v EXCEPT !.repr = x] = u
    BY SmallExcept
  <1>2. u \in SmallType
    BY DEF SmallType
  <1>3. [v EXCEPT !.repr = x, !.len = l] = [u EXCEPT !.len = l]
    BY <1>1
  <1>4. [u EXCEPT !.len = l] \in SmallType /\ [u EXCEPT !.len = l].repr = x /\ [u EXCEPT !.len = l].len = l
    BY <1>2 DEF SmallType
  <1>5. [u EXCEPT !.len = l] = [small |-> TRUE, repr |-> x, len |-> l]
    BY <1>4, SmallIs
  <1> QED BY <1>3, <1>5

LEMMA ShiftIs ==
    /\ Shift(1) = Rest * Rest * Rest * (16 * Suffix) /\ Shift(2) = Rest * Rest * (16 * Suffix)
    /\ Shift(3) = Rest * (16 * Suffix) /\ Shift(4) = 16 * Suffix
    /\ \A i \in 1..4 : Shift(i) \in Nat
  <1>1. Rest \in Nat /\ Suffix \in Nat
    BY Widths
  <1>2. /\ Shift(1) = Rest * Rest * Rest * (16 * Suffix) /\ Shift(2) = Rest * Rest * (16 * Suffix)
        /\ Shift(3) = Rest * (16 * Suffix) /\ Shift(4) = 16 * Suffix
    BY <1>1 DEF Shift
  <1>3. /\ Rest * Rest * Rest * (16 * Suffix) \in Nat /\ Rest * Rest * (16 * Suffix) \in Nat
        /\ Rest * (16 * Suffix) \in Nat /\ 16 * Suffix \in Nat
    BY <1>1
  <1>4. ASSUME NEW i \in 1..4 PROVE Shift(i) \in Nat
    <2>1. i = 1 \/ i = 2 \/ i = 3 \/ i = 4
      OBVIOUS
    <2> QED BY <1>2, <1>3, <2>1
  <1> QED BY <1>2, <1>4

\* A segment that fits goes to its place in the integer.
LEMMA PackPush ==
    ASSUME NEW r, Fits(r), NEW kind, NEW n, SuffixFits(kind, n), NEW x \in Nat
    PROVE  small_push_release(Pack(r, kind, n), x) =
             IF Fits(Append(r, x)) THEN <<Pack(Append(r, x), kind, n)>> ELSE <<>>
  <1> DEFINE v == Pack(r, kind, n)
             q == Append(r, x)
             fits == Len(r) < 4 /\ x < (IF Len(r) = 0 THEN First ELSE Rest)
  <1>1. /\ v \in SmallType /\ v.repr = (Value(r) * 16 + kind) * Suffix + n /\ v.len = Len(r)
    BY PackType
  <1>2. r \in Seq(Nat) /\ Len(r) \in Nat /\ Len(r) <= 4
    BY SegmentType DEF Fits
  <1>3. /\ q \in Seq(Nat) /\ Len(q) = Len(r) + 1
        /\ \A i \in 1..Len(r) : q[i] = r[i]
        /\ q[Len(r) + 1] = x
    BY <1>2, AppendSegments
  <1> HIDE DEF q
  <1>4. fits <=> Fits(q)
    <2>1. fits => Fits(q)
      <3> SUFFICES ASSUME fits PROVE Fits(q)
        OBVIOUS
      <3>1. ASSUME NEW i \in 1..Len(q) PROVE q[i] < (IF i = 1 THEN First ELSE Rest)
        <4>1. CASE i <= Len(r)
          BY <1>2, <1>3, <4>1 DEF Fits
        <4>2. CASE i = Len(r) + 1
          BY <1>2, <1>3, <4>2
        <4> QED BY <1>2, <1>3, <4>1, <4>2
      <3> QED BY <1>2, <1>3, <3>1 DEF Fits
    <2>2. Fits(q) => fits
      <3> SUFFICES ASSUME Fits(q) PROVE fits
        OBVIOUS
      <3>1. Len(r) + 1 \in 1..Len(q)
        BY <1>2, <1>3
      <3>2. x < (IF Len(r) + 1 = 1 THEN First ELSE Rest)
        BY <1>3, <3>1 DEF Fits
      <3> QED BY <1>2, <1>3, <3>2 DEF Fits
    <2> QED BY <2>1, <2>2
  <1>5. CASE ~fits
    BY <1>1, <1>4, <1>5 DEF small_push_release, q
  <1>6. CASE fits
    <2> DEFINE l == Len(r) + 1
    <2>1. small_push_release(v, x) = <<[v EXCEPT !.repr = @ + x * Shift(l), !.len = @ + 1]>>
      BY <1>1, <1>6 DEF small_push_release
    <2>2. Value(q) \in Nat /\ Value(r) \in Nat /\ kind \in 0..8 /\ n \in Nat
          /\ Suffix \in Nat /\ Rest \in Nat
      BY <1>4, <1>6, SegmentType, Widths DEF SuffixFits
    <2>3. l \in 1..4
      BY <1>2, <1>6
    <2>4. Shift(l) \in Nat
      BY <2>3, ShiftIs
    <2>5. /\ \A i \in 1..4 : Segment(r, i) \in Nat
          /\ \A i \in 1..4 : Segment(q, i) = IF i = l THEN x ELSE Segment(r, i)
          /\ \A i \in 1..4 : i >= l => Segment(r, i) = 0
      BY SMTT(60), <1>2, <1>3, <2>3 DEF Segment
    <2>6. Value(q) * (16 * Suffix) = Value(r) * (16 * Suffix) + x * Shift(l)
      <3> DEFINE k == 16 * Suffix
                 a == Segment(r, 1)
                 b == Segment(r, 2)
                 c == Segment(r, 3)
      <3>0. a \in Nat /\ b \in Nat /\ c \in Nat /\ k \in Nat
        BY <2>2, <2>5
      <3>1. Value(r) = ((a * Rest + b) * Rest + c) * Rest + Segment(r, 4)
        BY DEF Value
      <3>2. /\ Shift(1) = Rest * Rest * Rest * k /\ Shift(2) = Rest * Rest * k
            /\ Shift(3) = Rest * k /\ Shift(4) = k
        BY ShiftIs
      <3>3. CASE l = 4
        <4>1. Value(r) = ((a * Rest + b) * Rest + c) * Rest
          BY SMTT(60), <2>2, <2>5, <3>0, <3>1, <3>3
        <4>2. Value(q) = ((a * Rest + b) * Rest + c) * Rest + x
          BY <2>5, <3>3 DEF Value
        <4>3. Value(q) = Value(r) + x
          BY <4>1, <4>2
        <4> HIDE DEF k
        <4>4. Value(q) * k = Value(r) * k + x * k
          BY <2>2, <3>0, <4>3
        <4> QED BY <3>2, <3>3, <4>4 DEF k
      <3>4. CASE l = 3
        <4>1. Segment(r, 3) = 0 /\ Segment(r, 4) = 0 /\ Segment(q, 3) = x /\ Segment(q, 4) = 0
              /\ Segment(q, 1) = a /\ Segment(q, 2) = b
          BY <2>5, <3>4
        <4>2. Value(q) = ((a * Rest + b) * Rest + x) * Rest + 0
          BY <4>1 DEF Value
        <4>3. Value(r) = ((a * Rest + b) * Rest + 0) * Rest + 0
          BY <4>1, <3>1
        <4> HIDE DEF a, b, c, k
        <4>4. Value(q) = Value(r) + x * Rest
          BY <2>2, <3>0, <4>2, <4>3
        <4>5. Value(q) * k = Value(r) * k + x * (Rest * k)
          BY <2>2, <3>0, <4>4
        <4> QED BY <3>2, <3>4, <4>5 DEF k
      <3>5. CASE l = 2
        <4>1. /\ Segment(r, 2) = 0 /\ Segment(r, 3) = 0 /\ Segment(r, 4) = 0
              /\ Segment(q, 2) = x /\ Segment(q, 3) = 0 /\ Segment(q, 4) = 0 /\ Segment(q, 1) = a
          BY <2>5, <3>5
        <4>2. Value(q) = ((a * Rest + x) * Rest + 0) * Rest + 0
          BY <4>1 DEF Value
        <4>3. Value(r) = ((a * Rest + 0) * Rest + 0) * Rest + 0
          BY <4>1, <3>1
        <4> HIDE DEF a, b, c, k
        <4>4. Value(q) = Value(r) + x * Rest * Rest
          BY <2>2, <3>0, <4>2, <4>3
        <4>5. Value(q) * k = Value(r) * k + x * (Rest * Rest * k)
          BY <2>2, <3>0, <4>4
        <4> QED BY <3>2, <3>5, <4>5 DEF k
      <3>6. CASE l = 1
        <4>1. /\ a = 0 /\ Segment(r, 2) = 0 /\ Segment(r, 3) = 0 /\ Segment(r, 4) = 0
              /\ Segment(q, 1) = x /\ Segment(q, 2) = 0 /\ Segment(q, 3) = 0 /\ Segment(q, 4) = 0
          BY <2>5, <3>6
        <4>2. Value(q) = ((x * Rest + 0) * Rest + 0) * Rest + 0
          BY <4>1 DEF Value
        <4>3. Value(r) = ((0 * Rest + 0) * Rest + 0) * Rest + 0
          BY <4>1, <3>1
        <4> HIDE DEF a, b, c, k
        <4>4. Value(r) = 0 /\ Value(q) = x * Rest * Rest * Rest
          BY <2>2, <4>2, <4>3
        <4>5. Value(q) * k = Value(r) * k + x * (Rest * Rest * Rest * k)
          BY <2>2, <3>0, <4>4
        <4> QED BY <3>2, <3>6, <4>5 DEF k
      <3> QED BY <2>3, <3>3, <3>4, <3>5, <3>6
    <2>7. v.repr + x * Shift(l) = (Value(q) * 16 + kind) * Suffix + n
      <3>1. (Value(r) * 16 + kind) * Suffix + n = Value(r) * (16 * Suffix) + (kind * Suffix + n)
        BY <2>2
      <3>2. (Value(q) * 16 + kind) * Suffix + n = Value(q) * (16 * Suffix) + (kind * Suffix + n)
        BY <2>2
      <3> DEFINE y == Value(r) * (16 * Suffix)
                 z == Value(q) * (16 * Suffix)
                 s == kind * Suffix + n
                 t == x * Shift(l)
      <3>3. y \in Int /\ z \in Int /\ s \in Int /\ t \in Int
        BY <2>2, <2>4
      <3>4. v.repr + t = (y + s) + t
        BY <1>1, <3>1
      <3>5. z = y + t
        BY <2>6
      <3> HIDE DEF y, z, s, t
      <3>6. (y + s) + t = z + s
        BY <3>3, <3>5
      <3> QED BY <3>2, <3>4, <3>6 DEF z, s, t
    <2>8. [v EXCEPT !.repr = @ + x * Shift(l), !.len = @ + 1] = Pack(q, kind, n)
      <3> DEFINE w == [v EXCEPT !.repr = @ + x * Shift(l), !.len = @ + 1]
                 y == v.repr + x * Shift(l)
      <3>1. y \in Int
        BY <1>1, <2>4 DEF SmallType
      <3>2. w = [v EXCEPT !.repr = y, !.len = l]
        BY <1>1 DEF SmallType
      <3>3. l \in Int
        BY <1>2
      <3> HIDE DEF y, v, l
      <3>4. w = [small |-> TRUE, repr |-> y, len |-> l]
        BY <1>1, <3>1, <3>2, <3>3, SmallExceptBoth
      <3> HIDE DEF w
      <3>5. y = (Value(q) * 16 + kind) * Suffix + n
        BY <2>7 DEF y
      <3>6. w = Pack(q, kind, n)
        BY <1>3, <3>4, <3>5 DEF Pack, l
      <3> QED BY <3>6 DEF w, v, l
    <2> QED BY <1>4, <1>6, <2>1, <2>8 DEF q
  <1> QED BY <1>5, <1>6

\* Without its release, a packed version is its suffix.
LEMMA PackClear ==
    ASSUME NEW r, Fits(r), NEW kind, NEW n, SuffixFits(kind, n)
    PROVE  clear_release(Pack(r, kind, n)) = Pack(<<>>, kind, n) /\ Fits(<<>>)
  <1> DEFINE v == Pack(r, kind, n)
             k == 16 * Suffix
             low == kind * Suffix + n
  <1>1. v \in SmallType /\ v.repr = (Value(r) * 16 + kind) * Suffix + n /\ v.small = TRUE
    <2>1. v.small = TRUE
      BY PackSuffix
    <2> QED BY <2>1, PackType
  <1>2. Value(r) \in Nat /\ kind \in Nat /\ kind < 16 /\ n \in Nat /\ n < Suffix /\ Suffix \in Nat \ {0}
    BY SMTT(60), SegmentType, Widths DEF SuffixFits
  <1>3. v.repr = Value(r) * k + low
    BY <1>1, <1>2
  <1>4. low \in Nat /\ low < k /\ k \in Nat \ {0}
    BY <1>2, Below
  <1>5. v.repr % k = low
    <2> HIDE DEF v, k, low
    <2>1. (Value(r) * k + low) % k = low
      BY <1>2, <1>4, DivMod
    <2> QED BY <1>3, <2>1
  <1>6. Value(<<>>) = 0 /\ Fits(<<>>)
    <2>1. Segment(<<>>, 1) = 0 /\ Segment(<<>>, 2) = 0 /\ Segment(<<>>, 3) = 0 /\ Segment(<<>>, 4) = 0
      BY DEF Segment
    <2>2. Value(<<>>) = ((0 * Rest + 0) * Rest + 0) * Rest + 0
      BY <2>1 DEF Value
    <2>3. Value(<<>>) = 0
      BY <2>2, Widths
    <2> QED BY <2>3 DEF Fits
  <1>7. clear_release(v) = [small |-> TRUE, repr |-> low, len |-> 0]
    <2> DEFINE w == [v EXCEPT !.repr = @ % (16 * Suffix), !.len = 0]
    <2>1. clear_release(v) = w
      BY <1>1 DEF clear_release
    <2>2. w = [v EXCEPT !.repr = low, !.len = 0]
      BY <1>1, <1>5 DEF SmallType
    <2> HIDE DEF v, k, low, w
    <2>3. [v EXCEPT !.repr = low, !.len = 0] = [small |-> TRUE, repr |-> low, len |-> 0]
      <3>1. low \in Int /\ 0 \in Int /\ v \in SmallType
        BY <1>1, <1>4
      <3> QED BY <3>1, SmallExceptBoth, Zenon
    <2> QED BY <2>1, <2>2, <2>3
  <1>8. low = (Value(<<>>) * 16 + kind) * Suffix + n
    BY <1>2, <1>6
  <1> QED BY <1>6, <1>7, <1>8 DEF Pack

\* A version with the release q in the place of its own.
Released(v, q) ==
    IF IsPacked(v) /\ Fits(q) THEN Pack(q, suffix_kind(v), suffix_version(v))
    ELSE [Parts(v) EXCEPT !.release = q]

LEMMA PackedSuffix ==
    ASSUME NEW v, IsPacked(v)
    PROVE  /\ SuffixFits(suffix_kind(v), suffix_version(v))
           /\ \E r : Fits(r) /\ v = Pack(r, suffix_kind(v), suffix_version(v))
           /\ v.small = TRUE
  <1>1. PICK r, kind, n : Fits(r) /\ SuffixFits(kind, n) /\ v = Pack(r, kind, n)
    BY DEF IsPacked
  <1>2. suffix_kind(v) = kind /\ suffix_version(v) = n /\ v.small = TRUE
    BY <1>1, PackSuffix
  <1> QED BY <1>1, <1>2

LEMMA ReleasedIs ==
    ASSUME NEW v, IsVersion(v), NEW q \in Seq(Nat)
    PROVE  IsVersion(Released(v, q)) /\ Parts(Released(v, q)) = [Parts(v) EXCEPT !.release = q]
  <1> DEFINE c == [Parts(v) EXCEPT !.release = q]
  <1>1. Parts(v) \in PartsType
    BY VersionParts
  <1>2. c \in PartsType /\ c.small = FALSE
    BY <1>1 DEF PartsType
  <1>3. CASE IsPacked(v) /\ Fits(q)
    <2> DEFINE k == suffix_kind(v)
               n == suffix_version(v)
    <2>1. PICK r : Fits(r) /\ v = Pack(r, k, n)
      BY <1>3, PackedSuffix
    <2>2. SuffixFits(k, n)
      BY <1>3, PackedSuffix
    <2> HIDE DEF k, n
    <2>3. Parts(v) = Unpacked(r, k, n)
      BY <2>1, <2>2, PackParts
    <2>4. Parts(Pack(q, k, n)) = Unpacked(q, k, n) /\ Unpacked(q, k, n) \in PartsType
      BY <1>3, <2>2, PackParts
    <2>5. Unpacked(q, k, n) = c
      <3> DEFINE d == Unpacked(q, k, n)
                 e == Unpacked(r, k, n)
      <3>1. /\ d.epoch = e.epoch /\ d.release = q /\ d.pre = e.pre /\ d.post = e.post
            /\ d.dev = e.dev /\ d.min = e.min /\ d.max = e.max /\ d.local = e.local
        BY DEF Unpacked
      <3>2. /\ c.epoch = e.epoch /\ c.release = q /\ c.pre = e.pre /\ c.post = e.post
            /\ c.dev = e.dev /\ c.min = e.min /\ c.max = e.max /\ c.local = e.local
        BY <1>1, <2>3 DEF PartsType
      <3>3. d \in PartsType /\ c \in PartsType
        BY <1>2, <2>4
      <3> HIDE DEF c, d, e
      <3> QED BY <3>1, <3>2, <3>3, PartsEqual DEF d
    <2>6. Released(v, q) = Pack(q, k, n)
      BY <1>3 DEF Released, k, n
    <2>7. IsPacked(Pack(q, k, n))
      BY <1>3, <2>2 DEF IsPacked
    <2> QED BY <2>4, <2>5, <2>6, <2>7 DEF IsVersion
  <1>4. CASE ~(IsPacked(v) /\ Fits(q))
    <2>1. Released(v, q) = c
      BY <1>4 DEF Released
    <2>2. Parts(c) = c
      BY <1>2 DEF Parts
    <2> QED BY <1>2, <2>1, <2>2 DEF IsVersion
  <1> QED BY <1>3, <1>4

\* `clear_release`.
LEMMA ReleasedClear ==
    ASSUME NEW v, IsVersion(v)
    PROVE  clear_release(v) = Released(v, <<>>)
  <1>1. CASE IsPacked(v)
    <2> DEFINE k == suffix_kind(v)
               n == suffix_version(v)
    <2>1. PICK r : Fits(r) /\ v = Pack(r, k, n)
      BY <1>1, PackedSuffix
    <2>2. SuffixFits(k, n)
      BY <1>1, PackedSuffix
    <2>3. Released(v, <<>>) = IF Fits(<<>>) THEN Pack(<<>>, k, n) ELSE [Parts(v) EXCEPT !.release = <<>>]
      BY <1>1 DEF Released
    <2> HIDE DEF k, n
    <2>4. clear_release(v) = Pack(<<>>, k, n) /\ Fits(<<>>)
      BY <2>1, <2>2, PackClear
    <2> QED BY <2>3, <2>4
  <1>2. CASE ~IsPacked(v)
    <2>1. v \in PartsType /\ v.small = FALSE
      BY <1>2, PartsFields DEF IsVersion
    <2> QED BY <1>2, <2>1 DEF clear_release, Released, Parts
  <1> QED BY <1>1, <1>2

\* `push_release`.
LEMMA ReleasedPush ==
    ASSUME NEW v, IsVersion(v), NEW q \in Seq(Nat), NEW x \in Nat
    PROVE  push_release(Released(v, q), x) = Released(v, Append(q, x))
  <1> DEFINE p == Append(q, x)
             u == Released(v, q)
  <1>1. IsVersion(u) /\ Parts(u) = [Parts(v) EXCEPT !.release = q] /\ Parts(v) \in PartsType
    BY ReleasedIs, VersionParts
  <1>2. [Parts(u) EXCEPT !.release = Append(@, x)] = [Parts(v) EXCEPT !.release = p]
    BY <1>1 DEF PartsType
  <1>3. push_release(u, x) = With(u, small_push_release(u, x), [Parts(v) EXCEPT !.release = p])
    BY <1>2 DEF push_release, make_full
  <1>4. CASE IsPacked(v) /\ Fits(q)
    <2> DEFINE k == suffix_kind(v)
               n == suffix_version(v)
    <2>1. SuffixFits(k, n)
      BY <1>4, PackedSuffix
    <2>2. u = Pack(q, k, n)
      BY <1>4 DEF Released
    <2>3. Released(v, p) = IF Fits(p) THEN Pack(p, k, n) ELSE [Parts(v) EXCEPT !.release = p]
      BY <1>4 DEF Released
    <2> HIDE DEF k, n, p, u
    <2>4. small_push_release(u, x) = IF Fits(p) THEN <<Pack(p, k, n)>> ELSE <<>>
      BY <1>4, <2>1, <2>2, PackPush DEF p
    <2>5. u.small = TRUE
      BY <1>4, <2>1, <2>2, PackSuffix
    <2>6. With(u, small_push_release(u, x), [Parts(v) EXCEPT !.release = p]) = Released(v, p)
      BY <2>3, <2>4, <2>5 DEF With
    <2> QED BY <1>3, <2>6 DEF p, u
  <1>5. CASE ~(IsPacked(v) /\ Fits(q))
    <2>1. u = [Parts(v) EXCEPT !.release = q]
      BY <1>5 DEF Released
    <2>2. u.small = FALSE
      BY <1>1, <2>1 DEF PartsType
    <2>3. ~(IsPacked(v) /\ Fits(p))
      <3> SUFFICES ASSUME IsPacked(v), Fits(p) PROVE Fits(q)
        BY <1>5
      <3>1. /\ p \in Seq(Nat) /\ Len(p) = Len(q) + 1 /\ Len(q) \in Nat
            /\ \A i \in 1..Len(q) : p[i] = q[i]
        BY AppendSegments
      <3> HIDE DEF p
      <3>2. \A i \in 1..Len(q) : q[i] < (IF i = 1 THEN First ELSE Rest)
        BY <3>1 DEF Fits
      <3> QED BY <3>1, <3>2 DEF Fits
    <2>4. Released(v, p) = [Parts(v) EXCEPT !.release = p]
      BY <2>3 DEF Released
    <2> HIDE DEF p, u
    <2>5. With(u, small_push_release(u, x), [Parts(v) EXCEPT !.release = p]) = [Parts(v) EXCEPT !.release = p]
      BY <2>2 DEF With
    <2> QED BY <1>3, <2>4, <2>5 DEF p, u
  <1> QED BY <1>4, <1>5

LEMMA Prefixes ==
    ASSUME NEW r \in Seq(Nat)
    PROVE  /\ SubSeq(r, 1, 0) = <<>> /\ SubSeq(r, 1, Len(r)) = r
           /\ \A i \in 0..Len(r) : SubSeq(r, 1, i) \in Seq(Nat)
           /\ \A i \in 1..Len(r) : SubSeq(r, 1, i) = Append(SubSeq(r, 1, i - 1), r[i]) /\ r[i] \in Nat
  <1>0. Len(r) \in Nat /\ \A i \in 1..Len(r) : r[i] \in Nat
    OBVIOUS
  <1>1. ASSUME NEW i \in 0..Len(r)
        PROVE  /\ SubSeq(r, 1, i) \in Seq(Nat) /\ Len(SubSeq(r, 1, i)) = i
               /\ \A j \in 1..i : SubSeq(r, 1, i)[j] = r[j]
    BY <1>0
  <1>2. SubSeq(r, 1, 0) = <<>>
    BY <1>0
  <1>3. SubSeq(r, 1, Len(r)) = r
    BY SubSeqFull
  <1>4. ASSUME NEW i \in 1..Len(r)
        PROVE  SubSeq(r, 1, i) = Append(SubSeq(r, 1, i - 1), r[i])
    <2> DEFINE s == SubSeq(r, 1, i)
               t == SubSeq(r, 1, i - 1)
    <2>1. i - 1 \in 0..Len(r) /\ i \in 0..Len(r) /\ r[i] \in Nat
      BY <1>0
    <2>2. /\ s \in Seq(Nat) /\ Len(s) = i /\ \A j \in 1..i : s[j] = r[j]
          /\ t \in Seq(Nat) /\ Len(t) = i - 1 /\ \A j \in 1..i - 1 : t[j] = r[j]
      BY <1>1, <2>1
    <2> HIDE DEF s, t
    <2>3. /\ Append(t, r[i]) \in Seq(Nat) /\ Len(Append(t, r[i])) = i
          /\ \A j \in 1..i - 1 : Append(t, r[i])[j] = r[j]
          /\ Append(t, r[i])[i] = r[i]
      BY <2>1, <2>2, AppendSegments
    <2>4. ASSUME NEW j \in 1..Len(s)
          PROVE  s[j] = Append(t, r[i])[j]
      <3>1. i \in Nat /\ j \in 1..i /\ s[j] = r[j]
        BY <1>0, <2>2
      <3>2. CASE j = i
        BY <2>3, <3>1, <3>2
      <3>3. CASE j # i
        <4>1. j \in 1..i - 1
          BY <3>1, <3>3
        <4> QED BY <2>3, <3>1, <4>1
      <3> QED BY <3>2, <3>3
    <2>5. s = Append(t, r[i])
      BY <2>2, <2>3, <2>4, SeqEqual
    <2> QED BY <2>5 DEF s, t
  <1> QED BY <1>0, <1>1, <1>2, <1>3, <1>4

\* `with_release`: the segments that are pushed one by one are the release.  The
\* recursion has a solution, and any solution agrees with it from the first
\* segment on.
LEMMA ReleasedAll ==
    ASSUME NEW v, IsVersion(v), NEW r \in Seq(Nat)
    PROVE  with_release(v, r) = Released(v, r)
  <1> DEFINE P == CHOOSE push : push = [i \in 0..Len(r) |->
                    IF i = 0 THEN clear_release(v) ELSE push_release(push[i - 1], r[i])]
             Q == [i \in 0..Len(r) |-> Released(v, SubSeq(r, 1, i))]
  <1>0. Len(r) \in Nat
    OBVIOUS
  <1>1. with_release(v, r) = P[Len(r)]
    BY DEF with_release
  <1>2. Q[0] = clear_release(v)
    <2>1. 0 \in 0..Len(r) /\ SubSeq(r, 1, 0) = <<>>
      BY <1>0, Prefixes
    <2>2. Q[0] = Released(v, SubSeq(r, 1, 0))
      BY <2>1
    <2>3. clear_release(v) = Released(v, <<>>)
      BY ReleasedClear
    <2> HIDE DEF Q
    <2> QED BY <2>1, <2>2, <2>3
  <1>3. ASSUME NEW i \in 1..Len(r)
        PROVE  Q[i] = push_release(Q[i - 1], r[i])
    <2>1. i - 1 \in 0..Len(r) /\ i \in 0..Len(r)
      BY <1>0
    <2>2. /\ SubSeq(r, 1, i - 1) \in Seq(Nat) /\ r[i] \in Nat
          /\ SubSeq(r, 1, i) = Append(SubSeq(r, 1, i - 1), r[i])
      BY <2>1, Prefixes
    <2>3. push_release(Released(v, SubSeq(r, 1, i - 1)), r[i]) = Released(v, SubSeq(r, 1, i))
      BY <2>2, ReleasedPush
    <2> QED BY <2>1, <2>3
  <1>4. Q = [i \in 0..Len(r) |-> IF i = 0 THEN clear_release(v) ELSE push_release(Q[i - 1], r[i])]
    <2>1. ASSUME NEW i \in 0..Len(r)
          PROVE  Q[i] = IF i = 0 THEN clear_release(v) ELSE push_release(Q[i - 1], r[i])
      <3>1. CASE i = 0
        BY <1>2, <3>1
      <3>2. CASE i # 0
        <4>1. i \in 1..Len(r)
          BY <1>0, <3>2
        <4> HIDE DEF Q
        <4> QED BY <1>3, <3>2, <4>1
      <3> QED BY <3>1, <3>2
    <2>2. Q = [i \in 0..Len(r) |-> Q[i]]
      OBVIOUS
    <2> HIDE DEF Q
    <2> QED BY <2>1, <2>2
  <1>5. P = [i \in 0..Len(r) |-> IF i = 0 THEN clear_release(v) ELSE push_release(P[i - 1], r[i])]
    <2> HIDE DEF Q
    <2> QED BY <1>4
  <1> HIDE DEF P, Q
  <1>6. \A i \in 0..Len(r) : P[i] = Q[i]
    <2> DEFINE S == {i \in 0..Len(r) : P[i] # Q[i]}
    <2> SUFFICES ASSUME S # {} PROVE FALSE
      OBVIOUS
    <2>1. S \in SUBSET Nat
      BY <1>0
    <2>2. PICK m \in S : \A k \in S : m <= k
      BY <2>1, Least
    <2>3. m # 0
      BY <1>2, <1>5, <2>2
    <2>4. m \in 1..Len(r) /\ m - 1 \in 0..Len(r)
      BY <1>0, <2>2, <2>3
    <2>5. P[m - 1] = Q[m - 1]
      BY <2>2, <2>4
    <2>6. P[m] = push_release(P[m - 1], r[m])
      BY SMTT(60), <1>0, <1>5, <2>4
    <2> QED BY <1>3, <2>2, <2>4, <2>5, <2>6
  <1>7. Q[Len(r)] = Released(v, r)
    <2>1. Len(r) \in 0..Len(r) /\ SubSeq(r, 1, Len(r)) = r
      BY <1>0, Prefixes
    <2>2. Q[Len(r)] = Released(v, SubSeq(r, 1, Len(r)))
      BY <2>1 DEF Q
    <2> QED BY <2>1, <2>2
  <1> QED BY <1>0, <1>1, <1>6, <1>7

LEMMA WithRelease ==
    ASSUME NEW v, IsVersion(v), NEW r \in Seq(Nat)
    PROVE  /\ IsVersion(with_release(v, r))
           /\ Parts(with_release(v, r)) = [Parts(v) EXCEPT !.release = r]
  BY ReleasedAll, ReleasedIs
-----------------------------------------------------------------------------
(* The order of PEP 440.                                                   *)

\* The parts that versions of the program have.  A sentinel has no other suffix
\* but the pre-release below the greatest.
PartsOK(c) ==
    /\ c \in PartsType /\ c.release # <<>>
    /\ c.pre # NoPre => c.pre \in (2..4) \X (0..Top - 1)
    /\ c.post < Top /\ c.dev < Top /\ c.local < Top
    /\ c.min # None => /\ c.pre = NoPre /\ c.post = None /\ c.dev = None
                       /\ c.max = None /\ c.local = NoLocal
    /\ c.max # None => c.post = None /\ c.dev = None /\ c.local = NoLocal

\* What PEP 440 compares after epoch and release.
PepTail(c) ==
    LET inf == 100 * Top IN
    <<IF c.min # None THEN -2
      ELSE IF c.pre # NoPre THEN c.pre[1] * Top + c.pre[2]
      ELSE IF c.post = None /\ c.max = None /\ c.dev # None THEN -1
      ELSE inf,
      IF c.max # None THEN inf ELSE c.post,
      IF c.dev = None THEN inf ELSE c.dev,
      IF c.local = LocalMax THEN inf ELSE c.local>>

LEMMA PartsOKFields ==
    ASSUME NEW c, PartsOK(c)
    PROVE  /\ c.small = FALSE /\ c.epoch \in Nat /\ c.release \in Seq(Nat) /\ c.release # <<>>
           /\ c.pre # NoPre => /\ c.pre[1] \in 2..4 /\ c.pre[2] \in Nat /\ c.pre[2] < Top
                               /\ c.pre = <<c.pre[1], c.pre[2]>>
           /\ c.post \in Nat \cup {None} /\ c.post < Top
           /\ c.dev \in Nat \cup {None} /\ c.dev < Top
           /\ c.min \in {None, 0} /\ c.max \in {None, 0}
           /\ c.local \in Nat \cup {LocalMax} /\ c.local < Top
  <1>1. c \in PartsType
    BY DEF PartsOK
  <1>2. c.pre # NoPre => /\ c.pre[1] \in 2..4 /\ c.pre[2] \in Nat /\ c.pre[2] < Top
                         /\ c.pre = <<c.pre[1], c.pre[2]>>
    <2> SUFFICES ASSUME c.pre # NoPre
                 PROVE  /\ c.pre[1] \in 2..4 /\ c.pre[2] \in Nat /\ c.pre[2] < Top
                        /\ c.pre = <<c.pre[1], c.pre[2]>>
      OBVIOUS
    <2>1. c.pre \in (2..4) \X (0..Top - 1)
      BY DEF PartsOK
    <2> QED BY <2>1, Widths
  <1> QED BY <1>1, <1>2, PartsFields DEF PartsOK

\* Short tuples.
LEMMA Lex1 ==
    ASSUME NEW a \in Int, NEW b \in Int
    PROVE  /\ <<a>> \in Seq(Int) /\ <<b>> \in Seq(Int) /\ Len(<<a>>) = Len(<<b>>)
           /\ Lexicographic(<<a>>, <<b>>) = Sign(a - b)
  <1>1. <<a>> \in Seq(Int) /\ <<b>> \in Seq(Int) /\ Len(<<a>>) = 1 /\ Len(<<b>>) = 1
        /\ <<a>>[1] = a /\ <<b>>[1] = b
    OBVIOUS
  <1>2. CASE a = b
    <2>1. Lexicographic(<<a>>, <<b>>) = 0
      BY <1>2 DEF Lexicographic
    <2> QED BY <1>1, <1>2, <2>1 DEF Sign
  <1>3. CASE a # b
    <2> DEFINE s == <<a>>
               t == <<b>>
    <2>1. 1 \in 1..Len(s) /\ s[1] # t[1] /\ \A j \in 1..Len(s) : j < 1 => s[j] = t[j]
      BY <1>1, <1>3
    <2>2. s \in Seq(Int) /\ t \in Seq(Int) /\ Len(s) = Len(t) /\ s[1] - t[1] = a - b
      BY <1>1
    <2> HIDE DEF s, t
    <2>3. Lexicographic(s, t) = Sign(s[1] - t[1])
      BY <2>1, <2>2, LexFirst
    <2> QED BY <1>1, <2>2, <2>3 DEF s, t
  <1> QED BY <1>1, <1>2, <1>3

LEMMA Lex4 ==
    ASSUME NEW s \in Seq(Int), NEW t \in Seq(Int), Len(s) = 4, Len(t) = 4
    PROVE  Lexicographic(s, t) =
             IF s[1] # t[1] THEN Sign(s[1] - t[1]) ELSE IF s[2] # t[2] THEN Sign(s[2] - t[2])
             ELSE IF s[3] # t[3] THEN Sign(s[3] - t[3]) ELSE Sign(s[4] - t[4])
  <1>0. s[4] \in Int /\ t[4] \in Int
    OBVIOUS
  <1>1. ASSUME NEW i \in 1..4, s[i] # t[i], \A j \in 1..4 : j < i => s[j] = t[j]
        PROVE  Lexicographic(s, t) = Sign(s[i] - t[i])
    BY <1>1, LexFirst
  <1>2. CASE s[1] # t[1]
    <2>1. 1 \in 1..4 /\ s[1] # t[1] /\ \A j \in 1..4 : j < 1 => s[j] = t[j]
      BY <1>2
    <2>2. Lexicographic(s, t) = Sign(s[1] - t[1])
      BY <1>1, <2>1
    <2> QED BY <1>2, <2>2
  <1>3. CASE s[1] = t[1] /\ s[2] # t[2]
    <2>1. 2 \in 1..4 /\ s[2] # t[2] /\ \A j \in 1..4 : j < 2 => s[j] = t[j]
      BY <1>3
    <2>2. Lexicographic(s, t) = Sign(s[2] - t[2])
      BY <1>1, <2>1
    <2> QED BY <1>3, <2>2
  <1>4. CASE s[1] = t[1] /\ s[2] = t[2] /\ s[3] # t[3]
    <2>1. 3 \in 1..4 /\ s[3] # t[3] /\ \A j \in 1..4 : j < 3 => s[j] = t[j]
      BY <1>4
    <2>2. Lexicographic(s, t) = Sign(s[3] - t[3])
      BY <1>1, <2>1
    <2> QED BY <1>4, <2>2
  <1>5. CASE s[1] = t[1] /\ s[2] = t[2] /\ s[3] = t[3] /\ s[4] # t[4]
    <2>1. 4 \in 1..4 /\ s[4] # t[4] /\ \A j \in 1..4 : j < 4 => s[j] = t[j]
      BY <1>5
    <2>2. Lexicographic(s, t) = Sign(s[4] - t[4])
      BY <1>1, <2>1
    <2> QED BY <1>5, <2>2
  <1>6. CASE s[1] = t[1] /\ s[2] = t[2] /\ s[3] = t[3] /\ s[4] = t[4]
    <2>1. Len(s) = Len(t) /\ \A i \in 1..Len(s) : s[i] = t[i]
      BY <1>6
    <2>2. s = t
      BY <2>1, SeqEqual
    <2>3. Lexicographic(s, t) = 0
      BY <2>2, LexZero
    <2> QED BY <1>0, <1>6, <2>3 DEF Sign
  <1> QED BY <1>2, <1>3, <1>4, <1>5, <1>6

LEMMA Lex5 ==
    ASSUME NEW s \in Seq(Int), NEW t \in Seq(Int), Len(s) = 5, Len(t) = 5
    PROVE  Lexicographic(s, t) =
             IF s[1] # t[1] THEN Sign(s[1] - t[1]) ELSE IF s[2] # t[2] THEN Sign(s[2] - t[2])
             ELSE IF s[3] # t[3] THEN Sign(s[3] - t[3]) ELSE IF s[4] # t[4] THEN Sign(s[4] - t[4])
             ELSE Sign(s[5] - t[5])
  <1>0. s[5] \in Int /\ t[5] \in Int
    <2>1. 5 \in 1..Len(s) /\ 5 \in 1..Len(t)
      OBVIOUS
    <2> QED BY <2>1, ElementOfSeq
  <1>1. ASSUME NEW i \in 1..5, s[i] # t[i], \A j \in 1..5 : j < i => s[j] = t[j]
        PROVE  Lexicographic(s, t) = Sign(s[i] - t[i])
    BY <1>1, LexFirst
  <1>2. CASE s[1] # t[1]
    <2>1. 1 \in 1..5 /\ s[1] # t[1] /\ \A j \in 1..5 : j < 1 => s[j] = t[j]
      BY <1>2
    <2>2. Lexicographic(s, t) = Sign(s[1] - t[1])
      BY <1>1, <2>1
    <2> QED BY <1>2, <2>2
  <1>3. CASE s[1] = t[1] /\ s[2] # t[2]
    <2>1. 2 \in 1..5 /\ s[2] # t[2] /\ \A j \in 1..5 : j < 2 => s[j] = t[j]
      BY <1>3
    <2>2. Lexicographic(s, t) = Sign(s[2] - t[2])
      BY <1>1, <2>1
    <2> QED BY <1>3, <2>2
  <1>4. CASE s[1] = t[1] /\ s[2] = t[2] /\ s[3] # t[3]
    <2>1. 3 \in 1..5 /\ s[3] # t[3] /\ \A j \in 1..5 : j < 3 => s[j] = t[j]
      BY <1>4
    <2>2. Lexicographic(s, t) = Sign(s[3] - t[3])
      BY <1>1, <2>1
    <2> QED BY <1>4, <2>2
  <1>5. CASE s[1] = t[1] /\ s[2] = t[2] /\ s[3] = t[3] /\ s[4] # t[4]
    <2>1. 4 \in 1..5 /\ s[4] # t[4] /\ \A j \in 1..5 : j < 4 => s[j] = t[j]
      BY <1>5
    <2>2. Lexicographic(s, t) = Sign(s[4] - t[4])
      BY <1>1, <2>1
    <2> QED BY <1>5, <2>2
  <1>6. CASE s[1] = t[1] /\ s[2] = t[2] /\ s[3] = t[3] /\ s[4] = t[4] /\ s[5] # t[5]
    <2>1. 5 \in 1..5 /\ s[5] # t[5] /\ \A j \in 1..5 : j < 5 => s[j] = t[j]
      BY <1>6
    <2>2. Lexicographic(s, t) = Sign(s[5] - t[5])
      BY <1>1, <2>1
    <2> QED BY <1>6, <2>2
  <1>7. CASE s[1] = t[1] /\ s[2] = t[2] /\ s[3] = t[3] /\ s[4] = t[4] /\ s[5] = t[5]
    <2>1. Len(s) = Len(t) /\ \A i \in 1..Len(s) : s[i] = t[i]
      BY <1>7
    <2>2. s = t
      BY <2>1, SeqEqual
    <2>3. Lexicographic(s, t) = 0
      BY <2>2, LexZero
    <2> QED BY <1>0, <1>7, <2>3 DEF Sign
  <1> QED BY <1>2, <1>3, <1>4, <1>5, <1>6, <1>7

\* Padding keeps the segments and adds zeros.
LEMMA PaddedIs ==
    ASSUME NEW r \in Seq(Nat), NEW n \in Nat
    PROVE  /\ Padded(r, n) \in Seq(Int) /\ Len(Padded(r, n)) = n /\ Len(r) \in Nat
           /\ \A i \in 1..n : Padded(r, n)[i] = Segment(r, i)
           /\ \A i \in Nat \ {0} : Segment(r, i) \in Nat
  <1>1. Len(r) \in Nat /\ \A i \in 1..Len(r) : r[i] \in Nat
    OBVIOUS
  <1>2. \A i \in Nat \ {0} : Segment(r, i) \in Nat
    BY <1>1 DEF Segment
  <1>3. Padded(r, n) = [i \in 1..n |-> Segment(r, i)]
    BY DEF Padded, Segment
  <1>4. \A i \in 1..n : Segment(r, i) \in Int
    BY <1>2
  <1>5. Padded(r, n) \in Seq(Int)
    BY <1>3, <1>4
  <1>6. Len(Padded(r, n)) = n
    BY <1>3, <1>4
  <1> QED BY <1>1, <1>2, <1>3, <1>5, <1>6

LEMMA LongerIs ==
    ASSUME NEW r \in Seq(Nat), NEW q \in Seq(Nat)
    PROVE  Longer(r, q) \in Nat /\ Len(r) <= Longer(r, q) /\ Len(q) <= Longer(r, q)
  <1>1. Len(r) \in Nat /\ Len(q) \in Nat
    OBVIOUS
  <1> QED BY <1>1 DEF Longer

LEMMA TailType ==
    ASSUME NEW c, PartsOK(c)
    PROVE  PepTail(c) \in Seq(Int) /\ Len(PepTail(c)) = 4
  <1>1. Top \in Nat
    BY Widths
  <1> DEFINE a1 == IF c.min # None THEN -2
                   ELSE IF c.pre # NoPre THEN c.pre[1] * Top + c.pre[2]
                   ELSE IF c.post = None /\ c.max = None /\ c.dev # None THEN -1
                   ELSE 100 * Top
             a2 == IF c.max # None THEN 100 * Top ELSE c.post
             a3 == IF c.dev = None THEN 100 * Top ELSE c.dev
             a4 == IF c.local = LocalMax THEN 100 * Top ELSE c.local
  <1>f. /\ c.pre # NoPre => c.pre[1] \in 2..4 /\ c.pre[2] \in Nat
        /\ c.post \in Nat \cup {None} /\ c.dev \in Nat \cup {None}
        /\ c.local \in Nat \cup {LocalMax}
    BY PartsOKFields
  <1>2. c.pre # NoPre => c.pre[1] * Top + c.pre[2] \in Int
    BY <1>1, <1>f
  <1>3. a1 \in Int /\ a2 \in Int /\ a3 \in Int /\ a4 \in Int
    BY <1>1, <1>2, <1>f DEF None, LocalMax
  <1>4. PepTail(c) = <<a1, a2, a3, a4>>
    BY DEF PepTail
  <1> HIDE DEF a1, a2, a3, a4
  <1> QED BY <1>3, <1>4

\* The key of PEP 440 compares by epoch, release and the rest.
LEMMA KeyCompare ==
    ASSUME NEW c, PartsOK(c), NEW d, PartsOK(d), NEW n \in Nat
    PROVE  /\ Lexicographic(PepKey(c, n), PepKey(d, n)) =
                IF c.epoch # d.epoch THEN Sign(c.epoch - d.epoch)
                ELSE IF Padded(c.release, n) # Padded(d.release, n)
                  THEN Lexicographic(Padded(c.release, n), Padded(d.release, n))
                  ELSE Lexicographic(PepTail(c), PepTail(d))
           /\ Lexicographic(PepTail(c), PepTail(d)) = 0 <=> PepTail(c) = PepTail(d)
           /\ Lexicographic(Padded(c.release, n), Padded(d.release, n)) = 0
                <=> Padded(c.release, n) = Padded(d.release, n)
  <1> DEFINE e == <<c.epoch>>
             f == <<d.epoch>>
             p == Padded(c.release, n)
             q == Padded(d.release, n)
             s == PepTail(c)
             t == PepTail(d)
  <1>1. /\ c.epoch \in Int /\ d.epoch \in Int
        /\ c.release \in Seq(Nat) /\ d.release \in Seq(Nat)
    <2>1. /\ c.epoch \in Nat /\ d.epoch \in Nat
          /\ c.release \in Seq(Nat) /\ d.release \in Seq(Nat)
      BY PartsOKFields
    <2> QED BY <2>1
  <1>2. /\ e \in Seq(Int) /\ f \in Seq(Int) /\ Len(e) = Len(f)
        /\ Lexicographic(e, f) = Sign(c.epoch - d.epoch)
    BY <1>1, Lex1
  <1>3. p \in Seq(Int) /\ q \in Seq(Int) /\ Len(p) = Len(q)
    BY <1>1, PaddedIs
  <1>4. s \in Seq(Int) /\ t \in Seq(Int) /\ Len(s) = Len(t)
    BY TailType
  <1>5. PepKey(c, n) = e \o p \o s /\ PepKey(d, n) = f \o q \o t
    BY DEF PepKey, PepTail
  <1>6. e = f <=> c.epoch = d.epoch
    BY <1>1
  <1> HIDE DEF e, f, p, q, s, t
  <1>7. /\ e \o p \in Seq(Int) /\ f \o q \in Seq(Int)
        /\ Len(e \o p) = Len(e) + Len(p) /\ Len(f \o q) = Len(f) + Len(q)
    BY <1>2, <1>3, ConcatProperties
  <1>8. Lexicographic(e \o p, f \o q) = IF e # f THEN Lexicographic(e, f) ELSE Lexicographic(p, q)
    BY <1>2, <1>3, LexConcat
  <1>9. Lexicographic((e \o p) \o s, (f \o q) \o t) =
          IF e \o p # f \o q THEN Lexicographic(e \o p, f \o q) ELSE Lexicographic(s, t)
    <2>1. Len(e \o p) = Len(f \o q)
      BY <1>2, <1>3, <1>7
    <2>2. \A x, y \in Seq(Int) : Len(x) = Len(y) =>
            Lexicographic(x \o s, y \o t) =
              IF x # y THEN Lexicographic(x, y) ELSE Lexicographic(s, t)
      BY <1>4, LexConcat
    <2> QED BY <1>7, <2>1, <2>2
  <1>10. Lexicographic(e \o p, f \o q) = 0 <=> e \o p = f \o q
    <2>1. Len(e \o p) = Len(f \o q)
      BY <1>2, <1>3, <1>7
    <2> QED BY <1>7, <2>1, LexZero
  <1>11. /\ Lexicographic(e, f) = 0 <=> e = f
         /\ Lexicographic(p, q) = 0 <=> p = q
         /\ Lexicographic(s, t) = 0 <=> s = t
    BY <1>2, <1>3, <1>4, LexZero
  <1>12. Lexicographic((e \o p) \o s, (f \o q) \o t) =
           IF e # f THEN Lexicographic(e, f)
           ELSE IF p # q THEN Lexicographic(p, q) ELSE Lexicographic(s, t)
    BY <1>8, <1>9, <1>10, <1>11
  <1> QED BY <1>2, <1>5, <1>6, <1>11, <1>12 DEF p, q, s, t

\* A public version: one that is no sentinel.
Public(d) == PartsOK(d) /\ d.min = None /\ d.max = None /\ d.local # LocalMax

\* `sortable_tuple` compares as PEP 440 does.
LEMMA TupleCompare ==
    ASSUME NEW c, PartsOK(c), NEW d, Public(d)
    PROVE  Lexicographic(sortable_tuple(c), sortable_tuple(d)) =
             Lexicographic(PepTail(c), PepTail(d))
  <1> DEFINE inf == 100 * Top
             Post(x) == IF x.max # None THEN Top ELSE x.post
             Dev(x) == IF x.dev = None THEN Top ELSE x.dev
             T1(x) == IF x.min # None THEN 0 ELSE IF x.pre # NoPre THEN x.pre[1]
                      ELSE IF Post(x) # None THEN 6 ELSE IF x.dev # None THEN 1 ELSE 5
             T2(x) == IF x.min # None THEN 0 ELSE IF x.pre # NoPre THEN x.pre[2] ELSE 0
             T3(x) == IF x.min # None THEN Post(x) ELSE IF x.pre # NoPre THEN Post(x)
                      ELSE IF Post(x) # None THEN Post(x) ELSE None
             T4(x) == IF x.min # None THEN x.min ELSE IF x.pre # NoPre THEN Dev(x)
                      ELSE IF Post(x) # None THEN Dev(x) ELSE IF x.dev # None THEN x.dev ELSE 0
             T5(x) == IF x.local = LocalMax THEN Top ELSE x.local
             P1(x) == IF x.min # None THEN -2
                      ELSE IF x.pre # NoPre THEN x.pre[1] * Top + x.pre[2]
                      ELSE IF x.post = None /\ x.max = None /\ x.dev # None THEN -1
                      ELSE inf
             P2(x) == IF x.max # None THEN inf ELSE x.post
             P3(x) == IF x.dev = None THEN inf ELSE x.dev
             P4(x) == IF x.local = LocalMax THEN inf ELSE x.local
             Compare4(x, y) ==
               IF x[1] # y[1] THEN Sign(x[1] - y[1]) ELSE IF x[2] # y[2] THEN Sign(x[2] - y[2])
               ELSE IF x[3] # y[3] THEN Sign(x[3] - y[3]) ELSE Sign(x[4] - y[4])
             Compare5(x, y) ==
               IF x[1] # y[1] THEN Sign(x[1] - y[1]) ELSE IF x[2] # y[2] THEN Sign(x[2] - y[2])
               ELSE IF x[3] # y[3] THEN Sign(x[3] - y[3]) ELSE IF x[4] # y[4] THEN Sign(x[4] - y[4])
               ELSE Sign(x[5] - y[5])
  <1>0. Top \in Nat /\ Top >= 1
    BY Widths
  <1>1. ASSUME NEW x, PartsOK(x)
        PROVE  /\ sortable_tuple(x) = <<T1(x), T2(x), T3(x), T4(x), T5(x)>>
               /\ PepTail(x) = <<P1(x), P2(x), P3(x), P4(x)>>
               /\ T1(x) \in Int /\ T2(x) \in Int /\ T3(x) \in Int /\ T4(x) \in Int /\ T5(x) \in Int
               /\ P1(x) \in Int /\ P2(x) \in Int /\ P3(x) \in Int /\ P4(x) \in Int
    <2>f. /\ x.pre # NoPre => x.pre[1] \in 2..4 /\ x.pre[2] \in Nat
          /\ x.post \in Nat \cup {None} /\ x.dev \in Nat \cup {None}
          /\ x.min \in {None, 0} /\ x.max \in {None, 0}
          /\ x.local \in Nat \cup {LocalMax}
      BY <1>1, PartsOKFields
    <2>1. x.pre # NoPre => x.pre[1] * Top + x.pre[2] \in Int
      BY <1>0, <2>f
    <2>2. /\ T1(x) \in Int /\ T2(x) \in Int /\ T3(x) \in Int /\ T4(x) \in Int /\ T5(x) \in Int
      BY <1>0, <2>f DEF None, LocalMax
    <2>3. /\ P1(x) \in Int /\ P2(x) \in Int /\ P3(x) \in Int /\ P4(x) \in Int
      BY <1>0, <2>f, <2>1 DEF None, LocalMax
    <2>4. sortable_tuple(x) = <<T1(x), T2(x), T3(x), T4(x), T5(x)>>
      BY DEF sortable_tuple, LocalRank
    <2>5. PepTail(x) = <<P1(x), P2(x), P3(x), P4(x)>>
      BY DEF PepTail
    <2> QED BY <2>2, <2>3, <2>4, <2>5
  <1>2. /\ PartsOK(d) /\ d.min = None /\ d.max = None /\ d.local # LocalMax
    BY DEF Public
  <1>3. Lexicographic(sortable_tuple(c), sortable_tuple(d)) =
             IF T1(c) # T1(d) THEN Sign(T1(c) - T1(d)) ELSE IF T2(c) # T2(d) THEN Sign(T2(c) - T2(d))
             ELSE IF T3(c) # T3(d) THEN Sign(T3(c) - T3(d)) ELSE IF T4(c) # T4(d) THEN Sign(T4(c) - T4(d))
             ELSE Sign(T5(c) - T5(d))
    <2> HIDE DEF T1, T2, T3, T4, T5, P1, P2, P3, P4
    <2>1. /\ T1(c) \in Int /\ T2(c) \in Int /\ T3(c) \in Int /\ T4(c) \in Int /\ T5(c) \in Int
          /\ T1(d) \in Int /\ T2(d) \in Int /\ T3(d) \in Int /\ T4(d) \in Int /\ T5(d) \in Int
      BY <1>1, <1>2
    <2>2. /\ sortable_tuple(c) = <<T1(c), T2(c), T3(c), T4(c), T5(c)>>
          /\ sortable_tuple(d) = <<T1(d), T2(d), T3(d), T4(d), T5(d)>>
      BY <1>1, <1>2
    <2>3. /\ sortable_tuple(c) \in Seq(Int) /\ Len(sortable_tuple(c)) = 5
          /\ sortable_tuple(d) \in Seq(Int) /\ Len(sortable_tuple(d)) = 5
      BY <2>1, <2>2
    <2>4. Lexicographic(sortable_tuple(c), sortable_tuple(d)) = Compare5(sortable_tuple(c), sortable_tuple(d))
      BY <2>3, Lex5
    <2> QED BY <2>2, <2>4
  <1>4. Lexicographic(PepTail(c), PepTail(d)) =
             IF P1(c) # P1(d) THEN Sign(P1(c) - P1(d)) ELSE IF P2(c) # P2(d) THEN Sign(P2(c) - P2(d))
             ELSE IF P3(c) # P3(d) THEN Sign(P3(c) - P3(d)) ELSE Sign(P4(c) - P4(d))
    <2> HIDE DEF T1, T2, T3, T4, T5, P1, P2, P3, P4
    <2>1. /\ P1(c) \in Int /\ P2(c) \in Int /\ P3(c) \in Int /\ P4(c) \in Int
          /\ P1(d) \in Int /\ P2(d) \in Int /\ P3(d) \in Int /\ P4(d) \in Int
      BY <1>1, <1>2
    <2>2. /\ PepTail(c) = <<P1(c), P2(c), P3(c), P4(c)>>
          /\ PepTail(d) = <<P1(d), P2(d), P3(d), P4(d)>>
      BY <1>1, <1>2
    <2>3. /\ PepTail(c) \in Seq(Int) /\ Len(PepTail(c)) = 4
          /\ PepTail(d) \in Seq(Int) /\ Len(PepTail(d)) = 4
      BY <2>1, <2>2
    <2>4. Lexicographic(PepTail(c), PepTail(d)) = Compare4(PepTail(c), PepTail(d))
      BY <2>3, Lex4
    <2> QED BY <2>2, <2>4
  <1>c. /\ c.pre # NoPre => c.pre[1] \in 2..4 /\ c.pre[2] \in Nat /\ c.pre[2] < Top
        /\ c.post \in Nat \cup {None} /\ c.post < Top
        /\ c.dev \in Nat \cup {None} /\ c.dev < Top
        /\ c.min \in {None, 0} /\ c.max \in {None, 0}
        /\ c.local \in Nat \cup {LocalMax} /\ c.local < Top
        /\ c.min # None => /\ c.pre = NoPre /\ c.post = None /\ c.dev = None
                           /\ c.max = None /\ c.local = NoLocal
        /\ c.max # None => c.post = None /\ c.dev = None /\ c.local = NoLocal
    BY PartsOKFields DEF PartsOK
  <1>d. /\ d.pre # NoPre => d.pre[1] \in 2..4 /\ d.pre[2] \in Nat /\ d.pre[2] < Top
        /\ d.post \in Nat \cup {None} /\ d.post < Top
        /\ d.dev \in Nat \cup {None} /\ d.dev < Top
        /\ d.local \in Nat /\ d.local < Top
    BY <1>2, PartsOKFields
  <1>5. ASSUME c.pre # NoPre, d.pre # NoPre
        PROVE  Sign((c.pre[1] * Top + c.pre[2]) - (d.pre[1] * Top + d.pre[2])) =
                 IF c.pre[1] # d.pre[1] THEN Sign(c.pre[1] - d.pre[1]) ELSE Sign(c.pre[2] - d.pre[2])
    <2> DEFINE a == c.pre[1]
               b == c.pre[2]
               e == d.pre[1]
               f == d.pre[2]
    <2>0. /\ a \in {2, 3, 4} /\ b \in Nat /\ b < Top /\ e \in {2, 3, 4} /\ f \in Nat /\ f < Top
          /\ Top \in Nat \ {0}
      BY <1>0, <1>5, <1>c, <1>d
    <2> HIDE DEF a, b, e, f
    <2>2. Sign((a * Top + b) - (e * Top + f)) = IF a # e THEN Sign(a - e) ELSE Sign(b - f)
      <3>1. CASE a = 2
        BY <2>0, <3>1 DEF Sign
      <3>2. CASE a = 3
        BY <2>0, <3>2 DEF Sign
      <3>3. CASE a = 4
        BY <2>0, <3>3 DEF Sign
      <3> QED BY <2>0, <3>1, <3>2, <3>3
    <2> QED BY <2>2 DEF a, b, e, f
  <1>6. /\ c.pre # NoPre => /\ c.pre[1] * Top + c.pre[2] \in Nat
                            /\ c.pre[1] * Top + c.pre[2] < inf
        /\ d.pre # NoPre => /\ d.pre[1] * Top + d.pre[2] \in Nat
                            /\ d.pre[1] * Top + d.pre[2] < inf
    <2>1. ASSUME NEW a \in 2..4, NEW b \in Nat, b < Top
          PROVE  a * Top + b \in Nat /\ a * Top + b < 100 * Top
      <3>1. a * Top + b < 100 * Top
        BY <1>0, <2>1
      <3> QED BY <1>0, <2>1, <3>1
    <2> QED BY <2>1, <1>c, <1>d
  <1>7. CASE c.min # None
    BY <1>0, <1>2, <1>3, <1>4, <1>c, <1>d, <1>6, <1>7 DEF Sign, None, NoLocal, LocalMax
  <1>8. CASE c.min = None /\ c.pre # NoPre /\ d.pre # NoPre
    BY <1>0, <1>2, <1>3, <1>4, <1>c, <1>d, <1>5, <1>6, <1>8 DEF Sign, None, NoLocal, LocalMax
  <1>9. CASE c.min = None /\ c.pre # NoPre /\ d.pre = NoPre
    BY <1>0, <1>2, <1>3, <1>4, <1>c, <1>d, <1>6, <1>9 DEF Sign, None, NoLocal, LocalMax
  <1>10. CASE c.min = None /\ c.pre = NoPre /\ d.pre # NoPre
    BY <1>0, <1>2, <1>3, <1>4, <1>c, <1>d, <1>6, <1>10 DEF Sign, None, NoLocal, LocalMax
  <1>11. CASE c.min = None /\ c.pre = NoPre /\ d.pre = NoPre
    BY <1>0, <1>2, <1>3, <1>4, <1>c, <1>d, <1>11 DEF Sign, None, NoLocal, LocalMax
  <1> QED BY <1>7, <1>8, <1>9, <1>10, <1>11

\* `cmp_slow` compares as PEP 440 does.
LEMMA SlowCompare ==
    ASSUME NEW c, PartsOK(c), NEW d, Public(d)
    PROVE  LET n == Longer(c.release, d.release) IN
           cmp_slow(c, d) = Lexicographic(PepKey(c, n), PepKey(d, n))
  <1> DEFINE n == Longer(c.release, d.release)
  <1>1. PartsOK(d)
    BY DEF Public
  <1>2. c.release \in Seq(Nat) /\ d.release \in Seq(Nat)
    BY <1>1, PartsOKFields
  <1>3. n \in Nat
    BY <1>2, LongerIs
  <1>4. compare_release(c.release, d.release) =
          Lexicographic(Padded(c.release, n), Padded(d.release, n))
    BY DEF compare_release
  <1> HIDE DEF n
  <1>5. /\ Lexicographic(PepKey(c, n), PepKey(d, n)) =
             IF c.epoch # d.epoch THEN Sign(c.epoch - d.epoch)
             ELSE IF Padded(c.release, n) # Padded(d.release, n)
               THEN Lexicographic(Padded(c.release, n), Padded(d.release, n))
               ELSE Lexicographic(PepTail(c), PepTail(d))
        /\ Lexicographic(Padded(c.release, n), Padded(d.release, n)) = 0
             <=> Padded(c.release, n) = Padded(d.release, n)
    BY <1>1, <1>3, KeyCompare
  <1>6. Lexicographic(sortable_tuple(c), sortable_tuple(d)) = Lexicographic(PepTail(c), PepTail(d))
    BY TupleCompare
  <1>7. cmp_slow(c, d) = Lexicographic(PepKey(c, n), PepKey(d, n))
    BY <1>4, <1>5, <1>6 DEF cmp_slow
  <1> QED BY <1>7 DEF n

\* Releases that fit compare as their places in the integer do.
LEMMA ValueCompare ==
    ASSUME NEW r, Fits(r), NEW q, Fits(q)
    PROVE  LET n == Longer(r, q) IN
           Sign(Value(r) - Value(q)) = Lexicographic(Padded(r, n), Padded(q, n))
  <1> DEFINE n == Longer(r, q)
             s == <<Segment(r, 1), Segment(r, 2), Segment(r, 3), Segment(r, 4)>>
             t == <<Segment(q, 1), Segment(q, 2), Segment(q, 3), Segment(q, 4)>>
             x == Padded(r, n)
             y == Padded(q, n)
  <1>1. /\ r \in Seq(Nat) /\ q \in Seq(Nat) /\ Len(r) \in Nat /\ Len(q) \in Nat
        /\ Len(r) <= 4 /\ Len(q) <= 4
    BY DEF Fits
  <1>2. n \in Nat /\ Len(r) <= n /\ Len(q) <= n /\ n <= 4
    <2>1. n \in Nat /\ Len(r) <= n /\ Len(q) <= n
      BY <1>1, LongerIs
    <2>2. n <= 4
      BY <1>1 DEF Longer
    <2> QED BY <2>1, <2>2
  <1>3. /\ Segment(r, 1) \in Nat /\ Segment(r, 2) \in Nat /\ Segment(r, 3) \in Nat
        /\ Segment(r, 4) \in Nat /\ Segment(q, 1) \in Nat /\ Segment(q, 2) \in Nat
        /\ Segment(q, 3) \in Nat /\ Segment(q, 4) \in Nat
        /\ Segment(r, 2) < Rest /\ Segment(r, 3) < Rest /\ Segment(r, 4) < Rest
        /\ Segment(q, 2) < Rest /\ Segment(q, 3) < Rest /\ Segment(q, 4) < Rest
        /\ Rest \in Nat \ {0}
    BY SMTT(60), SegmentType, Widths
  <1>4. /\ s \in Seq(Int) /\ t \in Seq(Int) /\ Len(s) = 4 /\ Len(t) = 4
        /\ s[1] = Segment(r, 1) /\ s[2] = Segment(r, 2) /\ s[3] = Segment(r, 3) /\ s[4] = Segment(r, 4)
        /\ t[1] = Segment(q, 1) /\ t[2] = Segment(q, 2) /\ t[3] = Segment(q, 3) /\ t[4] = Segment(q, 4)
    BY <1>3
  <1>5. \A i \in 1..4 : s[i] = Segment(r, i) /\ t[i] = Segment(q, i)
    BY <1>4
  <1>6. /\ x \in Seq(Int) /\ y \in Seq(Int) /\ Len(x) = n /\ Len(y) = n
        /\ \A i \in 1..n : x[i] = Segment(r, i) /\ y[i] = Segment(q, i)
    BY <1>1, <1>2, PaddedIs
  <1>7. ASSUME NEW i \in 1..4, i > n
        PROVE  Segment(r, i) = 0 /\ Segment(q, i) = 0
    BY <1>1, <1>2, <1>7 DEF Segment
  <1> HIDE DEF n, s, t, x, y
  <1>8. Lexicographic(x, y) = Lexicographic(s, t)
    <2>1. CASE s = t
      <3>1. \A i \in 1..n : x[i] = y[i]
        <4> TAKE i \in 1..n
        <4>1. i \in 1..4
          BY <1>2
        <4> QED BY <1>5, <1>6, <2>1, <4>1
      <3>2. x = y
        BY <1>6, <3>1, SeqEqual
      <3>3. Lexicographic(x, y) = 0
        BY <1>6, <3>2, LexZero
      <3>4. Lexicographic(s, t) = 0
        BY <1>4, <2>1, LexZero
      <3> QED BY <3>3, <3>4
    <2>2. CASE s # t
      <3>0. Len(s) = Len(t) /\ 1..Len(s) = 1..4
        BY <1>4
      <3>1. PICK i \in 1..4 : s[i] # t[i] /\ \A j \in 1..4 : j < i => s[j] = t[j]
        <4>1. \E i \in 1..Len(s) : s[i] # t[i] /\ \A j \in 1..Len(s) : j < i => s[j] = t[j]
          BY <1>4, <2>2, <3>0, FirstPlace
        <4> QED BY <3>0, <4>1
      <3>2. Lexicographic(s, t) = Sign(s[i] - t[i])
        BY <1>4, <3>1, LexFirst
      <3>3. i \in 1..n
        BY <1>2, <1>5, <1>7, <3>1
      <3>4. \A j \in 1..n : j \in 1..4
        BY <1>2
      <3>5. x[i] # y[i] /\ \A j \in 1..n : j < i => x[j] = y[j]
        BY <1>5, <1>6, <3>1, <3>3, <3>4
      <3>6. Lexicographic(x, y) = Sign(x[i] - y[i])
        BY <1>6, <3>3, <3>5, LexFirst
      <3> QED BY <1>5, <1>6, <3>2, <3>3, <3>6
    <2> QED BY <2>1, <2>2
  <1> DEFINE a == Segment(r, 1)
             b == Segment(r, 2)
             c == Segment(r, 3)
             d == Segment(r, 4)
             aa == Segment(q, 1)
             bb == Segment(q, 2)
             cc == Segment(q, 3)
             dd == Segment(q, 4)
             x2 == a * Rest + b
             y2 == aa * Rest + bb
             x3 == x2 * Rest + c
             y3 == y2 * Rest + cc
  <1>9. Sign(x2 - y2) = Then(Sign(a - aa), Sign(b - bb)) /\ x2 \in Nat /\ y2 \in Nat
    <2> HIDE DEF a, b, aa, bb
    <2>1. a \in Nat /\ b \in Nat /\ b < Rest /\ aa \in Nat /\ bb \in Nat /\ bb < Rest /\ Rest \in Nat \ {0}
      BY <1>3 DEF a, b, aa, bb
    <2>2. Sign(x2 - y2) = Then(Sign(a - aa), Sign(b - bb))
      <3>1. Placed(x2, a, b, Rest) /\ Placed(y2, aa, bb, Rest)
        BY <2>1 DEF Placed
      <3> HIDE DEF x2, y2
      <3> QED BY <3>1, Positional
    <2>3. x2 \in Nat /\ y2 \in Nat
      BY <2>1
    <2> QED BY <2>2, <2>3
  <1>10. Sign(x3 - y3) = Then(Sign(x2 - y2), Sign(c - cc)) /\ x3 \in Nat /\ y3 \in Nat
    <2> HIDE DEF x2, y2, c, cc
    <2>1. c \in Nat /\ c < Rest /\ cc \in Nat /\ cc < Rest /\ Rest \in Nat \ {0} /\ x2 \in Nat /\ y2 \in Nat
      BY <1>3, <1>9 DEF c, cc
    <2>2. Sign(x3 - y3) = Then(Sign(x2 - y2), Sign(c - cc))
      <3>1. Placed(x3, x2, c, Rest) /\ Placed(y3, y2, cc, Rest)
        BY <2>1 DEF Placed
      <3> HIDE DEF x3, y3
      <3> QED BY <3>1, Positional
    <2>3. x3 \in Nat /\ y3 \in Nat
      BY <2>1
    <2> QED BY <2>2, <2>3
  <1>11. Sign(Value(r) - Value(q)) = Then(Sign(x3 - y3), Sign(d - dd))
    <2>1. Value(r) = x3 * Rest + d /\ Value(q) = y3 * Rest + dd
      BY DEF Value
    <2> HIDE DEF x3, y3, d, dd
    <2>2. d \in Nat /\ d < Rest /\ dd \in Nat /\ dd < Rest /\ Rest \in Nat \ {0} /\ x3 \in Nat /\ y3 \in Nat
      BY <1>3, <1>10 DEF d, dd
    <2>3. Placed(Value(r), x3, d, Rest) /\ Placed(Value(q), y3, dd, Rest)
      BY <2>1, <2>2 DEF Placed
    <2> QED BY <2>3, Positional
  <1>12. Lexicographic(s, t) =
           IF a # aa THEN Sign(a - aa) ELSE IF b # bb THEN Sign(b - bb)
           ELSE IF c # cc THEN Sign(c - cc) ELSE Sign(d - dd)
    <2>1. Lexicographic(s, t) =
             IF s[1] # t[1] THEN Sign(s[1] - t[1]) ELSE IF s[2] # t[2] THEN Sign(s[2] - t[2])
             ELSE IF s[3] # t[3] THEN Sign(s[3] - t[3]) ELSE Sign(s[4] - t[4])
      BY <1>4, Lex4
    <2> QED BY <1>4, <2>1
  <1>13. /\ a \in Int /\ b \in Int /\ c \in Int /\ d \in Int
         /\ aa \in Int /\ bb \in Int /\ cc \in Int /\ dd \in Int
    BY <1>3
  <1> HIDE DEF a, b, c, d, aa, bb, cc, dd, x2, y2, x3, y3
  <1>14. Sign(Value(r) - Value(q)) = Lexicographic(s, t)
    BY <1>9, <1>10, <1>11, <1>12, <1>13 DEF Then, Sign
  <1> QED BY <1>8, <1>14 DEF n, x, y

\* Suffixes compare by their kinds, then by their numbers.
LEMMA SuffixCompare ==
    ASSUME NEW r, NEW k, NEW n, SuffixFits(k, n), PartsOK(Unpacked(r, k, n)),
           NEW q, NEW j, NEW m, SuffixFits(j, m), Public(Unpacked(q, j, m))
    PROVE  Then(Sign(k - j), Sign(n - m)) =
             Lexicographic(PepTail(Unpacked(r, k, n)), PepTail(Unpacked(q, j, m)))
  <1> DEFINE c == Unpacked(r, k, n)
             d == Unpacked(q, j, m)
             inf == 100 * Top
             P1(kind, x) == IF kind = 0 THEN -2 ELSE IF kind = 1 THEN -1
                            ELSE IF kind = 2 THEN 2 * Top + x ELSE IF kind = 3 THEN 3 * Top + x
                            ELSE IF kind = 4 THEN 4 * Top + x ELSE inf
             P2(kind, x) == IF kind = 8 THEN inf ELSE IF kind = 7 THEN x ELSE -1
             P3(kind, x) == IF kind = 1 THEN x ELSE inf
             P4(kind, x) == IF kind = 6 THEN inf ELSE 0
  <1>0. Top \in Nat /\ Top >= 1
    BY Widths
  <1>1. k \in 0..8 /\ n \in Nat /\ j \in 0..8 /\ m \in Nat
    BY Widths DEF SuffixFits
  <1>2. ASSUME NEW h, NEW kind \in 0..8, NEW x \in Nat
        PROVE  PepTail(Unpacked(h, kind, x)) = <<P1(kind, x), P2(kind, x), P3(kind, x), P4(kind, x)>>
    <2> DEFINE e == Unpacked(h, kind, x)
    <2>1. /\ e.pre = (IF kind \in 2..4 THEN <<kind, x>> ELSE NoPre)
          /\ e.post = (IF kind = 7 THEN x ELSE -1) /\ e.dev = (IF kind = 1 THEN x ELSE -1)
          /\ e.min = (IF kind = 0 THEN x ELSE -1) /\ e.max = (IF kind = 8 THEN x ELSE -1)
          /\ e.local = (IF kind = 6 THEN -2 ELSE 0)
      BY DEF Unpacked, SUFFIX_PRE, SUFFIX_POST, SUFFIX_DEV, SUFFIX_MIN, SUFFIX_MAX, SUFFIX_LOCAL,
             None, NoLocal, LocalMax
    <2>2. /\ e.pre # NoPre <=> kind \in 2..4
          /\ kind \in 2..4 => e.pre[1] = kind /\ e.pre[2] = x
      BY <2>1 DEF NoPre
    <2> HIDE DEF e
    <2>3. PepTail(e) = <<P1(kind, x), P2(kind, x), P3(kind, x), P4(kind, x)>>
      BY <1>0, <2>1, <2>2 DEF PepTail, None, LocalMax
    <2> QED BY <2>3 DEF e
  <1>3. /\ k \in 2..4 => n < Top
        /\ k = 7 => n < Top
        /\ k = 1 => n < Top
    <2>1. /\ c.pre # NoPre => c.pre[2] < Top
          /\ c.post < Top /\ c.dev < Top
      BY PartsOKFields
    <2>2. /\ k \in 2..4 => c.pre = <<k, n>> /\ c.pre # NoPre
          /\ k = 7 => c.post = n
          /\ k = 1 => c.dev = n
      BY DEF Unpacked, SUFFIX_PRE, SUFFIX_POST, SUFFIX_DEV, NoPre
    <2> HIDE DEF c
    <2> QED BY <2>1, <2>2
  <1>4. /\ j \in 2..4 => m < Top
        /\ j = 7 => m < Top
        /\ j = 1 => m < Top
        /\ j # 0 /\ j # 8 /\ j # 6
    <2>1. PartsOK(d) /\ d.min = None /\ d.max = None /\ d.local # LocalMax
      BY DEF Public
    <2>2. /\ d.pre # NoPre => d.pre[2] < Top
          /\ d.post < Top /\ d.dev < Top
      BY <2>1, PartsOKFields
    <2>3. /\ j \in 2..4 => d.pre = <<j, m>> /\ d.pre # NoPre
          /\ j = 7 => d.post = m
          /\ j = 1 => d.dev = m
          /\ j = 0 => d.min = m
          /\ j = 8 => d.max = m
          /\ j = 6 => d.local = LocalMax
      BY DEF Unpacked, SUFFIX_PRE, SUFFIX_POST, SUFFIX_DEV, SUFFIX_MIN, SUFFIX_MAX, SUFFIX_LOCAL, NoPre
    <2> HIDE DEF d
    <2> QED BY <1>1, <2>1, <2>2, <2>3 DEF None
  <1>5. /\ k \in {0, 5, 6, 8} => n = 0
        /\ j = 5 => m = 0
    BY DEF SuffixFits, SUFFIX_MIN, SUFFIX_MAX, SUFFIX_NONE, SUFFIX_LOCAL
  <1>6. Lexicographic(PepTail(c), PepTail(d)) =
             IF P1(k, n) # P1(j, m) THEN Sign(P1(k, n) - P1(j, m))
             ELSE IF P2(k, n) # P2(j, m) THEN Sign(P2(k, n) - P2(j, m))
             ELSE IF P3(k, n) # P3(j, m) THEN Sign(P3(k, n) - P3(j, m))
             ELSE Sign(P4(k, n) - P4(j, m))
    <2> DEFINE s == PepTail(c)
               t == PepTail(d)
    <2>1. s \in Seq(Int) /\ Len(s) = 4 /\ t \in Seq(Int) /\ Len(t) = 4
      BY TailType DEF Public
    <2>2. s = <<P1(k, n), P2(k, n), P3(k, n), P4(k, n)>> /\ t = <<P1(j, m), P2(j, m), P3(j, m), P4(j, m)>>
      BY <1>1, <1>2
    <2> HIDE DEF s, t, P1, P2, P3, P4
    <2>3. Lexicographic(s, t) =
             IF s[1] # t[1] THEN Sign(s[1] - t[1]) ELSE IF s[2] # t[2] THEN Sign(s[2] - t[2])
             ELSE IF s[3] # t[3] THEN Sign(s[3] - t[3]) ELSE Sign(s[4] - t[4])
      BY <2>1, Lex4
    <2> QED BY <2>2, <2>3 DEF s, t
  <1> SUFFICES Then(Sign(k - j), Sign(n - m)) = Lexicographic(PepTail(c), PepTail(d))
    OBVIOUS
  <1> HIDE DEF c, d
  <1>7. ASSUME NEW kind \in 0..8, NEW x \in Nat, kind \in 2..4 => x < Top
        PROVE  /\ P1(kind, x) \in Int
               /\ kind = 0 => P1(kind, x) = -2
               /\ kind = 1 => P1(kind, x) = -1
               /\ kind = 2 => P1(kind, x) = 2 * Top + x /\ x < Top
               /\ kind = 3 => P1(kind, x) = 3 * Top + x /\ x < Top
               /\ kind = 4 => P1(kind, x) = 4 * Top + x /\ x < Top
               /\ kind > 4 => P1(kind, x) = inf
    BY <1>0, <1>7
  <1>8. CASE k # j /\ (k < 5 \/ j < 5)
    <2> HIDE DEF P1
    <2>1. /\ P1(k, n) \in Int /\ P1(j, m) \in Int
          /\ k < j => P1(k, n) < P1(j, m)
          /\ j < k => P1(j, m) < P1(k, n)
      <3>1. /\ P1(k, n) \in Int
            /\ k = 0 => P1(k, n) = -2
            /\ k = 1 => P1(k, n) = -1
            /\ k = 2 => P1(k, n) = 2 * Top + n /\ n < Top
            /\ k = 3 => P1(k, n) = 3 * Top + n /\ n < Top
            /\ k = 4 => P1(k, n) = 4 * Top + n /\ n < Top
            /\ k > 4 => P1(k, n) = inf
        BY <1>1, <1>3, <1>7
      <3>2. /\ P1(j, m) \in Int
            /\ j = 0 => P1(j, m) = -2
            /\ j = 1 => P1(j, m) = -1
            /\ j = 2 => P1(j, m) = 2 * Top + m /\ m < Top
            /\ j = 3 => P1(j, m) = 3 * Top + m /\ m < Top
            /\ j = 4 => P1(j, m) = 4 * Top + m /\ m < Top
            /\ j > 4 => P1(j, m) = inf
        BY <1>1, <1>4, <1>7
      <3> QED BY <1>0, <1>1, <1>8, <3>1, <3>2
    <2> HIDE DEF P2, P3, P4
    <2> QED BY <1>1, <1>6, <1>8, <2>1 DEF Sign, Then
  <1>9. CASE k = j /\ k \in 2..4
    <2>1. /\ P1(k, n) - P1(j, m) = n - m /\ (P1(k, n) = P1(j, m) <=> n = m)
          /\ P2(k, n) = P2(j, m) /\ P3(k, n) = P3(j, m) /\ P4(k, n) = 0 /\ P4(j, m) = 0
      BY <1>0, <1>1, <1>9
    <2> HIDE DEF P1, P2, P3, P4
    <2> QED BY <1>1, <1>6, <1>9, <2>1 DEF Sign, Then
  <1>10. CASE k = j /\ k = 1
    <2>1. /\ P1(k, n) = P1(j, m) /\ P2(k, n) = P2(j, m) /\ P3(k, n) = n /\ P3(j, m) = m
          /\ P4(k, n) = 0 /\ P4(j, m) = 0
      BY <1>10
    <2> HIDE DEF P1, P2, P3, P4
    <2> QED BY <1>1, <1>6, <1>10, <2>1 DEF Sign, Then
  <1>11. CASE k = j /\ k = 7
    <2>1. /\ P1(k, n) = P1(j, m) /\ P2(k, n) = n /\ P2(j, m) = m /\ P3(k, n) = P3(j, m)
          /\ P4(k, n) = 0 /\ P4(j, m) = 0
      BY <1>11
    <2> HIDE DEF P1, P2, P3, P4
    <2> QED BY <1>1, <1>6, <1>11, <2>1 DEF Sign, Then
  <1>12. CASE k = j /\ k = 5
    <2>1. /\ P1(k, n) = P1(j, m) /\ P2(k, n) = P2(j, m) /\ P3(k, n) = P3(j, m)
          /\ P4(k, n) = 0 /\ P4(j, m) = 0 /\ n = m
      BY <1>5, <1>12
    <2> HIDE DEF P1, P2, P3, P4
    <2> QED BY <1>1, <1>6, <1>12, <2>1 DEF Sign, Then
  <1>13. CASE k # j /\ k >= 5 /\ j >= 5
    <2>1. j \in {5, 7} /\ k \in {5, 6, 7, 8}
      BY <1>1, <1>4, <1>13
    <2>2. P1(k, n) = P1(j, m)
      BY <2>1
    <2>3. CASE k = 6 /\ j = 5
      <3>1. P2(k, n) = P2(j, m) /\ P3(k, n) = P3(j, m) /\ P4(k, n) = inf /\ P4(j, m) = 0
        BY <2>3
      <3> HIDE DEF P1, P2, P3, P4
      <3> QED BY <1>0, <1>1, <1>6, <2>2, <2>3, <3>1 DEF Sign, Then
    <2>4. CASE ~(k = 6 /\ j = 5)
      <3>1. /\ P2(k, n) \in Int /\ P2(j, m) \in Int
            /\ k < j => P2(k, n) < P2(j, m)
            /\ j < k => P2(j, m) < P2(k, n)
        BY <1>0, <1>1, <1>3, <1>4, <1>13, <2>1, <2>4
      <3> HIDE DEF P1, P2, P3, P4
      <3> QED BY <1>1, <1>6, <1>13, <2>2, <3>1 DEF Sign, Then
    <2> QED BY <2>3, <2>4
  <1>14. k = j => k \in 2..4 \/ k = 1 \/ k = 7 \/ k = 5
    BY <1>1, <1>4
  <1>15. k < 5 \/ k >= 5
    BY <1>1
  <1>16. j < 5 \/ j >= 5
    BY <1>1
  <1> QED BY <1>8, <1>9, <1>10, <1>11, <1>12, <1>13, <1>14, <1>15, <1>16

\* Packed versions compare as their integers do, and as PEP 440 says.
LEMMA PackedCompare ==
    ASSUME NEW v, IsPacked(v), PartsOK(Parts(v)), NEW w, IsPacked(w), Public(Parts(w))
    PROVE  LET n == Longer(Parts(v).release, Parts(w).release) IN
           Sign(v.repr - w.repr) = Lexicographic(PepKey(Parts(v), n), PepKey(Parts(w), n))
  <1>1. PICK r, k, a : Fits(r) /\ SuffixFits(k, a) /\ v = Pack(r, k, a)
    BY DEF IsPacked
  <1>2. PICK q, j, b : Fits(q) /\ SuffixFits(j, b) /\ w = Pack(q, j, b)
    BY DEF IsPacked
  <1> DEFINE c == Unpacked(r, k, a)
             d == Unpacked(q, j, b)
             n == Longer(r, q)
  <1>3. Parts(v) = c /\ Parts(w) = d
    BY <1>1, <1>2, PackParts
  <1>4. c.release = r /\ d.release = q /\ c.epoch = 0 /\ d.epoch = 0
    BY DEF Unpacked
  <1>5. PartsOK(c) /\ Public(d) /\ PartsOK(d)
    BY <1>3 DEF Public
  <1>6. Sign(Value(r) - Value(q)) = Lexicographic(Padded(r, n), Padded(q, n))
    BY <1>1, <1>2, ValueCompare
  <1>7. Then(Sign(k - j), Sign(a - b)) = Lexicographic(PepTail(c), PepTail(d))
    BY <1>1, <1>2, <1>5, SuffixCompare
  <1>8. n \in Nat
    BY <1>1, <1>2, LongerIs DEF Fits
  <1> HIDE DEF c, d, n
  <1>9. /\ Lexicographic(PepKey(c, n), PepKey(d, n)) =
             IF c.epoch # d.epoch THEN Sign(c.epoch - d.epoch)
             ELSE IF Padded(c.release, n) # Padded(d.release, n)
               THEN Lexicographic(Padded(c.release, n), Padded(d.release, n))
               ELSE Lexicographic(PepTail(c), PepTail(d))
        /\ Lexicographic(Padded(c.release, n), Padded(d.release, n)) = 0
             <=> Padded(c.release, n) = Padded(d.release, n)
    BY <1>5, <1>8, KeyCompare
  <1>10. Lexicographic(PepKey(c, n), PepKey(d, n)) =
           Then(Sign(Value(r) - Value(q)), Then(Sign(k - j), Sign(a - b)))
    BY <1>4, <1>6, <1>7, <1>9 DEF Then
  <1> DEFINE x == Value(r) * 16 + k
             y == Value(q) * 16 + j
  <1>11. /\ Value(r) \in Nat /\ Value(q) \in Nat /\ k \in Nat /\ j \in Nat /\ k < 16 /\ j < 16
         /\ a \in Nat /\ b \in Nat /\ a < Suffix /\ b < Suffix /\ Suffix \in Nat \ {0}
    <2>1. Value(r) \in Nat /\ Value(q) \in Nat
      BY <1>1, <1>2, SegmentType
    <2>2. /\ k \in 0..8 /\ j \in 0..8 /\ a \in 0..Suffix - 1 /\ b \in 0..Suffix - 1
      BY <1>1, <1>2 DEF SuffixFits
    <2> QED BY <2>1, <2>2, Widths
  <1>12. Placed(x, Value(r), k, 16) /\ Placed(y, Value(q), j, 16)
    BY <1>11 DEF Placed
  <1>13. x \in Nat /\ y \in Nat
    BY <1>11
  <1>14. v.repr = x * Suffix + a /\ w.repr = y * Suffix + b
    BY <1>1, <1>2, PackType
  <1> HIDE DEF x, y
  <1>15. Placed(v.repr, x, a, Suffix) /\ Placed(w.repr, y, b, Suffix)
    BY <1>11, <1>13, <1>14 DEF Placed
  <1>16. Sign(x - y) = Then(Sign(Value(r) - Value(q)), Sign(k - j))
    BY <1>12, Positional
  <1>17. Sign(v.repr - w.repr) = Then(Sign(x - y), Sign(a - b))
    BY <1>15, Positional
  <1>18. Sign(v.repr - w.repr) = Lexicographic(PepKey(c, n), PepKey(d, n))
    BY <1>10, <1>16, <1>17 DEF Then
  <1> QED BY <1>3, <1>4, <1>18 DEF n

\* However the two are represented.
LEMMA VersionCompare ==
    ASSUME NEW v, IsVersion(v), PartsOK(Parts(v)), NEW w, IsVersion(w), Public(Parts(w))
    PROVE  LET n == Longer(Parts(v).release, Parts(w).release) IN
           Compare(v, w) = Lexicographic(PepKey(Parts(v), n), PepKey(Parts(w), n))
  <1>1. CASE IsPacked(v) /\ IsPacked(w)
    <2>1. v.small = TRUE /\ w.small = TRUE
      BY <1>1, PackedSuffix
    <2>2. Compare(v, w) = Sign(v.repr - w.repr)
      BY <2>1 DEF Compare
    <2> QED BY <1>1, <2>2, PackedCompare
  <1>2. CASE ~(IsPacked(v) /\ IsPacked(w))
    <2>1. v.small = FALSE \/ w.small = FALSE
      BY <1>2, PartsFields DEF IsVersion
    <2>2. Compare(v, w) = cmp_slow(Parts(v), Parts(w))
      BY <2>1 DEF Compare
    <2> QED BY <2>2, SlowCompare
  <1> QED BY <1>1, <1>2
-----------------------------------------------------------------------------
(* Hashes.                                                                 *)

\* A set of places in a sequence has a last one.
LEMMA Greatest ==
    ASSUME NEW n \in Nat, NEW S \in SUBSET (1..n), S # {}
    PROVE  \E m \in S : \A k \in S : k <= m
  <1> DEFINE T == {n - i : i \in S}
  <1>1. T \in SUBSET Nat /\ T # {}
    OBVIOUS
  <1>2. PICK x \in T : \A y \in T : x <= y
    BY <1>1, Least
  <1>3. PICK m \in S : x = n - m
    BY <1>2
  <1>4. \A k \in S : n - k \in T
    OBVIOUS
  <1>5. \A k \in S : k <= m
    BY <1>2, <1>3, <1>4
  <1> QED BY <1>5

\* Releases that are equal but for zeros at the end have the same trimmed form.
LEMMA TrimmedEqual ==
    ASSUME NEW r \in Seq(Nat), NEW q \in Seq(Nat),
           Padded(r, Longer(r, q)) = Padded(q, Longer(r, q))
    PROVE  Trimmed(r) = Trimmed(q)
  <1> DEFINE n == Longer(r, q)
             R == {i \in 1..Len(r) : r[i] # 0}
             Q == {i \in 1..Len(q) : q[i] # 0}
             l(S) == IF S = {} THEN 0 ELSE CHOOSE i \in S : \A j \in S : j <= i
  <1>1. n \in Nat /\ Len(r) <= n /\ Len(q) <= n /\ Len(r) \in Nat /\ Len(q) \in Nat
    <2>1. Len(r) \in Nat /\ Len(q) \in Nat
      OBVIOUS
    <2> QED BY <2>1, LongerIs
  <1>2. \A i \in 1..n : Segment(r, i) = Segment(q, i)
    <2>1. \A i \in 1..n : Padded(r, n)[i] = Segment(r, i) /\ Padded(q, n)[i] = Segment(q, i)
      BY <1>1, PaddedIs
    <2> QED BY <2>1
  <1> HIDE DEF n
  <1>3. R = Q
    BY <1>1, <1>2 DEF Segment
  <1>4. Trimmed(r) = SubSeq(r, 1, l(R)) /\ Trimmed(q) = SubSeq(q, 1, l(Q))
    BY DEF Trimmed
  <1>5. l(R) \in Nat /\ l(R) <= Len(r) /\ l(R) <= Len(q)
    <2>1. CASE R = {}
      BY <1>1, <2>1
    <2>2. CASE R # {}
      <3>1. R \in SUBSET (1..Len(r))
        OBVIOUS
      <3>2. \E m \in R : \A k \in R : k <= m
        <4> HIDE DEF R
        <4> QED BY <1>1, <2>2, <3>1, Greatest
      <3>3. l(R) \in R
        <4> HIDE DEF R
        <4> QED BY <2>2, <3>2
      <3>4. l(R) \in Q
        BY <1>3, <3>3
      <3> HIDE DEF l
      <3> QED BY <1>1, <3>3, <3>4
    <2> QED BY <2>1, <2>2
  <1>6. l(R) = l(Q)
    <2> HIDE DEF R, Q, l
    <2> QED BY <1>3
  <1> DEFINE m == l(R)
             s == SubSeq(r, 1, m)
             t == SubSeq(q, 1, m)
  <1>7. m \in Nat /\ m <= Len(r) /\ m <= Len(q)
    BY <1>5
  <1> HIDE DEF R, Q, l, m
  <1>8. /\ s \in Seq(Nat) /\ Len(s) = m /\ \A i \in 1..m : s[i] = r[i]
        /\ t \in Seq(Nat) /\ Len(t) = m /\ \A i \in 1..m : t[i] = q[i]
    BY <1>1, <1>7
  <1>9. \A i \in 1..m : r[i] = q[i]
    <2> TAKE i \in 1..m
    <2>1. i \in 1..n /\ i <= Len(r) /\ i <= Len(q)
      BY <1>1, <1>7
    <2> QED BY <1>2, <2>1 DEF Segment
  <1> HIDE DEF s, t
  <1>10. s = t
    BY <1>8, <1>9, SeqEqual
  <1> QED BY <1>4, <1>6, <1>10 DEF s, t, m

\* Versions that compare as equal differ in zeros at the end of the release only.
LEMMA KeyEqual ==
    ASSUME NEW c, PartsOK(c), NEW d, Public(d), NEW n, n = Longer(c.release, d.release),
           Lexicographic(PepKey(c, n), PepKey(d, n)) = 0
    PROVE  /\ c.epoch = d.epoch /\ Trimmed(c.release) = Trimmed(d.release)
           /\ c.pre = d.pre /\ c.post = d.post /\ c.dev = d.dev /\ c.local = d.local
  <1>1. PartsOK(d) /\ d.min = None /\ d.max = None /\ d.local # LocalMax
    BY DEF Public
  <1>2. c.release \in Seq(Nat) /\ d.release \in Seq(Nat) /\ c.epoch \in Nat /\ d.epoch \in Nat
    BY <1>1, PartsOKFields
  <1>3. n \in Nat
    BY <1>2, LongerIs
  <1>4. /\ Lexicographic(PepKey(c, n), PepKey(d, n)) =
             IF c.epoch # d.epoch THEN Sign(c.epoch - d.epoch)
             ELSE IF Padded(c.release, n) # Padded(d.release, n)
               THEN Lexicographic(Padded(c.release, n), Padded(d.release, n))
               ELSE Lexicographic(PepTail(c), PepTail(d))
        /\ Lexicographic(PepTail(c), PepTail(d)) = 0 <=> PepTail(c) = PepTail(d)
        /\ Lexicographic(Padded(c.release, n), Padded(d.release, n)) = 0
             <=> Padded(c.release, n) = Padded(d.release, n)
    BY <1>1, <1>3, KeyCompare
  <1>5. c.epoch # d.epoch => Sign(c.epoch - d.epoch) # 0
    BY <1>2 DEF Sign
  <1>6. c.epoch = d.epoch /\ Padded(c.release, n) = Padded(d.release, n) /\ PepTail(c) = PepTail(d)
    BY <1>4, <1>5
  <1>7. Trimmed(c.release) = Trimmed(d.release)
    BY <1>2, <1>6, TrimmedEqual
  <1>c. /\ c.pre # NoPre => /\ c.pre[1] \in 2..4 /\ c.pre[2] \in Nat /\ c.pre[2] < Top
                            /\ c.pre = <<c.pre[1], c.pre[2]>>
        /\ c.post \in Nat \cup {None} /\ c.post < Top
        /\ c.dev \in Nat \cup {None} /\ c.dev < Top
        /\ c.min \in {None, 0} /\ c.max \in {None, 0}
        /\ c.local \in Nat \cup {LocalMax} /\ c.local < Top
    BY PartsOKFields
  <1>d. /\ d.pre # NoPre => /\ d.pre[1] \in 2..4 /\ d.pre[2] \in Nat /\ d.pre[2] < Top
                            /\ d.pre = <<d.pre[1], d.pre[2]>>
        /\ d.post \in Nat \cup {None} /\ d.post < Top
        /\ d.dev \in Nat \cup {None} /\ d.dev < Top
        /\ d.local \in Nat /\ d.local < Top
    BY <1>1, PartsOKFields
  <1>0. Top \in Nat /\ Top >= 1
    BY Widths
  <1> DEFINE inf == 100 * Top
             P1(x) == IF x.min # None THEN -2
                      ELSE IF x.pre # NoPre THEN x.pre[1] * Top + x.pre[2]
                      ELSE IF x.post = None /\ x.max = None /\ x.dev # None THEN -1
                      ELSE inf
             P2(x) == IF x.max # None THEN inf ELSE x.post
             P3(x) == IF x.dev = None THEN inf ELSE x.dev
             P4(x) == IF x.local = LocalMax THEN inf ELSE x.local
  <1>8. P1(c) = P1(d) /\ P2(c) = P2(d) /\ P3(c) = P3(d) /\ P4(c) = P4(d)
    <2>1. PepTail(c) = <<P1(c), P2(c), P3(c), P4(c)>> /\ PepTail(d) = <<P1(d), P2(d), P3(d), P4(d)>>
      BY DEF PepTail
    <2> HIDE DEF P1, P2, P3, P4
    <2>2. /\ PepTail(c)[1] = P1(c) /\ PepTail(c)[2] = P2(c) /\ PepTail(c)[3] = P3(c) /\ PepTail(c)[4] = P4(c)
          /\ PepTail(d)[1] = P1(d) /\ PepTail(d)[2] = P2(d) /\ PepTail(d)[3] = P3(d) /\ PepTail(d)[4] = P4(d)
      BY <2>1
    <2> QED BY <1>6, <2>2
  <1>9. c.post = d.post /\ c.max = None
    BY <1>0, <1>1, <1>8, <1>c, <1>d DEF None
  <1>10. c.dev = d.dev
    BY <1>0, <1>8, <1>c, <1>d DEF None
  <1>11. c.local = d.local
    BY <1>0, <1>1, <1>8, <1>c, <1>d DEF LocalMax
  <1>12. ASSUME NEW a \in 2..4, NEW b \in Nat, b < Top
         PROVE  a * Top + b > 0 /\ a * Top + b < inf
    BY <1>0, <1>12
  <1>13. c.pre = d.pre
    <2>1. CASE c.pre # NoPre /\ d.pre # NoPre
      <3> DEFINE a == c.pre[1]
                 b == c.pre[2]
                 e == d.pre[1]
                 f == d.pre[2]
      <3>1. /\ a \in {2, 3, 4} /\ b \in Nat /\ b < Top /\ e \in {2, 3, 4} /\ f \in Nat /\ f < Top
        BY <1>c, <1>d, <2>1
      <3>2. a * Top + b = e * Top + f
        <4>1. a * Top + b > 0 /\ a \in 2..4
          BY <1>12, <3>1
        <4>2. P1(c) = IF c.min # None THEN -2 ELSE a * Top + b
          BY <2>1
        <4>3. P1(d) = e * Top + f
          BY <1>1, <2>1
        <4>4. e * Top + f > 0
          BY <1>12, <3>1
        <4> DEFINE x == a * Top + b
                   y == e * Top + f
        <4>5. P1(c) = (IF c.min # None THEN -2 ELSE x) /\ P1(d) = y /\ y > 0
          BY <4>2, <4>3, <4>4
        <4>6. P1(c) = P1(d)
          BY <1>8
        <4> HIDE DEF x, y, P1
        <4>7. x = y
          BY <4>5, <4>6
        <4> QED BY <4>7 DEF x, y
      <3> HIDE DEF a, b, e, f
      <3>3. a = e /\ b = f
        <4>1. CASE a = 2
          BY <1>0, <3>1, <3>2, <4>1
        <4>2. CASE a = 3
          BY <1>0, <3>1, <3>2, <4>2
        <4>3. CASE a = 4
          BY <1>0, <3>1, <3>2, <4>3
        <4> QED BY <3>1, <4>1, <4>2, <4>3
      <3> QED BY <1>c, <1>d, <2>1, <3>3 DEF a, b, e, f
    <2>2. CASE c.pre # NoPre /\ d.pre = NoPre
      <3>1. c.pre[1] * Top + c.pre[2] > 0 /\ c.pre[1] * Top + c.pre[2] < inf
        BY <1>12, <1>c, <2>2
      <3>2. P1(d) = -1 \/ P1(d) = inf
        BY <1>1, <2>2
      <3>3. P1(c) = -2 \/ P1(c) = c.pre[1] * Top + c.pre[2]
        BY <2>2
      <3> HIDE DEF P1
      <3> QED BY <1>0, <1>8, <1>c, <2>2, <3>1, <3>2, <3>3
    <2>3. CASE c.pre = NoPre /\ d.pre # NoPre
      <3>1. d.pre[1] * Top + d.pre[2] > 0 /\ d.pre[1] * Top + d.pre[2] < inf
        BY <1>12, <1>d, <2>3
      <3>2. P1(c) = -2 \/ P1(c) = -1 \/ P1(c) = inf
        BY <2>3
      <3>3. P1(d) = d.pre[1] * Top + d.pre[2]
        BY <1>1, <2>3
      <3> HIDE DEF P1
      <3> QED BY <1>0, <1>8, <1>d, <2>3, <3>1, <3>2, <3>3
    <2>4. CASE c.pre = NoPre /\ d.pre = NoPre
      BY <2>4
    <2> QED BY <2>1, <2>2, <2>3, <2>4
  <1> QED BY <1>6, <1>7, <1>9, <1>10, <1>11, <1>13
-----------------------------------------------------------------------------
(* The version that the program changes.                                   *)

\* It holds the parts that were set, and a sentinel only what ranges give it.
VersionOK ==
    /\ IsVersion(version)
    /\ Parts(version) = parts
    /\ PartsOK(parts)

LEMMA NewVersion ==
    ASSUME NEW r \in Seq(Nat)
    PROVE  IsVersion(VersionNew(r)) /\ Parts(VersionNew(r)) = NoParts(r)
  <1>1. SmallNew = Pack(<<>>, SUFFIX_NONE, 0) /\ Fits(<<>>) /\ SuffixFits(SUFFIX_NONE, 0)
    <2>1. Segment(<<>>, 1) = 0 /\ Segment(<<>>, 2) = 0 /\ Segment(<<>>, 3) = 0 /\ Segment(<<>>, 4) = 0
      BY DEF Segment
    <2>2. Value(<<>>) = ((0 * Rest + 0) * Rest + 0) * Rest + 0
      BY <2>1 DEF Value
    <2>3. Value(<<>>) = 0
      BY <2>2, Widths
    <2>4. (0 * 16 + SUFFIX_NONE) * Suffix + 0 = SUFFIX_NONE * Suffix
      BY Widths DEF SUFFIX_NONE
    <2>5. Pack(<<>>, SUFFIX_NONE, 0) = SmallNew
      BY <2>3, <2>4 DEF Pack, SmallNew
    <2>6. Fits(<<>>)
      BY DEF Fits
    <2> QED BY <2>5, <2>6, NoneFits
  <1>2. IsPacked(SmallNew)
    BY <1>1 DEF IsPacked
  <1>3. Parts(SmallNew) = Unpacked(<<>>, SUFFIX_NONE, 0) /\ Unpacked(<<>>, SUFFIX_NONE, 0) \in PartsType
    BY <1>1, PackParts
  <1> DEFINE u == Unpacked(<<>>, SUFFIX_NONE, 0)
             c == [u EXCEPT !.release = r]
  <1>4. IsVersion(VersionNew(r)) /\ Parts(VersionNew(r)) = c
    <2>1. IsVersion(SmallNew)
      BY <1>2 DEF IsVersion
    <2>2. IsVersion(with_release(SmallNew, r)) /\ Parts(with_release(SmallNew, r)) = [Parts(SmallNew) EXCEPT !.release = r]
      BY <2>1, WithRelease
    <2> QED BY <1>3, <2>2 DEF VersionNew
  <1>5. /\ u.epoch = 0 /\ u.pre = NoPre /\ u.post = None /\ u.dev = None /\ u.min = None /\ u.max = None
        /\ u.local = NoLocal
    BY DEF Unpacked, SUFFIX_NONE, SUFFIX_PRE, SUFFIX_POST, SUFFIX_DEV, SUFFIX_MIN, SUFFIX_MAX, SUFFIX_LOCAL
  <1> HIDE DEF u
  <1>6. /\ c \in PartsType /\ c.epoch = 0 /\ c.release = r /\ c.pre = NoPre /\ c.post = None
        /\ c.dev = None /\ c.min = None /\ c.max = None /\ c.local = NoLocal
    <2>1. u \in PartsType
      BY <1>3 DEF u
    <2> QED BY <1>5, <2>1 DEF PartsType
  <1> HIDE DEF c
  <1>7. c = NoParts(r)
    <2>1. c = [small |-> FALSE, epoch |-> c.epoch, release |-> c.release, pre |-> c.pre,
                post |-> c.post, dev |-> c.dev, min |-> c.min, max |-> c.max, local |-> c.local]
      BY <1>6, PartsIs, Zenon
    <2> QED BY <1>6, <2>1 DEF NoParts
  <1> QED BY <1>4, <1>7

\* What the values of the parts are.
LEMMA Inputs ==
    /\ Releases \subseteq Seq(Nat) /\ <<>> \notin Releases /\ Epochs \subseteq Nat
    /\ Posts \subseteq 0..Top - 1 /\ Devs \subseteq 0..Top - 1
    /\ Pres \subseteq (2..4) \X (0..Top - 1)
    /\ Locals \subseteq 1..Top - 1
    /\ Top \in Nat \ {0}
  BY VersionAssumption

LEMMA NewOK ==
    ASSUME NEW r \in Seq(Nat), r # <<>>
    PROVE  PartsOK(NoParts(r))
  <1>1. NoParts(r) \in PartsType
    BY DEF NoParts, PartsType, None, NoPre, NoLocal, LocalMax
  <1> QED BY <1>1, Widths DEF PartsOK, NoParts, None, NoPre, NoLocal

\* A parsed version has the parts that were read.
LEMMA ParsedIs ==
    ASSUME NEW c \in PublicParts
    PROVE  IsVersion(Parsed(c)) /\ Parts(Parsed(c)) = c /\ Public(c)
  <1>1. /\ c.small = FALSE /\ c.epoch \in Nat /\ c.release \in Seq(Nat) /\ c.release # <<>>
        /\ c.pre \in ((2..4) \X (0..Top - 1)) \cup {NoPre}
        /\ c.post \in (0..Top - 1) \cup {None} /\ c.dev \in (0..Top - 1) \cup {None}
        /\ c.min = None /\ c.max = None /\ c.local \in 0..Top - 1
    <2>1. /\ c.small = FALSE /\ c.epoch \in Epochs /\ c.release \in Releases
          /\ c.pre \in Pres \cup {NoPre} /\ c.post \in Posts \cup {None} /\ c.dev \in Devs \cup {None}
          /\ c.min = None /\ c.max = None /\ c.local \in Locals \cup {NoLocal}
      BY DEF PublicParts
    <2>2. c.local \in 0..Top - 1
      <3>1. Locals \subseteq 1..Top - 1 /\ Top \in Nat \ {0}
        BY Inputs
      <3>2. c.local \in 1..Top - 1 \/ c.local = 0
        BY <2>1, <3>1 DEF NoLocal
      <3> QED BY <3>1, <3>2
    <2> QED BY <2>1, <2>2, Inputs
  <1>2. /\ c.pre \in ((2..4) \X Nat) \cup {NoPre} /\ c.post \in Nat \cup {None}
        /\ c.dev \in Nat \cup {None} /\ c.local \in Nat \cup {LocalMax}
    <2>1. c.pre \in (2..4) \X (0..Top - 1) => c.pre \in (2..4) \X Nat
      BY Widths
    <2> QED BY <1>1, <2>1, Widths
  <1>3. c \in PartsType
    <2>1. c = [small |-> FALSE, epoch |-> c.epoch, release |-> c.release, pre |-> c.pre,
               post |-> c.post, dev |-> c.dev, min |-> c.min, max |-> c.max, local |-> c.local]
      BY DEF PublicParts
    <2> DEFINE d == [small |-> FALSE, epoch |-> c.epoch, release |-> c.release, pre |-> c.pre,
               post |-> c.post, dev |-> c.dev, min |-> c.min, max |-> c.max, local |-> c.local]
    <2>2. d \in PartsType
      BY <1>1, <1>2 DEF PartsType
    <2> HIDE DEF d
    <2>3. c = d
      BY <2>1 DEF d
    <2> QED BY <2>2, <2>3
  <1>4. Public(c)
    <2>1. c.pre # NoPre => c.pre \in (2..4) \X (0..Top - 1)
      BY <1>1
    <2>2. c.post < Top /\ c.dev < Top /\ c.local < Top /\ c.local # LocalMax
      BY SMTT(60), <1>1, Widths DEF None, LocalMax
    <2> QED BY <1>1, <1>3, <2>1, <2>2 DEF Public, PartsOK
  <1> DEFINE v0 == VersionNew(c.release)
             v1 == with_epoch(v0, c.epoch)
             v2 == with_pre(v1, c.pre)
             v3 == with_post(v2, c.post)
             v4 == with_dev(v3, c.dev)
             v5 == with_local(v4, c.local)
  <1>5. Parsed(c) = v5
    BY DEF Parsed
  <1> HIDE DEF v0, v1, v2, v3, v4, v5
  <1>6. IsVersion(v0) /\ Parts(v0) = NoParts(c.release)
    BY <1>1, NewVersion DEF v0
  <1>7. IsVersion(v1) /\ Parts(v1) = [Parts(v0) EXCEPT !.epoch = c.epoch]
    BY <1>1, <1>6, WithEpoch DEF v1
  <1>8. IsVersion(v2) /\ Parts(v2) = [Parts(v1) EXCEPT !.pre = c.pre]
    BY <1>2, <1>7, WithPre DEF v2
  <1>9. IsVersion(v3) /\ Parts(v3) = [Parts(v2) EXCEPT !.post = c.post]
    BY <1>2, <1>8, WithPost DEF v3
  <1>10. IsVersion(v4) /\ Parts(v4) = [Parts(v3) EXCEPT !.dev = c.dev]
    BY <1>2, <1>9, WithDev DEF v4
  <1>11. IsVersion(v5) /\ Parts(v5) = [Parts(v4) EXCEPT !.local = c.local]
    BY <1>2, <1>10, WithLocal DEF v5
  <1>12. /\ Parts(v0) \in PartsType /\ Parts(v1) \in PartsType /\ Parts(v2) \in PartsType
         /\ Parts(v3) \in PartsType /\ Parts(v4) \in PartsType /\ Parts(v5) \in PartsType
    BY <1>6, <1>7, <1>8, <1>9, <1>10, <1>11, VersionParts
  <1> DEFINE p0 == Parts(v0)
             p1 == Parts(v1)
             p2 == Parts(v2)
             p3 == Parts(v3)
             p4 == Parts(v4)
             p5 == Parts(v5)
  <1>13. /\ p0.epoch = 0 /\ p0.release = c.release /\ p0.pre = NoPre /\ p0.post = None
         /\ p0.dev = None /\ p0.min = None /\ p0.max = None /\ p0.local = NoLocal
    BY <1>6 DEF NoParts
  <1>14. /\ p1.epoch = c.epoch /\ p1.release = c.release
         /\ p1.min = None /\ p1.max = None
    BY <1>7, <1>12, <1>13 DEF PartsType
  <1>15. /\ p2.epoch = c.epoch /\ p2.release = c.release /\ p2.pre = c.pre
         /\ p2.min = None /\ p2.max = None
    BY <1>8, <1>12, <1>14 DEF PartsType
  <1>16. /\ p3.epoch = c.epoch /\ p3.release = c.release /\ p3.pre = c.pre /\ p3.post = c.post
         /\ p3.min = None /\ p3.max = None
    BY <1>9, <1>12, <1>15 DEF PartsType
  <1>17. /\ p4.epoch = c.epoch /\ p4.release = c.release /\ p4.pre = c.pre /\ p4.post = c.post
         /\ p4.dev = c.dev /\ p4.min = None /\ p4.max = None
    BY <1>10, <1>12, <1>16 DEF PartsType
  <1>18. /\ p5.epoch = c.epoch /\ p5.release = c.release /\ p5.pre = c.pre /\ p5.post = c.post
         /\ p5.dev = c.dev /\ p5.min = c.min /\ p5.max = c.max /\ p5.local = c.local
    BY <1>1, <1>11, <1>12, <1>17 DEF PartsType
  <1>19. p5 = c
    <2>1. p5 \in PartsType
      BY <1>12
    <2> HIDE DEF p5
    <2> QED BY <1>3, <1>18, <2>1, PartsEqual
  <1> QED BY <1>4, <1>5, <1>11, <1>19

\* Every step keeps it.
LEMMA VersionStep ==
    ASSUME VersionOK, Next
    PROVE  VersionOK'
  <1> DEFINE c == parts
  <1>0. IsVersion(version) /\ Parts(version) = parts /\ PartsOK(parts)
    BY DEF VersionOK
  <1>1. c \in PartsType
    BY <1>0 DEF PartsOK
  <1>f. /\ c.release # <<>>
        /\ c.pre # NoPre => c.pre \in (2..4) \X (0..Top - 1)
        /\ c.post \in Nat \cup {None} /\ c.post < Top
        /\ c.dev \in Nat \cup {None} /\ c.dev < Top
        /\ c.min \in {None, 0} /\ c.max \in {None, 0}
        /\ c.local \in Nat \cup {LocalMax} /\ c.local < Top
        /\ c.min # None => /\ c.pre = NoPre /\ c.post = None /\ c.dev = None
                           /\ c.max = None /\ c.local = NoLocal
        /\ c.max # None => c.post = None /\ c.dev = None /\ c.local = NoLocal
    BY <1>0, PartsOKFields DEF PartsOK
  <1>t. Top \in Nat /\ Top >= 1
    BY Widths
  <1>2. ASSUME ~IsSentinel(parts), NEW x \in Epochs, Set("epoch", x, with_epoch(version, x))
        PROVE  VersionOK'
    <2> DEFINE d == [parts EXCEPT !.epoch = x]
    <2>1. x \in Nat
      BY <1>2, Inputs
    <2>2. IsVersion(with_epoch(version, x)) /\ Parts(with_epoch(version, x)) = d
      BY <1>0, <2>1, WithEpoch
    <2>3. d \in PartsType
      BY <1>1, <2>1 DEF PartsType
    <2>4. d.release = c.release /\ d.pre = c.pre /\ d.post = c.post /\ d.dev = c.dev /\ d.min = c.min /\ d.max = c.max /\ d.local = c.local
      BY <1>1 DEF PartsType
    <2> HIDE DEF d
    <2>5. PartsOK(d)
      BY <1>f, <1>t, <1>2, <2>3, <2>4 DEF PartsOK, None, NoPre, NoLocal, LocalMax, IsSentinel
    <2>6. version' = with_epoch(version, x) /\ parts' = d
      BY <1>2 DEF Set, d
    <2> QED BY <2>2, <2>5, <2>6 DEF VersionOK
  <1>3. ASSUME ~IsSentinel(parts), NEW x \in Releases, Set("release", x, with_release(version, x))
        PROVE  VersionOK'
    <2> DEFINE d == [parts EXCEPT !.release = x]
    <2>1. x \in Seq(Nat)
      BY <1>3, Inputs
    <2>2. IsVersion(with_release(version, x)) /\ Parts(with_release(version, x)) = d
      BY <1>0, <2>1, WithRelease
    <2>3. d \in PartsType
      BY <1>1, <2>1 DEF PartsType
    <2>4. d.release = x /\ d.pre = c.pre /\ d.post = c.post /\ d.dev = c.dev /\ d.min = c.min /\ d.max = c.max /\ d.local = c.local
      BY <1>1 DEF PartsType
    <2> HIDE DEF d
    <2>5. PartsOK(d)
      BY <1>f, <1>t, <1>3, <2>3, <2>4, Inputs DEF PartsOK, None, NoPre, NoLocal, LocalMax, IsSentinel
    <2>6. version' = with_release(version, x) /\ parts' = d
      BY <1>3 DEF Set, d
    <2> QED BY <2>2, <2>5, <2>6 DEF VersionOK
  <1>4. ASSUME ~IsSentinel(parts), NEW x \in Pres \cup {NoPre}, Set("pre", x, with_pre(version, x))
        PROVE  VersionOK'
    <2> DEFINE d == [parts EXCEPT !.pre = x]
    <2>1. x \in ((2..4) \X Nat) \cup {NoPre}
      BY <1>4, Inputs
    <2>2. IsVersion(with_pre(version, x)) /\ Parts(with_pre(version, x)) = d
      BY <1>0, <2>1, WithPre
    <2>3. d \in PartsType
      BY <1>1, <2>1 DEF PartsType
    <2>4. d.release = c.release /\ d.pre = x /\ d.post = c.post /\ d.dev = c.dev /\ d.min = c.min /\ d.max = c.max /\ d.local = c.local
      BY <1>1 DEF PartsType
    <2> HIDE DEF d
    <2>5. PartsOK(d)
      BY <1>f, <1>t, <1>4, <2>3, <2>4, Inputs DEF PartsOK, None, NoPre, NoLocal, LocalMax, IsSentinel
    <2>6. version' = with_pre(version, x) /\ parts' = d
      BY <1>4 DEF Set, d
    <2> QED BY <2>2, <2>5, <2>6 DEF VersionOK
  <1>5. ASSUME ~IsSentinel(parts), NEW x \in Posts \cup {None}, Set("post", x, with_post(version, x))
        PROVE  VersionOK'
    <2> DEFINE d == [parts EXCEPT !.post = x]
    <2>1. x \in Nat \cup {None}
      BY <1>5, Inputs
    <2>2. IsVersion(with_post(version, x)) /\ Parts(with_post(version, x)) = d
      BY <1>0, <2>1, WithPost
    <2>3. d \in PartsType
      BY <1>1, <2>1 DEF PartsType
    <2>4. d.release = c.release /\ d.pre = c.pre /\ d.post = x /\ d.dev = c.dev /\ d.min = c.min /\ d.max = c.max /\ d.local = c.local
      BY <1>1 DEF PartsType
    <2> HIDE DEF d
    <2>5. PartsOK(d)
      BY <1>f, <1>t, <1>5, <2>3, <2>4, Inputs DEF PartsOK, None, NoPre, NoLocal, LocalMax, IsSentinel
    <2>6. version' = with_post(version, x) /\ parts' = d
      BY <1>5 DEF Set, d
    <2> QED BY <2>2, <2>5, <2>6 DEF VersionOK
  <1>6. ASSUME ~IsSentinel(parts), NEW x \in Devs \cup {None}, Set("dev", x, with_dev(version, x))
        PROVE  VersionOK'
    <2> DEFINE d == [parts EXCEPT !.dev = x]
    <2>1. x \in Nat \cup {None}
      BY <1>6, Inputs
    <2>2. IsVersion(with_dev(version, x)) /\ Parts(with_dev(version, x)) = d
      BY <1>0, <2>1, WithDev
    <2>3. d \in PartsType
      BY <1>1, <2>1 DEF PartsType
    <2>4. d.release = c.release /\ d.pre = c.pre /\ d.post = c.post /\ d.dev = x /\ d.min = c.min /\ d.max = c.max /\ d.local = c.local
      BY <1>1 DEF PartsType
    <2> HIDE DEF d
    <2>5. PartsOK(d)
      BY <1>f, <1>t, <1>6, <2>3, <2>4, Inputs DEF PartsOK, None, NoPre, NoLocal, LocalMax, IsSentinel
    <2>6. version' = with_dev(version, x) /\ parts' = d
      BY <1>6 DEF Set, d
    <2> QED BY <2>2, <2>5, <2>6 DEF VersionOK
  <1>7. ASSUME ~IsSentinel(parts), NEW x \in Locals \cup {NoLocal}, Set("local", x, with_local(version, x))
        PROVE  VersionOK'
    <2> DEFINE d == [parts EXCEPT !.local = x]
    <2>1. x \in Nat \cup {LocalMax}
      BY <1>7, Inputs DEF NoLocal
    <2>2. IsVersion(with_local(version, x)) /\ Parts(with_local(version, x)) = d
      BY <1>0, <2>1, WithLocal
    <2>3. d \in PartsType
      BY <1>1, <2>1 DEF PartsType
    <2>4. d.release = c.release /\ d.pre = c.pre /\ d.post = c.post /\ d.dev = c.dev /\ d.min = c.min /\ d.max = c.max /\ d.local = x
      BY <1>1 DEF PartsType
    <2> HIDE DEF d
    <2>5. PartsOK(d)
      BY <1>f, <1>t, <1>7, <2>3, <2>4, Inputs DEF PartsOK, None, NoPre, NoLocal, LocalMax, IsSentinel
    <2>6. version' = with_local(version, x) /\ parts' = d
      BY <1>7 DEF Set, d
    <2> QED BY <2>2, <2>5, <2>6 DEF VersionOK
  <1>8. ASSUME ~IsSentinel(parts), parts.local = NoLocal, parts.pre = NoPre, parts.post = None, parts.dev = None, Set("min", 0, with_min(version, 0))
        PROVE  VersionOK'
    <2> DEFINE d == [parts EXCEPT !.min = 0]
    <2>1. 0 \in {None, 0}
      BY <1>8
    <2>2. IsVersion(with_min(version, 0)) /\ Parts(with_min(version, 0)) = d
      BY <1>0, <2>1, WithMin
    <2>3. d \in PartsType
      BY <1>1, <2>1 DEF PartsType
    <2>4. d.release = c.release /\ d.pre = c.pre /\ d.post = c.post /\ d.dev = c.dev /\ d.min = 0 /\ d.max = c.max /\ d.local = c.local
      BY <1>1 DEF PartsType
    <2> HIDE DEF d
    <2>5. PartsOK(d)
      BY <1>f, <1>t, <1>8, <2>3, <2>4 DEF PartsOK, None, NoPre, NoLocal, LocalMax, IsSentinel
    <2>6. version' = with_min(version, 0) /\ parts' = d
      BY <1>8 DEF Set, d
    <2> QED BY <2>2, <2>5, <2>6 DEF VersionOK
  <1>9. ASSUME ~IsSentinel(parts), parts.local = NoLocal, parts.post = None, parts.dev = None, Set("max", 0, with_max(version, 0))
        PROVE  VersionOK'
    <2> DEFINE d == [parts EXCEPT !.max = 0]
    <2>1. 0 \in {None, 0}
      BY <1>9
    <2>2. IsVersion(with_max(version, 0)) /\ Parts(with_max(version, 0)) = d
      BY <1>0, <2>1, WithMax
    <2>3. d \in PartsType
      BY <1>1, <2>1 DEF PartsType
    <2>4. d.release = c.release /\ d.pre = c.pre /\ d.post = c.post /\ d.dev = c.dev /\ d.min = c.min /\ d.max = 0 /\ d.local = c.local
      BY <1>1 DEF PartsType
    <2> HIDE DEF d
    <2>5. PartsOK(d)
      BY <1>f, <1>t, <1>9, <2>3, <2>4 DEF PartsOK, None, NoPre, NoLocal, LocalMax, IsSentinel
    <2>6. version' = with_max(version, 0) /\ parts' = d
      BY <1>9 DEF Set, d
    <2> QED BY <2>2, <2>5, <2>6 DEF VersionOK
  <1>10. ASSUME ~IsSentinel(parts), Set("local", LocalMax, with_local(version, LocalMax))
        PROVE  VersionOK'
    <2> DEFINE d == [parts EXCEPT !.local = LocalMax]
    <2>1. LocalMax \in Nat \cup {LocalMax}
      BY <1>10
    <2>2. IsVersion(with_local(version, LocalMax)) /\ Parts(with_local(version, LocalMax)) = d
      BY <1>0, <2>1, WithLocal
    <2>3. d \in PartsType
      BY <1>1, <2>1 DEF PartsType
    <2>4. d.release = c.release /\ d.pre = c.pre /\ d.post = c.post /\ d.dev = c.dev /\ d.min = c.min /\ d.max = c.max /\ d.local = LocalMax
      BY <1>1 DEF PartsType
    <2> HIDE DEF d
    <2>5. PartsOK(d)
      BY <1>f, <1>t, <1>10, <2>3, <2>4 DEF PartsOK, None, NoPre, NoLocal, LocalMax, IsSentinel
    <2>6. version' = with_local(version, LocalMax) /\ parts' = d
      BY <1>10 DEF Set, d
    <2> QED BY <2>2, <2>5, <2>6 DEF VersionOK
  <1>11. ASSUME parts.min # None, Set("min", None, with_min(version, None))
        PROVE  VersionOK'
    <2> DEFINE d == [parts EXCEPT !.min = None]
    <2>1. None \in {None, 0}
      BY <1>11
    <2>2. IsVersion(with_min(version, None)) /\ Parts(with_min(version, None)) = d
      BY <1>0, <2>1, WithMin
    <2>3. d \in PartsType
      BY <1>1, <2>1 DEF PartsType
    <2>4. d.release = c.release /\ d.pre = c.pre /\ d.post = c.post /\ d.dev = c.dev /\ d.min = None /\ d.max = c.max /\ d.local = c.local
      BY <1>1 DEF PartsType
    <2> HIDE DEF d
    <2>5. PartsOK(d)
      BY <1>f, <1>t, <1>11, <2>3, <2>4 DEF PartsOK, None, NoPre, NoLocal, LocalMax, IsSentinel
    <2>6. version' = with_min(version, None) /\ parts' = d
      BY <1>11 DEF Set, d
    <2> QED BY <2>2, <2>5, <2>6 DEF VersionOK
  <1>12. ASSUME parts.max # None, Set("max", None, with_max(version, None))
        PROVE  VersionOK'
    <2> DEFINE d == [parts EXCEPT !.max = None]
    <2>1. None \in {None, 0}
      BY <1>12
    <2>2. IsVersion(with_max(version, None)) /\ Parts(with_max(version, None)) = d
      BY <1>0, <2>1, WithMax
    <2>3. d \in PartsType
      BY <1>1, <2>1 DEF PartsType
    <2>4. d.release = c.release /\ d.pre = c.pre /\ d.post = c.post /\ d.dev = c.dev /\ d.min = c.min /\ d.max = None /\ d.local = c.local
      BY <1>1 DEF PartsType
    <2> HIDE DEF d
    <2>5. PartsOK(d)
      BY <1>f, <1>t, <1>12, <2>3, <2>4 DEF PartsOK, None, NoPre, NoLocal, LocalMax, IsSentinel
    <2>6. version' = with_max(version, None) /\ parts' = d
      BY <1>12 DEF Set, d
    <2> QED BY <2>2, <2>5, <2>6 DEF VersionOK
  <1>13. ASSUME parts.local = LocalMax, Set("local", NoLocal, with_local(version, NoLocal))
        PROVE  VersionOK'
    <2> DEFINE d == [parts EXCEPT !.local = NoLocal]
    <2>1. NoLocal \in Nat \cup {LocalMax}
      BY <1>13 DEF NoLocal
    <2>2. IsVersion(with_local(version, NoLocal)) /\ Parts(with_local(version, NoLocal)) = d
      BY <1>0, <2>1, WithLocal
    <2>3. d \in PartsType
      BY <1>1, <2>1 DEF PartsType
    <2>4. d.release = c.release /\ d.pre = c.pre /\ d.post = c.post /\ d.dev = c.dev /\ d.min = c.min /\ d.max = c.max /\ d.local = NoLocal
      BY <1>1 DEF PartsType
    <2> HIDE DEF d
    <2>5. PartsOK(d)
      BY <1>f, <1>t, <1>13, <2>3, <2>4 DEF PartsOK, None, NoPre, NoLocal, LocalMax, IsSentinel
    <2>6. version' = with_local(version, NoLocal) /\ parts' = d
      BY <1>13 DEF Set, d
    <2> QED BY <2>2, <2>5, <2>6 DEF VersionOK
  <1>14. CASE Change
    BY <1>2, <1>3, <1>4, <1>5, <1>6, <1>7, <1>14 DEF Change
  <1>15. CASE Sentinel
    BY <1>8, <1>9, <1>10, <1>15 DEF Sentinel
  <1>16. CASE Unset
    BY <1>11, <1>12, <1>13, <1>16 DEF Unset
  <1> QED BY <1>14, <1>15, <1>16 DEF Next

\* What was set, packed or not, is what is there.
LEMMA VersionInvariant == Spec => []VersionOK
  <1>1. Init => VersionOK
    <2> SUFFICES ASSUME Init PROVE VersionOK
      OBVIOUS
    <2>1. PICK r \in Releases : version = VersionNew(r) /\ parts = NoParts(r)
      BY DEF Init
    <2>2. r \in Seq(Nat) /\ r # <<>>
      BY <2>1, Inputs
    <2> QED BY <2>1, <2>2, NewVersion, NewOK DEF VersionOK
  <1>2. VersionOK /\ [Next]_vars => VersionOK'
    <2>1. ASSUME VersionOK, UNCHANGED vars PROVE VersionOK'
      BY <2>1 DEF VersionOK, vars
    <2> QED BY <2>1, VersionStep
  <1> QED BY <1>1, <1>2, PTL DEF Spec

LEMMA OrderHolds == VersionOK => OrderAgrees
  <1> SUFFICES ASSUME VersionOK PROVE OrderAgrees
    OBVIOUS
  <1>0. IsVersion(version) /\ Parts(version) = parts /\ PartsOK(parts)
    BY DEF VersionOK
  <1>1. ASSUME NEW w \in Candidates
        PROVE  /\ LET n == Longer(parts.release, Parts(w).release) IN
                  Compare(version, w) = Lexicographic(PepKey(parts, n), PepKey(Parts(w), n))
               /\ Compare(version, w) = 0 => HashKey(version) = HashKey(w)
    <2>1. PICK c \in PublicParts : w = Parsed(c)
      BY DEF Candidates
    <2>2. IsVersion(w) /\ Parts(w) = c /\ Public(c)
      BY <2>1, ParsedIs
    <2> DEFINE n == Longer(parts.release, c.release)
    <2>3. Compare(version, w) = Lexicographic(PepKey(parts, n), PepKey(c, n))
      BY <1>0, <2>2, VersionCompare
    <2>4. ASSUME Compare(version, w) = 0
          PROVE  HashKey(version) = HashKey(w)
      <3>1. /\ parts.epoch = c.epoch /\ Trimmed(parts.release) = Trimmed(c.release)
            /\ parts.pre = c.pre /\ parts.post = c.post /\ parts.dev = c.dev /\ parts.local = c.local
        BY ZenonT(60), <1>0, <2>2, <2>3, <2>4, KeyEqual
      <3> QED BY <1>0, <2>2, <3>1 DEF HashKey
    <2> QED BY <2>2, <2>3, <2>4
  <1> QED BY <1>0, <1>1 DEF OrderAgrees

\* Whatever the widths of the fields and whatever is set in whatever order, a
\* version keeps the parts that were set, packed or not, compares with every
\* parsed version as PEP 440 orders them (`Ord for Version`), and has the hash
\* of every version that it equals (`Hash for Version`).
THEOREM VersionsOrder == Spec => []OrderAgrees
  BY VersionInvariant, OrderHolds, PTL
-----------------------------------------------------------------------------
(* Comparisons by epoch, release and suffixes.                             *)

\* Releases with zeros at the end.
Same(r, q) == \A i \in Nat \ {0} : Segment(r, i) = Segment(q, i)

FirstAt(r, q, i) ==
    /\ i \in Nat \ {0} /\ Segment(r, i) # Segment(q, i)
    /\ \A j \in 1..i - 1 : Segment(r, j) = Segment(q, j)

\* Releases compare at the first segment where they differ.
LEMMA SegmentOrder ==
    ASSUME NEW r \in Seq(Nat), NEW q \in Seq(Nat)
    PROVE  \/ Same(r, q) /\ compare_release(r, q) = 0
           \/ \E i \in Nat \ {0} : /\ FirstAt(r, q, i)
                                   /\ compare_release(r, q) = Sign(Segment(r, i) - Segment(q, i))
  <1> DEFINE n == Longer(r, q)
             x == Padded(r, n)
             y == Padded(q, n)
  <1>1. n \in Nat /\ Len(r) <= n /\ Len(q) <= n /\ Len(r) \in Nat /\ Len(q) \in Nat
    <2>1. Len(r) \in Nat /\ Len(q) \in Nat
      OBVIOUS
    <2> QED BY <2>1, LongerIs
  <1>2. /\ x \in Seq(Int) /\ y \in Seq(Int) /\ Len(x) = n /\ Len(y) = n
        /\ \A i \in 1..n : x[i] = Segment(r, i) /\ y[i] = Segment(q, i)
    BY <1>1, PaddedIs
  <1>3. ASSUME NEW i \in Nat \ {0}, i > n
        PROVE  Segment(r, i) = 0 /\ Segment(q, i) = 0
    BY <1>1, <1>3 DEF Segment
  <1>4. compare_release(r, q) = Lexicographic(x, y)
    BY DEF compare_release
  <1> HIDE DEF n, x, y
  <1>5. CASE x = y
    <2>1. compare_release(r, q) = 0
      BY <1>2, <1>4, <1>5, LexZero
    <2>2. Same(r, q)
      <3> SUFFICES ASSUME NEW i \in Nat \ {0} PROVE Segment(r, i) = Segment(q, i)
        BY DEF Same
      <3>1. CASE i <= n
        <4>1. i \in 1..n
          BY <1>1, <3>1
        <4> QED BY <1>2, <1>5, <4>1
      <3>2. CASE i > n
        BY <1>3, <3>2
      <3> QED BY <1>1, <3>1, <3>2
    <2> QED BY <2>1, <2>2
  <1>6. CASE x # y
    <2>0. Len(x) = Len(y) /\ 1..Len(x) = 1..n
      BY <1>2
    <2>1. PICK i \in 1..n : x[i] # y[i] /\ \A j \in 1..n : j < i => x[j] = y[j]
      <3>1. \E i \in 1..Len(x) : x[i] # y[i] /\ \A j \in 1..Len(x) : j < i => x[j] = y[j]
        BY <1>2, <1>6, <2>0, FirstPlace
      <3>2. PICK i \in 1..Len(x) : x[i] # y[i] /\ \A j \in 1..Len(x) : j < i => x[j] = y[j]
        BY <3>1
      <3>3. i \in 1..n /\ \A j \in 1..n : j < i => x[j] = y[j]
        BY <2>0, <3>2
      <3> QED BY <3>2, <3>3
    <2>2. Lexicographic(x, y) = Sign(x[i] - y[i])
      BY <1>2, <2>1, LexFirst
    <2>3. i \in Nat \ {0} /\ Segment(r, i) # Segment(q, i) /\ Sign(x[i] - y[i]) = Sign(Segment(r, i) - Segment(q, i))
      BY <1>1, <1>2, <2>1
    <2>4. \A j \in 1..i - 1 : j \in 1..n /\ j < i
      BY <1>1
    <2>5. \A j \in 1..i - 1 : Segment(r, j) = Segment(q, j)
      BY <1>2, <2>1, <2>4
    <2> QED BY <1>4, <2>2, <2>3, <2>5 DEF FirstAt
  <1> QED BY <1>5, <1>6

\* That place is the only one.
LEMMA CompareAt ==
    ASSUME NEW r \in Seq(Nat), NEW q \in Seq(Nat), NEW i \in Nat \ {0}, FirstAt(r, q, i)
    PROVE  compare_release(r, q) = Sign(Segment(r, i) - Segment(q, i))
  <1>1. ~Same(r, q)
    BY DEF Same, FirstAt
  <1>2. PICK k \in Nat \ {0} : /\ FirstAt(r, q, k)
                               /\ compare_release(r, q) = Sign(Segment(r, k) - Segment(q, k))
    BY <1>1, SegmentOrder
  <1>3. k = i
    <2>1. CASE k < i
      <3>1. k \in 1..i - 1
        BY <2>1
      <3> QED BY <1>2, <3>1 DEF FirstAt
    <2>2. CASE k > i
      <3>1. i \in 1..k - 1
        BY <2>2
      <3> QED BY <1>2, <3>1 DEF FirstAt
    <2> QED BY <2>1, <2>2
  <1> QED BY <1>2, <1>3

\* Where releases are the same, they compare with others alike.
LEMMA CompareSame ==
    ASSUME NEW r \in Seq(Nat), NEW q \in Seq(Nat), NEW s \in Seq(Nat), Same(q, s)
    PROVE  compare_release(r, q) = compare_release(r, s)
  <1>1. CASE Same(r, q)
    <2>1. Same(r, s)
      BY <1>1 DEF Same
    <2>2. compare_release(r, q) = 0
      BY <1>1, SegmentOrder DEF FirstAt, Same
    <2>3. compare_release(r, s) = 0
      BY <2>1, SegmentOrder DEF FirstAt, Same
    <2> QED BY <2>2, <2>3
  <1>2. CASE ~Same(r, q)
    <2>1. PICK i \in Nat \ {0} : /\ FirstAt(r, q, i)
                                 /\ compare_release(r, q) = Sign(Segment(r, i) - Segment(q, i))
      BY <1>2, SegmentOrder
    <2>2. FirstAt(r, s, i) /\ Segment(q, i) = Segment(s, i)
      <3>1. \A j \in 1..i - 1 : j \in Nat \ {0}
        OBVIOUS
      <3> QED BY <2>1, <3>1 DEF FirstAt, Same
    <2>3. compare_release(r, s) = Sign(Segment(r, i) - Segment(s, i))
      BY <2>2, CompareAt
    <2> QED BY <2>1, <2>2, <2>3
  <1> QED BY <1>1, <1>2

LEMMA CompareType ==
    ASSUME NEW r \in Seq(Nat), NEW q \in Seq(Nat)
    PROVE  /\ compare_release(r, q) \in {-1, 0, 1}
           /\ compare_release(r, q) = 0 <=> Same(r, q)
           /\ compare_release(r, r) = 0
           /\ compare_release(q, r) = 0 - compare_release(r, q)
  <1>1. ASSUME NEW i \in Nat \ {0}
        PROVE  Segment(r, i) \in Nat /\ Segment(q, i) \in Nat
    <2>1. 0 \in Nat
      OBVIOUS
    <2> QED BY <2>1, PaddedIs
  <1>2. CASE Same(r, q)
    <2>1. Same(q, r)
      BY <1>2 DEF Same
    <2>2. compare_release(r, q) = 0 /\ compare_release(q, r) = 0
      BY <1>2, <2>1, SegmentOrder DEF FirstAt, Same
    <2>3. compare_release(r, r) = 0
      BY SegmentOrder DEF FirstAt
    <2>4. compare_release(q, r) = 0 - compare_release(r, q) /\ compare_release(r, q) \in {-1, 0, 1}
      BY <2>2
    <2> QED BY <1>2, <2>2, <2>3, <2>4, Zenon
  <1>3. CASE ~Same(r, q)
    <2>1. PICK i \in Nat \ {0} : /\ FirstAt(r, q, i)
                                 /\ compare_release(r, q) = Sign(Segment(r, i) - Segment(q, i))
      BY <1>3, SegmentOrder
    <2>2. FirstAt(q, r, i)
      BY <2>1 DEF FirstAt
    <2>3. compare_release(q, r) = Sign(Segment(q, i) - Segment(r, i))
      BY <2>2, CompareAt
    <2>4. compare_release(r, r) = 0
      BY SegmentOrder DEF FirstAt
    <2>5. Segment(r, i) \in Nat /\ Segment(q, i) \in Nat /\ Segment(r, i) # Segment(q, i)
      BY <1>1, <2>1 DEF FirstAt
    <2>6. /\ Sign(Segment(r, i) - Segment(q, i)) \in {-1, 1}
          /\ Sign(Segment(q, i) - Segment(r, i)) = 0 - Sign(Segment(r, i) - Segment(q, i))
      BY <2>5 DEF Sign
    <2>7. compare_release(r, q) \in {-1, 1} /\ compare_release(q, r) = 0 - compare_release(r, q)
      BY <2>1, <2>3, <2>6
    <2>8. compare_release(r, q) \in {-1, 0, 1} /\ compare_release(r, q) # 0
      BY <2>7
    <2> QED BY <1>3, <2>4, <2>7, <2>8, Zenon
  <1> QED BY <1>2, <1>3, Zenon

\* A version compares by epoch, then by release, then by what follows.
LEMMA CompareIs ==
    ASSUME NEW v, IsVersion(v), PartsOK(Parts(v)), NEW w, IsVersion(w), Public(Parts(w))
    PROVE  Compare(v, w) =
             Then(Sign(Parts(v).epoch - Parts(w).epoch),
                  Then(compare_release(Parts(v).release, Parts(w).release),
                       Lexicographic(PepTail(Parts(v)), PepTail(Parts(w)))))
  <1> DEFINE c == Parts(v)
             d == Parts(w)
             n == Longer(c.release, d.release)
  <1>1. PartsOK(d)
    BY DEF Public
  <1>2. c.release \in Seq(Nat) /\ d.release \in Seq(Nat) /\ c.epoch \in Nat /\ d.epoch \in Nat
    BY <1>1, PartsOKFields
  <1>3. n \in Nat
    BY <1>2, LongerIs
  <1>4. Compare(v, w) = Lexicographic(PepKey(c, n), PepKey(d, n))
    BY VersionCompare
  <1>5. compare_release(c.release, d.release) = Lexicographic(Padded(c.release, n), Padded(d.release, n))
    BY DEF compare_release
  <1> HIDE DEF c, d, n
  <1>6. /\ Lexicographic(PepKey(c, n), PepKey(d, n)) =
             IF c.epoch # d.epoch THEN Sign(c.epoch - d.epoch)
             ELSE IF Padded(c.release, n) # Padded(d.release, n)
               THEN Lexicographic(Padded(c.release, n), Padded(d.release, n))
               ELSE Lexicographic(PepTail(c), PepTail(d))
        /\ Lexicographic(Padded(c.release, n), Padded(d.release, n)) = 0
             <=> Padded(c.release, n) = Padded(d.release, n)
    <2>1. PartsOK(c)
      BY DEF c
    <2> QED BY <1>1, <1>3, <2>1, KeyCompare
  <1>7. Sign(c.epoch - d.epoch) = 0 <=> c.epoch = d.epoch
    BY <1>2 DEF Sign
  <1>8. Compare(v, w) = Then(Sign(c.epoch - d.epoch),
                             Then(compare_release(c.release, d.release),
                                  Lexicographic(PepTail(c), PepTail(d))))
    BY <1>4, <1>5, <1>6, <1>7 DEF Then
  <1> QED BY <1>8 DEF c, d

\* A version that is a release and nothing else.
PlainVersion(v, r) == IsVersion(v) /\ Parts(v) = NoParts(r) /\ r \in Seq(Nat) /\ r # <<>>

LEMMA PlainCompare ==
    ASSUME NEW v, NEW r, PlainVersion(v, r), NEW w, NEW q, PlainVersion(w, q)
    PROVE  Compare(v, w) = compare_release(r, q)
  <1>1. PartsOK(NoParts(r)) /\ PartsOK(NoParts(q))
    BY NewOK DEF PlainVersion
  <1>2. Public(NoParts(q))
    BY <1>1 DEF Public, NoParts, NoLocal, LocalMax
  <1>3. /\ NoParts(r).epoch = 0 /\ NoParts(q).epoch = 0
        /\ NoParts(r).release = r /\ NoParts(q).release = q
    BY DEF NoParts
  <1>4. PepTail(NoParts(r)) = PepTail(NoParts(q))
    BY DEF PepTail, NoParts
  <1>5. Lexicographic(PepTail(NoParts(r)), PepTail(NoParts(q))) = 0
    BY <1>4 DEF Lexicographic
  <1>6. Compare(v, w) = Then(Sign(NoParts(r).epoch - NoParts(q).epoch),
                             Then(compare_release(NoParts(r).release, NoParts(q).release),
                                  Lexicographic(PepTail(NoParts(r)), PepTail(NoParts(q)))))
    <2>1. IsVersion(v) /\ IsVersion(w) /\ Parts(v) = NoParts(r) /\ Parts(w) = NoParts(q)
      BY DEF PlainVersion
    <2> QED BY <1>1, <1>2, <2>1, CompareIs
  <1>7. Sign(0 - 0) = 0
    BY DEF Sign
  <1> QED BY <1>3, <1>5, <1>6, <1>7 DEF Then

LEMMA SegmentNat ==
    ASSUME NEW r \in Seq(Nat), NEW i \in Nat \ {0}
    PROVE  Segment(r, i) \in Nat /\ (i > Len(r) => Segment(r, i) = 0)
  <1>1. Segment(r, i) \in Nat
    <2>1. 0 \in Nat
      OBVIOUS
    <2> QED BY <2>1, PaddedIs
  <1>2. i > Len(r) => Segment(r, i) = 0
    <2>1. Len(r) \in Nat
      OBVIOUS
    <2> QED BY <2>1 DEF Segment
  <1> QED BY <1>1, <1>2

\* A release with its last segment one higher.
LEMMA BumpedIs ==
    ASSUME NEW r \in Seq(Nat), r # <<>>
    PROVE  /\ Bumped(r) \in Seq(Nat) /\ Bumped(r) # <<>> /\ Len(r) \in Nat \ {0}
           /\ Segment(Bumped(r), Len(r)) = Segment(r, Len(r)) + 1
           /\ \A i \in Nat \ {0} : i # Len(r) => Segment(Bumped(r), i) = Segment(r, i)
  <1> DEFINE l == Len(r)
             b == Bumped(r)
  <1>1. l \in Nat \ {0} /\ r[l] \in Nat /\ l \in 1..Len(r)
    <2>1. Len(r) \in Nat /\ Len(r) # 0
      BY EmptySeq
    <2>2. l \in 1..Len(r)
      BY <2>1
    <2> QED BY <2>1, <2>2, ElementOfSeq
  <1>2. b = [r EXCEPT ![l] = r[l] + 1]
    BY DEF Bumped
  <1>3. b \in Seq(Nat) /\ Len(b) = l /\ b[l] = r[l] + 1 /\ \A i \in 1..l : i # l => b[i] = r[i]
    <2>1. r[l] + 1 \in Nat
      BY <1>1
    <2> QED BY <1>1, <1>2, <2>1, ExceptSeq
  <1>4. b # <<>>
    BY <1>1, <1>3
  <1> HIDE DEF b
  <1>5. Segment(b, l) = Segment(r, l) + 1
    BY <1>1, <1>3 DEF Segment
  <1>6. ASSUME NEW i \in Nat \ {0}, i # l
        PROVE  Segment(b, i) = Segment(r, i)
    BY <1>1, <1>3, <1>6 DEF Segment
  <1> QED BY <1>1, <1>3, <1>4, <1>5, <1>6 DEF b

\* The releases that begin with s are those from s on, below s with its last
\* segment one higher.
LEMMA StarOrder ==
    ASSUME NEW s \in Seq(Nat), s # <<>>, NEW r \in Seq(Nat)
    PROVE  Prefix(s, r) <=> compare_release(r, s) >= 0 /\ compare_release(r, Bumped(s)) < 0
  <1> DEFINE b == Bumped(s)
             l == Len(s)
  <1>1. /\ b \in Seq(Nat) /\ l \in Nat \ {0} /\ Segment(b, l) = Segment(s, l) + 1
        /\ \A i \in Nat \ {0} : i # l => Segment(b, i) = Segment(s, i)
    BY BumpedIs
  <1>2. \A i \in Nat \ {0} : /\ Segment(s, i) \in Nat /\ Segment(r, i) \in Nat
                             /\ i > l => Segment(s, i) = 0
    BY SegmentNat
  <1>3. Prefix(s, r) <=> \A i \in 1..l : Segment(s, i) = Segment(r, i)
    BY DEF Prefix, Segment
  <1> HIDE DEF b, l
  <1>4. ASSUME Prefix(s, r)
        PROVE  compare_release(r, s) >= 0 /\ compare_release(r, b) < 0
    <2>1. \A i \in 1..l : Segment(s, i) = Segment(r, i)
      BY <1>3, <1>4
    <2>2. compare_release(r, s) >= 0
      <3>1. CASE Same(r, s)
        <4>1. compare_release(r, s) = 0
          BY <3>1, CompareType
        <4> QED BY <4>1
      <3>2. CASE ~Same(r, s)
        <4>1. PICK i \in Nat \ {0} : /\ FirstAt(r, s, i)
                                     /\ compare_release(r, s) = Sign(Segment(r, i) - Segment(s, i))
          BY <3>2, SegmentOrder
        <4>2. Segment(r, i) # Segment(s, i)
          BY <4>1 DEF FirstAt
        <4>3. i > l
          BY <1>1, <2>1, <4>1, <4>2
        <4>4. Segment(s, i) = 0 /\ Segment(r, i) \in Nat
          BY <1>2, <4>3
        <4> QED BY <4>1, <4>4 DEF Sign
      <3> QED BY <3>1, <3>2
    <2>3. FirstAt(r, b, l)
      <3>1. Segment(r, l) = Segment(s, l) /\ Segment(s, l) \in Nat
        BY <1>1, <1>2, <2>1
      <3>2. \A j \in 1..l - 1 : j \in 1..l /\ j \in Nat \ {0} /\ j # l
        BY <1>1
      <3>3. \A j \in 1..l - 1 : Segment(r, j) = Segment(b, j)
        BY <1>1, <2>1, <3>2
      <3> QED BY <1>1, <3>1, <3>3 DEF FirstAt
    <2>4. compare_release(r, b) = Sign(Segment(r, l) - Segment(b, l))
      BY <1>1, <2>3, CompareAt
    <2>5. Segment(r, l) = Segment(s, l) /\ Segment(s, l) \in Nat
      BY <1>1, <1>2, <2>1
    <2>6. compare_release(r, b) < 0
      BY <1>1, <2>4, <2>5 DEF Sign
    <2> QED BY <2>2, <2>6
  <1>5. ASSUME compare_release(r, s) >= 0, compare_release(r, b) < 0, ~Prefix(s, r)
        PROVE  FALSE
    <2>1. PICK k \in 1..l : Segment(s, k) # Segment(r, k)
      BY <1>3, <1>5
    <2>2. ~Same(r, s)
      BY <1>1, <2>1 DEF Same
    <2>3. PICK i \in Nat \ {0} : /\ FirstAt(r, s, i)
                                 /\ compare_release(r, s) = Sign(Segment(r, i) - Segment(s, i))
      BY <2>2, SegmentOrder
    <2>4. i <= k /\ i <= l
      <3>1. CASE k < i
        <4>1. k \in 1..i - 1
          BY <1>1, <3>1
        <4> QED BY <2>1, <2>3, <4>1 DEF FirstAt
      <3> QED BY <1>1, <3>1
    <2>5. /\ Segment(r, i) > Segment(s, i) /\ Segment(r, i) \in Nat /\ Segment(s, i) \in Nat
          /\ \A j \in 1..i - 1 : Segment(r, j) = Segment(s, j)
      <3>1. Segment(r, i) # Segment(s, i) /\ Segment(r, i) \in Nat /\ Segment(s, i) \in Nat
        BY <1>2, <2>3 DEF FirstAt
      <3>2. Segment(r, i) > Segment(s, i)
        BY <1>5, <2>3, <3>1 DEF Sign
      <3> QED BY <2>3, <3>1, <3>2 DEF FirstAt
    <2>6. \A j \in 1..i - 1 : Segment(r, j) = Segment(b, j)
      <3>1. \A j \in 1..i - 1 : j \in Nat \ {0} /\ j # l
        BY <1>1, <2>4
      <3> QED BY <1>1, <2>5, <3>1
    <2>7. CASE i < l
      <3>1. Segment(b, i) = Segment(s, i)
        BY <1>1, <2>7
      <3>2. FirstAt(r, b, i)
        BY <2>5, <2>6, <3>1 DEF FirstAt
      <3>3. compare_release(r, b) = Sign(Segment(r, i) - Segment(b, i))
        BY <1>1, <3>2, CompareAt
      <3> QED BY <1>5, <2>5, <3>1, <3>3 DEF Sign
    <2>8. CASE i = l
      <3>1. Segment(b, i) = Segment(s, i) + 1
        BY <1>1, <2>8
      <3>2. CASE Segment(r, i) # Segment(b, i)
        <4>1. FirstAt(r, b, i)
          BY <2>5, <2>6, <3>2 DEF FirstAt
        <4>2. compare_release(r, b) = Sign(Segment(r, i) - Segment(b, i))
          BY <1>1, <4>1, CompareAt
        <4> QED BY <1>5, <2>5, <3>1, <3>2, <4>2 DEF Sign
      <3>3. CASE Segment(r, i) = Segment(b, i)
        <4>1. CASE Same(r, b)
          <5>1. compare_release(r, b) = 0
            BY <1>1, <4>1, CompareType
          <5> QED BY <1>5, <5>1
        <4>2. CASE ~Same(r, b)
          <5>1. PICK m \in Nat \ {0} : /\ FirstAt(r, b, m)
                                       /\ compare_release(r, b) = Sign(Segment(r, m) - Segment(b, m))
            BY <1>1, <4>2, SegmentOrder
          <5>2. Segment(r, m) # Segment(b, m)
            BY <5>1 DEF FirstAt
          <5>3. m > l
            <6>1. CASE m < i
              <7>1. m \in 1..i - 1
                BY <6>1
              <7> QED BY <2>6, <5>2, <7>1
            <6>2. CASE m = i
              BY <3>3, <5>2, <6>2
            <6> QED BY <1>1, <2>8, <6>1, <6>2
          <5>4. Segment(b, m) = 0 /\ Segment(r, m) \in Nat
            BY <1>1, <1>2, <5>3
          <5> QED BY <1>5, <5>1, <5>4 DEF Sign
        <4> QED BY <4>1, <4>2
      <3> QED BY <3>2, <3>3
    <2> QED BY <1>1, <2>4, <2>7, <2>8
  <1>6. Prefix(s, r) <=> compare_release(r, s) >= 0 /\ compare_release(r, b) < 0
    BY <1>4, <1>5
  <1> QED BY <1>6 DEF b

\* Above a release, what goes on with all of its segments but the last is what is
\* below those with the last of them one higher.
LEMMA TildeOrder ==
    ASSUME NEW s \in Seq(Nat), Len(s) >= 2, NEW r \in Seq(Nat), compare_release(r, s) >= 0
    PROVE  LET p == SubSeq(s, 1, Len(s) - 1) IN
           /\ p \in Seq(Nat) /\ p # <<>>
           /\ PrefixSoFar(p, r) <=> compare_release(r, Bumped(p)) < 0
  <1> DEFINE l == Len(s) - 1
             p == SubSeq(s, 1, l)
  <1>1. Len(s) \in Nat /\ l \in Nat \ {0} /\ l <= Len(s)
    <2>1. Len(s) \in Nat
      OBVIOUS
    <2>2. l = Len(s) - 1 /\ l \in Int /\ l >= 1
      BY <2>1
    <2> HIDE DEF l
    <2> QED BY <2>1, <2>2
  <1>2. p \in Seq(Nat) /\ Len(p) = l /\ \A i \in 1..l : p[i] = s[i]
    <2> HIDE DEF l
    <2> QED BY <1>1
  <1>3. p # <<>>
    BY <1>1, <1>2
  <1> HIDE DEF l, p
  <1>4. /\ \A i \in Nat \ {0} : i <= l => Segment(p, i) = Segment(s, i)
        /\ \A i \in Nat \ {0} : i > l => Segment(p, i) = 0
    BY <1>1, <1>2 DEF Segment
  <1>5. \A i \in Nat \ {0} : /\ Segment(p, i) \in Nat /\ Segment(s, i) \in Nat /\ Segment(r, i) \in Nat
                             /\ i > Len(r) => Segment(r, i) = 0
    BY <1>2, SegmentNat
  <1>6. compare_release(r, p) >= 0
    <2>1. CASE Same(r, p)
      <3>1. compare_release(r, p) = 0
        BY <1>2, <2>1, CompareType
      <3> QED BY <3>1
    <2>2. CASE ~Same(r, p)
      <3>1. PICK i \in Nat \ {0} : /\ FirstAt(r, p, i)
                                   /\ compare_release(r, p) = Sign(Segment(r, i) - Segment(p, i))
        BY <1>2, <2>2, SegmentOrder
      <3>2. CASE i > l
        BY <1>4, <1>5, <3>1, <3>2 DEF Sign
      <3>3. CASE i <= l
        <4>1. Segment(p, i) = Segment(s, i)
          BY <1>4, <3>3
        <4>2. \A j \in 1..i - 1 : Segment(r, j) = Segment(s, j)
          <5>1. \A j \in 1..i - 1 : j \in Nat \ {0} /\ j <= l
            BY <1>1, <3>3
          <5> QED BY <1>4, <3>1, <5>1 DEF FirstAt
        <4>3. FirstAt(r, s, i)
          BY <3>1, <4>1, <4>2 DEF FirstAt
        <4>4. compare_release(r, s) = Sign(Segment(r, i) - Segment(s, i))
          BY <4>3, CompareAt
        <4> QED BY <3>1, <4>1, <4>4
      <3> QED BY <1>1, <3>2, <3>3
    <2> QED BY <2>1, <2>2
  <1>7. PrefixSoFar(p, r) <=> Prefix(p, r)
    <2>1. ASSUME Prefix(p, r) PROVE PrefixSoFar(p, r)
      BY <2>1 DEF Prefix, PrefixSoFar
    <2>2. ASSUME PrefixSoFar(p, r), ~Prefix(p, r) PROVE FALSE
      <3>0. Len(r) \in Nat
        OBVIOUS
      <3>1. PICK k \in 1..l : Segment(p, k) # Segment(r, k)
        BY <1>2, <2>2 DEF Prefix, Segment
      <3>2. ~Same(r, p)
        BY <1>1, <3>1 DEF Same
      <3>3. PICK i \in Nat \ {0} : /\ FirstAt(r, p, i)
                                   /\ compare_release(r, p) = Sign(Segment(r, i) - Segment(p, i))
        BY <1>2, <3>2, SegmentOrder
      <3>4. i <= k /\ i \in 1..l
        <4>1. CASE k < i
          <5>1. k \in 1..i - 1
            BY <1>1, <4>1
          <5> QED BY <3>1, <3>3, <5>1 DEF FirstAt
        <4> QED BY <1>1, <4>1
      <3>5. Segment(r, i) # Segment(p, i)
        BY <3>3 DEF FirstAt
      <3>6. i > Len(r)
        <4>1. CASE i <= Len(r)
          <5>1. p[i] = r[i]
            BY <1>2, <2>2, <3>4, <4>1 DEF PrefixSoFar
          <5>2. Segment(r, i) = Segment(p, i)
            BY <1>1, <1>2, <3>4, <4>1, <5>1 DEF Segment
          <5> QED BY <3>5, <5>2
        <4> QED BY <3>0, <4>1
      <3>7. Segment(r, i) = 0 /\ Segment(p, i) \in Nat
        BY <1>5, <3>6
      <3> QED BY <1>6, <3>3, <3>5, <3>7 DEF Sign
    <2> QED BY <2>1, <2>2
  <1>8. Prefix(p, r) <=> compare_release(r, p) >= 0 /\ compare_release(r, Bumped(p)) < 0
    BY <1>2, <1>3, StarOrder
  <1>9. PrefixSoFar(p, r) <=> compare_release(r, Bumped(p)) < 0
    BY <1>6, <1>7, <1>8
  <1> QED BY <1>2, <1>3, <1>9 DEF p, l

\* Without zeros at the end, a release is the same.
LEMMA TrimmedSame ==
    ASSUME NEW r \in Seq(Nat)
    PROVE  LET t == IF Trimmed(r) = <<>> THEN <<0>> ELSE Trimmed(r) IN
           t \in Seq(Nat) /\ t # <<>> /\ Same(r, t)
  <1> DEFINE R == {i \in 1..Len(r) : r[i] # 0}
             m == IF R = {} THEN 0 ELSE CHOOSE i \in R : \A j \in R : j <= i
             t == SubSeq(r, 1, m)
  <1>0. Len(r) \in Nat
    OBVIOUS
  <1>1. Trimmed(r) = t
    BY DEF Trimmed
  <1>2. m \in Nat /\ m <= Len(r) /\ \A j \in R : j <= m
    <2>1. CASE R = {}
      BY <1>0, <2>1
    <2>2. CASE R # {}
      <3>1. R \in SUBSET (1..Len(r))
        OBVIOUS
      <3>2. \E i \in R : \A k \in R : k <= i
        <4> HIDE DEF R
        <4> QED BY <1>0, <2>2, <3>1, Greatest
      <3>3. m \in R /\ \A j \in R : j <= m
        <4> HIDE DEF R
        <4> QED BY <2>2, <3>2
      <3>4. m \in 1..Len(r)
        <4> HIDE DEF m
        <4> QED BY <3>3
      <3> HIDE DEF m, R
      <3> QED BY <1>0, <3>3, <3>4
    <2> QED BY <2>1, <2>2
  <1>3. \A i \in 1..Len(r) : i > m => r[i] = 0
    <2> HIDE DEF m
    <2> TAKE i \in 1..Len(r)
    <2>1. CASE r[i] # 0
      <3>1. i \in R
        BY <2>1
      <3> QED BY <1>0, <1>2, <3>1
    <2> QED BY <2>1
  <1> HIDE DEF R, m
  <1>4. t \in Seq(Nat) /\ Len(t) = m /\ \A i \in 1..m : t[i] = r[i]
    BY <1>0, <1>2
  <1> HIDE DEF t
  <1>5. Same(r, t)
    <2> SUFFICES ASSUME NEW i \in Nat \ {0} PROVE Segment(r, i) = Segment(t, i)
      BY DEF Same
    <2> QED BY <1>0, <1>2, <1>3, <1>4 DEF Segment
  <1>6. CASE t = <<>>
    <2>1. <<0>> \in Seq(Nat) /\ Len(<<0>>) = 1 /\ <<0>>[1] = 0 /\ Len(<<>>) = 0 /\ <<0>> # <<>>
      OBVIOUS
    <2>2. \A i \in Nat \ {0} : Segment(<<>>, i) = Segment(<<0>>, i)
      BY <2>1 DEF Segment
    <2>3. Same(r, <<0>>)
      BY <1>5, <1>6, <2>2 DEF Same
    <2> QED BY <1>1, <1>6, <2>1, <2>3
  <1>7. CASE t # <<>>
    BY <1>1, <1>4, <1>5, <1>7
  <1> QED BY <1>6, <1>7
-----------------------------------------------------------------------------
(* Ranges.                                                                 *)

\* What is between bounds, and what is not.
LEMMA InBetween ==
    ASSUME NEW l, NEW u, NEW v
    PROVE  InRange(Between(l, u), v) <=> AboveLower(l, v) /\ BelowUpper(u, v)
  BY DEF InRange, Between

LEMMA Above ==
    ASSUME NEW b, NEW v
    PROVE  /\ AboveLower(Unbounded, v)
           /\ AboveLower(Included(b), v) <=> Compare(v, b) >= 0
           /\ AboveLower(Excluded(b), v) <=> Compare(v, b) > 0
  BY DEF AboveLower, Unbounded, Included, Excluded

LEMMA BelowIs ==
    ASSUME NEW b, NEW v
    PROVE  /\ BelowUpper(Unbounded, v)
           /\ BelowUpper(Included(b), v) <=> Compare(v, b) <= 0
           /\ BelowUpper(Excluded(b), v) <=> Compare(v, b) < 0
  BY DEF BelowUpper, Unbounded, Included, Excluded

LEMMA BoundsDiffer ==
    ASSUME NEW b
    PROVE  /\ Included(b) # Unbounded /\ Excluded(b) # Unbounded
           /\ Flip(Included(b)) = Excluded(b) /\ Flip(Excluded(b)) = Included(b)
  <1>1. Included(b)[1] = "included" /\ Excluded(b)[1] = "excluded" /\ Unbounded[1] = "unbounded"
        /\ Included(b)[2] = b /\ Excluded(b)[2] = b
    BY DEF Included, Excluded, Unbounded
  <1> QED BY <1>1 DEF Flip

LEMMA ComplementIs ==
    ASSUME NEW l, NEW u, l # Unbounded, u # Unbounded
    PROVE  Complement(Between(l, u)) = Between(Unbounded, Flip(l)) \cup Between(Flip(u), Unbounded)
  <1> DEFINE i == [lower |-> l, upper |-> u]
  <1>1. (CHOOSE j \in Between(l, u) : TRUE) = i
    BY DEF Between
  <1>2. i.lower = l /\ i.upper = u
    OBVIOUS
  <1> HIDE DEF i
  <1> QED BY <1>1, <1>2 DEF Complement

LEMMA InUnion ==
    ASSUME NEW A, NEW B, NEW v
    PROVE  InRange(A \cup B, v) <=> InRange(A, v) \/ InRange(B, v)
  BY DEF InRange

\* The complement of what is between two bounds.
LEMMA InComplement ==
    ASSUME NEW a, NEW b, NEW v
    PROVE  /\ InRange(Complement(Between(Included(a), Included(b))), v) <=>
                Compare(v, a) < 0 \/ Compare(v, b) > 0
           /\ InRange(Complement(Between(Included(a), Excluded(b))), v) <=>
                Compare(v, a) < 0 \/ Compare(v, b) >= 0
  <1>1. /\ Complement(Between(Included(a), Included(b))) =
             Between(Unbounded, Excluded(a)) \cup Between(Excluded(b), Unbounded)
        /\ Complement(Between(Included(a), Excluded(b))) =
             Between(Unbounded, Excluded(a)) \cup Between(Included(b), Unbounded)
    BY BoundsDiffer, ComplementIs
  <1>2. /\ InRange(Between(Unbounded, Excluded(a)), v) <=> Compare(v, a) < 0
        /\ InRange(Between(Excluded(b), Unbounded), v) <=> Compare(v, b) > 0
        /\ InRange(Between(Included(b), Unbounded), v) <=> Compare(v, b) >= 0
    BY InBetween, Above, BelowIs
  <1> QED BY <1>1, <1>2, InUnion

\* Plain versions.
LEMMA PlainNew ==
    ASSUME NEW r \in Seq(Nat), r # <<>>
    PROVE  PlainVersion(VersionNew(r), r)
  BY NewVersion DEF PlainVersion

LEMMA NoPartsFields ==
    ASSUME NEW r
    PROVE  /\ NoParts(r).epoch = 0 /\ NoParts(r).release = r /\ NoParts(r).pre = NoPre
           /\ NoParts(r).post = None /\ NoParts(r).dev = None
           /\ NoParts(r).min = None /\ NoParts(r).max = None /\ NoParts(r).local = NoLocal
  BY DEF NoParts

LEMMA NoPartsType ==
    ASSUME NEW r \in Seq(Nat)
    PROVE  NoParts(r) \in PartsType
  BY DEF NoParts, PartsType, None, NoPre, NoLocal, LocalMax

LEMMA PlainLocal ==
    ASSUME NEW v, NEW r, PlainVersion(v, r)
    PROVE  PlainVersion(with_local(v, NoLocal), r)
  <1>1. NoLocal \in Nat \cup {LocalMax}
    BY DEF NoLocal
  <1>2. IsVersion(v) /\ Parts(v) = NoParts(r)
    BY DEF PlainVersion
  <1>3. IsVersion(with_local(v, NoLocal)) /\ Parts(with_local(v, NoLocal)) = [NoParts(r) EXCEPT !.local = NoLocal]
    BY <1>1, <1>2, WithLocal
  <1>4. [NoParts(r) EXCEPT !.local = NoLocal] = NoParts(r)
    <2> DEFINE c == [NoParts(r) EXCEPT !.local = NoLocal]
    <2>1. NoParts(r) \in PartsType /\ NoParts(r) \in PartsType
      BY NoPartsType DEF PlainVersion
    <2>2. c \in PartsType
      BY <2>1, <1>1 DEF PartsType
    <2>3. /\ c.epoch = 0 /\ c.release = r /\ c.pre = NoPre /\ c.post = None /\ c.dev = None
          /\ c.min = None /\ c.max = None /\ c.local = NoLocal
      BY <2>1, NoPartsFields DEF PartsType
    <2> HIDE DEF c
    <2>4. c = NoParts(r)
      BY <2>1, <2>2, <2>3, NoPartsFields, PartsEqual
    <2> QED BY <2>4 DEF c
  <1> QED BY <1>3, <1>4 DEF PlainVersion

LEMMA PlainRelease ==
    ASSUME NEW v, NEW r, PlainVersion(v, r), NEW q \in Seq(Nat), q # <<>>
    PROVE  PlainVersion(with_release(v, q), q)
  <1>1. IsVersion(v) /\ Parts(v) = NoParts(r)
    BY DEF PlainVersion
  <1>2. IsVersion(with_release(v, q)) /\ Parts(with_release(v, q)) = [NoParts(r) EXCEPT !.release = q]
    BY <1>1, WithRelease
  <1>3. [NoParts(r) EXCEPT !.release = q] = NoParts(q)
    <2> DEFINE c == [NoParts(r) EXCEPT !.release = q]
    <2>1. NoParts(r) \in PartsType /\ NoParts(q) \in PartsType
      BY NoPartsType DEF PlainVersion
    <2>2. c \in PartsType
      BY <2>1 DEF PartsType
    <2>3. /\ c.epoch = 0 /\ c.release = q /\ c.pre = NoPre /\ c.post = None /\ c.dev = None
          /\ c.min = None /\ c.max = None /\ c.local = NoLocal
      BY <2>1, NoPartsFields DEF PartsType
    <2> HIDE DEF c
    <2>4. c = NoParts(q)
      BY <2>1, <2>2, <2>3, NoPartsFields, PartsEqual
    <2> QED BY <2>4 DEF c
  <1> QED BY <1>2, <1>3 DEF PlainVersion

\* What `contains` asks of a plain version of a specifier with one.
LEMMA PlainContains ==
    ASSUME NEW v, NEW s, PlainVersion(v, s), NEW w, NEW r, PlainVersion(w, r), NEW op
    PROVE  LET c == compare_release(r, s) IN
           /\ op = "==" => (contains(op, v, w) <=> c = 0)
           /\ op = "!=" => (contains(op, v, w) <=> c # 0)
           /\ op = "==*" => (contains(op, v, w) <=> Prefix(s, r))
           /\ op = "!=*" => (contains(op, v, w) <=> ~Prefix(s, r))
           /\ op = "~=" => (contains(op, v, w) <=>
                              PrefixSoFar(SubSeq(s, 1, Len(s) - 1), r) /\ c >= 0)
           /\ op = ">" => (contains(op, v, w) <=> c > 0)
           /\ op = ">=" => (contains(op, v, w) <=> c >= 0)
           /\ op = "<" => (contains(op, v, w) <=> c < 0)
           /\ op = "<=" => (contains(op, v, w) <=> c <= 0)
  <1> DEFINE c == compare_release(r, s)
             other == with_local(w, NoLocal)
             t == Parts(v)
             o == Parts(other)
  <1>1. PlainVersion(other, r)
    BY PlainLocal
  <1>2. /\ t = NoParts(s) /\ o = NoParts(r) /\ r \in Seq(Nat) /\ s \in Seq(Nat)
    BY <1>1 DEF PlainVersion
  <1>3. Compare(other, v) = c
    BY <1>1, PlainCompare
  <1>4. /\ t.epoch = 0 /\ t.release = s /\ t.post = None /\ t.local = NoLocal
        /\ o.epoch = 0 /\ o.release = r /\ o.post = None /\ o.local = NoLocal
    BY <1>2, NoPartsFields
  <1>5. ~any_prerelease(t) /\ ~any_prerelease(o)
    BY <1>2, NoPartsFields DEF any_prerelease
  <1>6. (IF Parts(v).local = NoLocal THEN with_local(w, NoLocal) ELSE w) = other
    BY <1>4
  <1> HIDE DEF t, o, c, other
  <1>7. op = "==" => (contains(op, v, w) <=> c = 0)
    BY <1>3, <1>6 DEF contains
  <1>8. op = "!=" => (contains(op, v, w) <=> c # 0)
    BY <1>3, <1>6 DEF contains
  <1>9. op = "==*" => (contains(op, v, w) <=> Prefix(s, r))
    BY <1>4, <1>6 DEF contains, t, o
  <1>10. op = "!=*" => (contains(op, v, w) <=> ~Prefix(s, r))
    BY <1>4, <1>6 DEF contains, t, o
  <1>11. op = "~=" => (contains(op, v, w) <=> PrefixSoFar(SubSeq(s, 1, Len(s) - 1), r) /\ c >= 0)
    BY <1>3, <1>4, <1>6 DEF contains, t, o
  <1>12. op = ">" => (contains(op, v, w) <=> c > 0)
    <2>1. op = ">" => (contains(op, v, w) <=>
                         \/ o.epoch > t.epoch
                         \/ /\ compare_release(t.release, o.release) = 0 =>
                                 ~(t.post = None /\ o.post # None) /\ o.local = NoLocal
                            /\ Compare(other, v) > 0)
      BY <1>6 DEF contains, t, o
    <2> QED BY <1>3, <1>4, <2>1
  <1>13. op = ">=" => (contains(op, v, w) <=> c >= 0)
    BY <1>3, <1>6 DEF contains
  <1>14. op = "<" => (contains(op, v, w) <=> c < 0)
    <2>1. op = "<" => (contains(op, v, w) <=>
                         \/ o.epoch < t.epoch
                         \/ /\ ~(~any_prerelease(t) /\ any_prerelease(o)
                                 /\ Compare(other, with_dev(v, 0)) >= 0)
                            /\ Compare(other, v) < 0)
      BY <1>6 DEF contains, t, o
    <2> QED BY <1>3, <1>4, <1>5, <2>1
  <1>15. op = "<=" => (contains(op, v, w) <=> c <= 0)
    BY <1>3, <1>6 DEF contains
  <1> QED BY <1>7, <1>8, <1>9, <1>10, <1>11, <1>12, <1>13, <1>14, <1>15 DEF c

\* What the release-only range holds.
LEMMA PlainRange ==
    ASSUME NEW v, NEW s, PlainVersion(v, s), NEW w, NEW r, PlainVersion(w, r), NEW op, NEW trim \in BOOLEAN,
           op = "~=" => Len(s) >= 2
    PROVE  LET c == compare_release(r, s)
               In == InRange(ReleaseRange(op, v, trim), w)
               p == SubSeq(s, 1, Len(s) - 1)
           IN
           /\ op = "==" => (In <=> c = 0)
           /\ op = "!=" => (In <=> c # 0)
           /\ op = "==*" => (In <=> c >= 0 /\ compare_release(r, Bumped(s)) < 0)
           /\ op = "!=*" => (In <=> c < 0 \/ compare_release(r, Bumped(s)) >= 0)
           /\ op = "~=" => (In <=> c >= 0 /\ compare_release(r, Bumped(p)) < 0)
           /\ op = ">" => (In <=> c > 0)
           /\ op = ">=" => (In <=> c >= 0)
           /\ op = "<" => (In <=> c < 0)
           /\ op = "<=" => (In <=> c <= 0)
  <1> DEFINE c == compare_release(r, s)
             q == IF Trimmed(s) = <<>> THEN <<0>> ELSE Trimmed(s)
             rr == IF trim THEN only_release_trimmed(v) ELSE only_release(v)
             p == SubSeq(s, 1, Len(s) - 1)
             up == VersionNew(Bumped(p))
             star == with_release(only_release(v), Bumped(s))
             range == ReleaseRange(op, v, trim)
  <1>1. Parts(v) = NoParts(s) /\ s \in Seq(Nat) /\ s # <<>> /\ r \in Seq(Nat) /\ r # <<>> /\ Parts(v).release = s
    BY NoPartsFields DEF PlainVersion
  <1>2. q \in Seq(Nat) /\ q # <<>> /\ Same(s, q)
    BY <1>1, TrimmedSame
  <1>3. only_release_trimmed(v) = VersionNew(q) /\ only_release(v) = VersionNew(s)
    BY <1>1 DEF only_release, only_release_trimmed
  <1>4. Compare(w, rr) = c
    <2> HIDE DEF q
    <2>1. CASE trim
      <3>1. PlainVersion(VersionNew(q), q)
        BY <1>2, PlainNew
      <3>2. Compare(w, VersionNew(q)) = compare_release(r, q)
        BY <3>1, PlainCompare
      <3>3. compare_release(r, s) = compare_release(r, q)
        BY <1>1, <1>2, CompareSame
      <3> QED BY <1>3, <2>1, <3>2, <3>3
    <2>2. CASE ~trim
      <3>1. PlainVersion(VersionNew(s), s)
        BY <1>1, PlainNew
      <3>2. Compare(w, VersionNew(s)) = compare_release(r, s)
        BY <3>1, PlainCompare
      <3> QED BY <1>3, <2>2, <3>2
    <2> QED BY <2>1, <2>2
  <1>5. Compare(w, v) = c
    BY PlainCompare
  <1>6. Compare(w, star) = compare_release(r, Bumped(s))
    <2>1. Bumped(s) \in Seq(Nat) /\ Bumped(s) # <<>>
      BY <1>1, BumpedIs
    <2>2. PlainVersion(only_release(v), s)
      BY <1>1, <1>3, PlainNew
    <2>3. PlainVersion(star, Bumped(s))
      BY <2>1, <2>2, PlainRelease
    <2> QED BY <2>3, PlainCompare
  <1>7. Len(s) >= 2 => Compare(w, up) = compare_release(r, Bumped(p))
    <2> SUFFICES ASSUME Len(s) >= 2 PROVE Compare(w, up) = compare_release(r, Bumped(p))
      OBVIOUS
    <2>1. p \in Seq(Nat) /\ p # <<>>
      <3>1. Len(s) \in Nat /\ 1 <= Len(s) - 1 /\ Len(s) - 1 <= Len(s)
        BY <1>1
      <3>2. p \in Seq(Nat) /\ Len(p) = Len(s) - 1
        BY <1>1, <3>1
      <3> HIDE DEF p
      <3> QED BY <3>1, <3>2
    <2> HIDE DEF p
    <2>2. Bumped(p) \in Seq(Nat) /\ Bumped(p) # <<>>
      BY <2>1, BumpedIs
    <2>3. PlainVersion(up, Bumped(p))
      BY <2>2, PlainNew
    <2> QED BY <2>3, PlainCompare
  <1>8. c \in {-1, 0, 1}
    BY <1>1, CompareType
  <1>9. /\ op \in {"==", "==="} => range = Between(Included(rr), Included(rr))
        /\ op = "!=" => range = Complement(Between(Included(rr), Included(rr)))
        /\ op = "<" => range = Between(Unbounded, Excluded(rr))
        /\ op = "<=" => range = Between(Unbounded, Included(rr))
        /\ op = ">" => range = Between(Excluded(rr), Unbounded)
        /\ op = ">=" => range = Between(Included(rr), Unbounded)
        /\ op = "~=" => range = Between(Included(rr), Excluded(up))
        /\ op = "==*" => range = Between(Included(v), Excluded(star))
        /\ op = "!=*" => range = Complement(Between(Included(v), Excluded(star)))
    <2> HIDE DEF rr, star
    <2>1. rr = (IF trim THEN only_release_trimmed(v) ELSE only_release(v))
          /\ star = with_release(only_release(v), Bumped(Parts(v).release))
          /\ up = VersionNew(Bumped(SubSeq(Parts(v).release, 1, Len(Parts(v).release) - 1)))
      BY <1>1 DEF rr, star
    <2> HIDE DEF up
    <2> QED BY <2>1 DEF ReleaseRange
  <1> HIDE DEF c, rr, up, star, range, p, q
  <1>10. op = "==" => (InRange(range, w) <=> c = 0)
    BY <1>4, <1>8, <1>9, InBetween, Above, BelowIs
  <1>11. op = "!=" => (InRange(range, w) <=> c # 0)
    BY <1>4, <1>8, <1>9, InComplement
  <1>12. op = "==*" => (InRange(range, w) <=> c >= 0 /\ compare_release(r, Bumped(s)) < 0)
    BY <1>5, <1>6, <1>9, InBetween, Above, BelowIs
  <1>13. op = "!=*" => (InRange(range, w) <=> c < 0 \/ compare_release(r, Bumped(s)) >= 0)
    BY <1>5, <1>6, <1>9, InComplement
  <1>14. op = "~=" => (InRange(range, w) <=> c >= 0 /\ compare_release(r, Bumped(p)) < 0)
    BY <1>4, <1>7, <1>9, InBetween, Above, BelowIs
  <1>15. op = ">" => (InRange(range, w) <=> c > 0)
    BY <1>4, <1>9, InBetween, Above, BelowIs
  <1>16. op = ">=" => (InRange(range, w) <=> c >= 0)
    BY <1>4, <1>9, InBetween, Above, BelowIs
  <1>17. op = "<" => (InRange(range, w) <=> c < 0)
    BY <1>4, <1>9, InBetween, Above, BelowIs
  <1>18. op = "<=" => (InRange(range, w) <=> c <= 0)
    BY <1>4, <1>9, InBetween, Above, BelowIs
  <1> QED BY <1>10, <1>11, <1>12, <1>13, <1>14, <1>15, <1>16, <1>17, <1>18 DEF c, range, p

LEMMA ReleaseHolds == VersionOK => ReleaseAgrees
  <1> SUFFICES ASSUME VersionOK, NEW op \in Operator \ {"==="}, NEW trim \in BOOLEAN,
                      Written(op), parts = NoParts(parts.release), NEW r \in Releases
               PROVE  contains(op, version, VersionNew(r)) <=>
                        InRange(ReleaseRange(op, version, trim), VersionNew(r))
    BY DEF ReleaseAgrees
  <1> DEFINE s == parts.release
             p == SubSeq(s, 1, Len(s) - 1)
             w == VersionNew(r)
             c == compare_release(r, s)
  <1>1. PlainVersion(version, s)
    <2>1. IsVersion(version) /\ Parts(version) = parts /\ PartsOK(parts)
      BY DEF VersionOK
    <2>2. s \in Seq(Nat) /\ s # <<>>
      BY <2>1, PartsOKFields
    <2> QED BY <2>1, <2>2 DEF PlainVersion
  <1>2. r \in Seq(Nat) /\ r # <<>> /\ s \in Seq(Nat) /\ s # <<>>
    BY <1>1, Inputs DEF PlainVersion
  <1>3. PlainVersion(w, r)
    BY <1>2, PlainNew
  <1>4. op = "~=" => Len(s) >= 2
    BY DEF Written, Allowed
  <1> DEFINE In == InRange(ReleaseRange(op, version, trim), w)
             Has == contains(op, version, w)
  <1>5. /\ op = "==" => (In <=> c = 0)
        /\ op = "!=" => (In <=> c # 0)
        /\ op = "==*" => (In <=> c >= 0 /\ compare_release(r, Bumped(s)) < 0)
        /\ op = "!=*" => (In <=> c < 0 \/ compare_release(r, Bumped(s)) >= 0)
        /\ op = "~=" => (In <=> c >= 0 /\ compare_release(r, Bumped(p)) < 0)
        /\ op = ">" => (In <=> c > 0)
        /\ op = ">=" => (In <=> c >= 0)
        /\ op = "<" => (In <=> c < 0)
        /\ op = "<=" => (In <=> c <= 0)
    BY <1>1, <1>3, <1>4, PlainRange
  <1>6. /\ op = "==" => (Has <=> c = 0)
        /\ op = "!=" => (Has <=> c # 0)
        /\ op = "==*" => (Has <=> Prefix(s, r))
        /\ op = "!=*" => (Has <=> ~Prefix(s, r))
        /\ op = "~=" => (Has <=> PrefixSoFar(p, r) /\ c >= 0)
        /\ op = ">" => (Has <=> c > 0)
        /\ op = ">=" => (Has <=> c >= 0)
        /\ op = "<" => (Has <=> c < 0)
        /\ op = "<=" => (Has <=> c <= 0)
    BY <1>1, <1>3, PlainContains
  <1>7. Prefix(s, r) <=> c >= 0 /\ compare_release(r, Bumped(s)) < 0
    BY <1>2, StarOrder
  <1>8. op = "~=" /\ c >= 0 => (PrefixSoFar(p, r) <=> compare_release(r, Bumped(p)) < 0)
    BY <1>2, <1>4, TildeOrder
  <1>9. c \in {-1, 0, 1} /\ compare_release(r, Bumped(s)) \in {-1, 0, 1}
    BY <1>2, BumpedIs, CompareType
  <1> HIDE DEF In, Has, c, s, p
  <1>10. op \in {"==", "!=", "~=", "<", "<=", ">", ">=", "==*", "!=*"}
    BY DEF Operator
  <1>11. Has <=> In
    <2>1. CASE op = "==*"
      BY <1>5, <1>6, <1>7, <2>1
    <2>2. CASE op = "!=*"
      BY <1>5, <1>6, <1>7, <1>9, <2>2
    <2>3. CASE op = "~="
      BY <1>5, <1>6, <1>8, <2>3
    <2>4. CASE op \in {"==", "!=", "<", "<=", ">", ">="}
      BY <1>5, <1>6, <2>4
    <2> QED BY <1>10, <2>1, <2>2, <2>3, <2>4
  <1> QED BY <1>11 DEF In, Has

\* Whatever releases there are, among them the release-only range of a specifier
\* that names a release (`release_specifier_to_range`) holds what `contains`
\* accepts, with or without trailing zeros.
THEOREM ReleasesAgree == Spec => []ReleaseAgrees
  BY VersionInvariant, ReleaseHolds, PTL
-----------------------------------------------------------------------------
(* Bounds of ranges.                                                       *)

\* The parts of a version that bounds a range: a successor may have a number
\* that no parsed version reaches.
BoundParts(c) ==
    /\ c \in PartsType /\ c.release # <<>>
    /\ c.pre # NoPre => c.pre[2] <= Top
    /\ c.post <= Top /\ c.dev <= Top /\ c.local < Top
    /\ IsSentinel(c) => PartsOK(c)

Bound(v) == IsVersion(v) /\ BoundParts(Parts(v))

LEMMA BoundFields ==
    ASSUME NEW c, BoundParts(c)
    PROVE  /\ c \in PartsType /\ c.small = FALSE /\ c.epoch \in Nat
           /\ c.release \in Seq(Nat) /\ c.release # <<>>
           /\ c.pre # NoPre => /\ c.pre[1] \in 2..4 /\ c.pre[2] \in Nat /\ c.pre[2] <= Top
                               /\ c.pre = <<c.pre[1], c.pre[2]>>
           /\ c.post \in Nat \cup {None} /\ c.post <= Top
           /\ c.dev \in Nat \cup {None} /\ c.dev <= Top
           /\ c.min \in {None, 0} /\ c.max \in {None, 0}
           /\ c.local \in Nat \cup {LocalMax} /\ c.local < Top
           /\ c.min # None => /\ c.pre = NoPre /\ c.post = None /\ c.dev = None
                              /\ c.max = None /\ c.local = NoLocal
           /\ c.max # None => c.post = None /\ c.dev = None /\ c.local = NoLocal
  <1>1. c \in PartsType
    BY DEF BoundParts
  <1>2. /\ c.small = FALSE /\ c.epoch \in Nat /\ c.release \in Seq(Nat)
        /\ c.pre \in ((2..4) \X Nat) \cup {NoPre}
        /\ c.post \in Nat \cup {None} /\ c.dev \in Nat \cup {None}
        /\ c.min \in {None, 0} /\ c.max \in {None, 0} /\ c.local \in Nat \cup {LocalMax}
    BY <1>1, PartsFields
  <1>3. c.pre # NoPre => /\ c.pre[1] \in 2..4 /\ c.pre[2] \in Nat /\ c.pre = <<c.pre[1], c.pre[2]>>
    BY <1>2
  <1>4. c.min # None \/ c.max # None => PartsOK(c)
    BY DEF BoundParts, IsSentinel
  <1>5. /\ c.min # None => /\ c.pre = NoPre /\ c.post = None /\ c.dev = None
                           /\ c.max = None /\ c.local = NoLocal
        /\ c.max # None => c.post = None /\ c.dev = None /\ c.local = NoLocal
    BY <1>4 DEF PartsOK
  <1> QED BY <1>1, <1>2, <1>3, <1>5 DEF BoundParts

LEMMA OKBound ==
    ASSUME NEW c, PartsOK(c)
    PROVE  BoundParts(c)
  <1>1. /\ c \in PartsType /\ c.release # <<>>
    BY DEF PartsOK
  <1>2. /\ c.pre # NoPre => c.pre[2] \in Nat /\ c.pre[2] < Top
        /\ c.post \in Nat \cup {None} /\ c.post < Top
        /\ c.dev \in Nat \cup {None} /\ c.dev < Top
        /\ c.local < Top
    BY PartsOKFields
  <1>3. /\ c.pre # NoPre => c.pre[2] <= Top
        /\ c.post <= Top /\ c.dev <= Top
    BY <1>2, Widths DEF None
  <1> QED BY <1>1, <1>2, <1>3 DEF BoundParts

\* Tuples of five, one below the other.
Five(s) == s \in Seq(Int) /\ Len(s) = 5

TupleLess(s, t) ==
    \/ s[1] < t[1]
    \/ s[1] = t[1] /\ \/ s[2] < t[2]
                      \/ s[2] = t[2] /\ \/ s[3] < t[3]
                                        \/ s[3] = t[3] /\ \/ s[4] < t[4]
                                                          \/ s[4] = t[4] /\ s[5] < t[5]

LEMMA FiveInts ==
    ASSUME NEW s, Five(s)
    PROVE  s[1] \in Int /\ s[2] \in Int /\ s[3] \in Int /\ s[4] \in Int /\ s[5] \in Int
  <1>1. s \in Seq(Int) /\ Len(s) = 5
    BY DEF Five
  <1>2. \A i \in 1..5 : s[i] \in Int
    BY <1>1, ElementOfSeq
  <1> QED BY <1>2

LEMMA LexLess ==
    ASSUME NEW s, Five(s), NEW t, Five(t)
    PROVE  /\ Lexicographic(s, t) < 0 <=> TupleLess(s, t)
           /\ Lexicographic(s, t) > 0 <=> TupleLess(t, s)
           /\ Lexicographic(s, t) \in {-1, 0, 1}
           /\ Lexicographic(t, s) = 0 - Lexicographic(s, t)
           /\ Lexicographic(s, t) = 0 <=> s = t
  <1>1. /\ s \in Seq(Int) /\ t \in Seq(Int) /\ Len(s) = 5 /\ Len(t) = 5
    BY DEF Five
  <1>2. /\ s[1] \in Int /\ s[2] \in Int /\ s[3] \in Int /\ s[4] \in Int /\ s[5] \in Int
        /\ t[1] \in Int /\ t[2] \in Int /\ t[3] \in Int /\ t[4] \in Int /\ t[5] \in Int
    BY FiveInts
  <1>3. Lexicographic(s, t) =
             IF s[1] # t[1] THEN Sign(s[1] - t[1]) ELSE IF s[2] # t[2] THEN Sign(s[2] - t[2])
             ELSE IF s[3] # t[3] THEN Sign(s[3] - t[3]) ELSE IF s[4] # t[4] THEN Sign(s[4] - t[4])
             ELSE Sign(s[5] - t[5])
    BY <1>1, Lex5
  <1>4. Lexicographic(t, s) =
             IF t[1] # s[1] THEN Sign(t[1] - s[1]) ELSE IF t[2] # s[2] THEN Sign(t[2] - s[2])
             ELSE IF t[3] # s[3] THEN Sign(t[3] - s[3]) ELSE IF t[4] # s[4] THEN Sign(t[4] - s[4])
             ELSE Sign(t[5] - s[5])
    BY <1>1, Lex5
  <1>5. Lexicographic(s, t) < 0 <=> TupleLess(s, t)
    BY <1>2, <1>3 DEF TupleLess, Sign
  <1>6. Lexicographic(s, t) > 0 <=> TupleLess(t, s)
    BY <1>2, <1>3 DEF TupleLess, Sign
  <1>7. Lexicographic(t, s) = 0 - Lexicographic(s, t)
    BY <1>2, <1>3, <1>4 DEF Sign
  <1>8. Lexicographic(s, t) \in {-1, 0, 1} /\ (Lexicographic(s, t) = 0 <=> s = t)
    BY <1>1, LexZero
  <1> QED BY <1>5, <1>6, <1>7, <1>8

LEMMA TupleType ==
    ASSUME NEW c, BoundParts(c)
    PROVE  Five(sortable_tuple(c))
  <1> DEFINE T == sortable_tuple(c)
             post == IF c.max # None THEN Top ELSE c.post
             dev  == IF c.dev = None THEN Top ELSE c.dev
             rank == LocalRank(c.local)
  <1>0. Top \in Nat
    BY Widths
  <1>1. /\ c.pre # NoPre => c.pre[1] \in Int /\ c.pre[2] \in Int
        /\ c.post \in Int /\ c.dev \in Int /\ c.min \in Int /\ c.local \in Int
    <2>1. /\ c.pre # NoPre => c.pre[1] \in 2..4 /\ c.pre[2] \in Nat
          /\ c.post \in Nat \cup {None} /\ c.dev \in Nat \cup {None}
          /\ c.min \in {None, 0} /\ c.local \in Nat \cup {LocalMax}
      BY BoundFields
    <2> QED BY <2>1 DEF None, LocalMax
  <1>2. post \in Int /\ dev \in Int /\ rank \in Int
    BY <1>0, <1>1 DEF LocalRank
  <1>3. T = IF c.min # None       THEN <<0, 0, post, c.min, rank>>
            ELSE IF c.pre # NoPre THEN <<c.pre[1], c.pre[2], post, dev, rank>>
            ELSE IF post # None   THEN <<6, 0, post, dev, rank>>
            ELSE IF c.dev # None  THEN <<1, 0, None, c.dev, rank>>
            ELSE <<5, 0, None, 0, rank>>
    BY DEF sortable_tuple
  <1>4. None \in Int
    BY DEF None
  <1> HIDE DEF T, post, dev, rank
  <1>5. ASSUME NEW a \in Int, NEW b \in Int, NEW x \in Int, NEW y \in Int, NEW z \in Int
        PROVE  Five(<<a, b, x, y, z>>)
    BY DEF Five
  <1>6. 0 \in Int /\ 1 \in Int /\ 5 \in Int /\ 6 \in Int
    OBVIOUS
  <1>7. Five(T)
    BY <1>1, <1>2, <1>3, <1>4, <1>5, <1>6
  <1> QED BY <1>7 DEF T

\* What the tuple of a parsed version can be.
PublicTuple(t) ==
    /\ Five(t) /\ t[1] \in 1..6 /\ t[2] \in 0..Top - 1
    /\ t[3] \in -1..Top - 1 /\ t[4] \in 0..Top /\ t[5] \in 0..Top - 1
    /\ t[1] = 1 => t[2] = 0 /\ t[3] = -1
    /\ t[1] = 5 => t[2] = 0 /\ t[3] = -1 /\ t[4] = 0
    /\ t[1] = 6 => t[2] = 0 /\ t[3] >= 0

LEMMA PublicTupleIs ==
    ASSUME NEW d, Public(d)
    PROVE  PublicTuple(sortable_tuple(d))
  <1> DEFINE T == sortable_tuple(d)
  <1>0. Top \in Nat /\ Top >= 1
    BY Widths
  <1>1. PartsOK(d) /\ d.min = None /\ d.max = None /\ d.local # LocalMax
    BY DEF Public
  <1>2. /\ d.pre # NoPre => d.pre[1] \in 2..4 /\ d.pre[2] \in Nat /\ d.pre[2] < Top
        /\ d.post \in Nat \cup {None} /\ d.post < Top
        /\ d.dev \in Nat \cup {None} /\ d.dev < Top
        /\ d.local \in Nat /\ d.local < Top
    BY <1>1, PartsOKFields
  <1>3. Five(T)
    BY <1>1, OKBound, TupleType
  <1>4. CASE d.pre # NoPre
    <2>1. T = <<d.pre[1], d.pre[2], d.post, IF d.dev = None THEN Top ELSE d.dev, d.local>>
      BY <1>1, <1>4 DEF sortable_tuple, LocalRank
    <2> QED BY <1>0, <1>2, <1>3, <1>4, <2>1 DEF PublicTuple, None
  <1>5. CASE d.pre = NoPre /\ d.post # None
    <2>1. T = <<6, 0, d.post, IF d.dev = None THEN Top ELSE d.dev, d.local>>
      BY <1>1, <1>5 DEF sortable_tuple, LocalRank
    <2> QED BY <1>0, <1>2, <1>3, <1>5, <2>1 DEF PublicTuple, None
  <1>6. CASE d.pre = NoPre /\ d.post = None /\ d.dev # None
    <2>1. T = <<1, 0, None, d.dev, d.local>>
      BY <1>1, <1>6 DEF sortable_tuple, LocalRank
    <2> QED BY <1>0, <1>2, <1>3, <1>6, <2>1 DEF PublicTuple, None
  <1>7. CASE d.pre = NoPre /\ d.post = None /\ d.dev = None
    <2>1. T = <<5, 0, None, 0, d.local>>
      BY <1>1, <1>7 DEF sortable_tuple, LocalRank
    <2> QED BY <1>0, <1>2, <1>3, <1>7, <2>1 DEF PublicTuple, None
  <1> QED BY <1>4, <1>5, <1>6, <1>7

\* Suffixes compare as their kinds and numbers do.
LEMMA SuffixTuple ==
    ASSUME NEW r, NEW k, NEW n, SuffixFits(k, n), BoundParts(Unpacked(r, k, n)),
           NEW q, NEW j, NEW m, SuffixFits(j, m), Public(Unpacked(q, j, m))
    PROVE  Then(Sign(k - j), Sign(n - m)) =
             Lexicographic(sortable_tuple(Unpacked(r, k, n)), sortable_tuple(Unpacked(q, j, m)))
  <1> DEFINE c == Unpacked(r, k, n)
             d == Unpacked(q, j, m)
             T1(kind, x) == IF kind \in {6, 7, 8} THEN kind - (IF kind = 8 THEN 2 ELSE 1) ELSE kind
             T2(kind, x) == IF kind \in 2..4 THEN x ELSE 0
             T3(kind, x) == IF kind = 8 THEN Top ELSE IF kind = 7 THEN x ELSE -1
             T4(kind, x) == IF kind \in {0, 1} THEN x ELSE IF kind \in {5, 6} THEN 0 ELSE Top
             T5(kind, x) == IF kind = 6 THEN Top ELSE 0
  <1>0. Top \in Nat /\ Top >= 1
    BY Widths
  <1>1. k \in 0..8 /\ n \in Nat /\ j \in 0..8 /\ m \in Nat
    BY Widths DEF SuffixFits
  <1>2. ASSUME NEW h, NEW kind \in 0..8, NEW x \in Nat
        PROVE  sortable_tuple(Unpacked(h, kind, x)) =
                 <<T1(kind, x), T2(kind, x), T3(kind, x), T4(kind, x), T5(kind, x)>>
    <2> DEFINE e == Unpacked(h, kind, x)
    <2>1. /\ e.pre = (IF kind \in 2..4 THEN <<kind, x>> ELSE NoPre)
          /\ e.post = (IF kind = 7 THEN x ELSE -1) /\ e.dev = (IF kind = 1 THEN x ELSE -1)
          /\ e.min = (IF kind = 0 THEN x ELSE -1) /\ e.max = (IF kind = 8 THEN x ELSE -1)
          /\ e.local = (IF kind = 6 THEN -2 ELSE 0)
      BY DEF Unpacked, SUFFIX_PRE, SUFFIX_POST, SUFFIX_DEV, SUFFIX_MIN, SUFFIX_MAX, SUFFIX_LOCAL,
             None, NoLocal, LocalMax
    <2>2. /\ e.pre # NoPre <=> kind \in 2..4
          /\ kind \in 2..4 => e.pre[1] = kind /\ e.pre[2] = x
      BY <2>1 DEF NoPre
    <2> HIDE DEF e
    <2>3. sortable_tuple(e) = <<T1(kind, x), T2(kind, x), T3(kind, x), T4(kind, x), T5(kind, x)>>
      BY <1>0, <2>1, <2>2 DEF sortable_tuple, LocalRank, None, LocalMax
    <2> QED BY <2>3 DEF e
  <1>3. k = 7 => n <= Top
    <2>1. c.post <= Top
      BY BoundFields
    <2>2. k = 7 => c.post = n
      BY DEF Unpacked, SUFFIX_POST
    <2> HIDE DEF c
    <2> QED BY <2>1, <2>2
  <1>4. /\ j = 7 => m < Top
        /\ j # 0 /\ j # 8 /\ j # 6
    <2>1. PartsOK(d) /\ d.min = None /\ d.max = None /\ d.local # LocalMax
      BY DEF Public
    <2>2. d.post < Top
      BY <2>1, PartsOKFields
    <2>3. /\ j = 7 => d.post = m
          /\ j = 0 => d.min = m
          /\ j = 8 => d.max = m
          /\ j = 6 => d.local = LocalMax
      BY DEF Unpacked, SUFFIX_POST, SUFFIX_MIN, SUFFIX_MAX, SUFFIX_LOCAL
    <2> HIDE DEF d
    <2> QED BY <1>1, <2>1, <2>2, <2>3 DEF None
  <1>5. /\ k \in {0, 5, 6, 8} => n = 0
        /\ j = 5 => m = 0
    BY DEF SuffixFits, SUFFIX_MIN, SUFFIX_MAX, SUFFIX_NONE, SUFFIX_LOCAL
  <1>6. Lexicographic(sortable_tuple(c), sortable_tuple(d)) =
             IF T1(k, n) # T1(j, m) THEN Sign(T1(k, n) - T1(j, m))
             ELSE IF T2(k, n) # T2(j, m) THEN Sign(T2(k, n) - T2(j, m))
             ELSE IF T3(k, n) # T3(j, m) THEN Sign(T3(k, n) - T3(j, m))
             ELSE IF T4(k, n) # T4(j, m) THEN Sign(T4(k, n) - T4(j, m))
             ELSE Sign(T5(k, n) - T5(j, m))
    <2> DEFINE s == sortable_tuple(c)
               t == sortable_tuple(d)
    <2>1. s \in Seq(Int) /\ Len(s) = 5 /\ t \in Seq(Int) /\ Len(t) = 5
      BY TupleType, OKBound DEF Public, Five
    <2>2. s = <<T1(k, n), T2(k, n), T3(k, n), T4(k, n), T5(k, n)>> /\ t = <<T1(j, m), T2(j, m), T3(j, m), T4(j, m), T5(j, m)>>
      BY <1>1, <1>2
    <2> HIDE DEF s, t, T1, T2, T3, T4, T5
    <2>3. Lexicographic(s, t) =
             IF s[1] # t[1] THEN Sign(s[1] - t[1]) ELSE IF s[2] # t[2] THEN Sign(s[2] - t[2])
             ELSE IF s[3] # t[3] THEN Sign(s[3] - t[3]) ELSE IF s[4] # t[4] THEN Sign(s[4] - t[4])
             ELSE Sign(s[5] - t[5])
      BY <2>1, Lex5
    <2> QED BY <2>2, <2>3 DEF s, t
  <1> SUFFICES Then(Sign(k - j), Sign(n - m)) = Lexicographic(sortable_tuple(c), sortable_tuple(d))
    OBVIOUS
  <1> HIDE DEF c, d
  <1>8. CASE k = j
    BY <1>0, <1>1, <1>4, <1>5, <1>6, <1>8 DEF Sign, Then
  <1>9. CASE k < j
    BY <1>0, <1>1, <1>3, <1>4, <1>5, <1>6, <1>9 DEF Sign, Then
  <1>10. CASE k > j
    BY <1>0, <1>1, <1>3, <1>4, <1>5, <1>6, <1>10 DEF Sign, Then
  <1> QED BY <1>1, <1>8, <1>9, <1>10

\* The order of the code: epoch, release, tuple.
Order(c, d) ==
    Then(Sign(c.epoch - d.epoch),
         Then(compare_release(c.release, d.release),
              Lexicographic(sortable_tuple(c), sortable_tuple(d))))

LEMMA OrderType ==
    ASSUME NEW c, BoundParts(c), NEW d, BoundParts(d)
    PROVE  /\ Order(c, d) \in {-1, 0, 1}
           /\ Order(d, c) = 0 - Order(c, d)
           /\ Order(c, d) = cmp_slow(c, d)
  <1> DEFINE e == c.epoch - d.epoch
             R == compare_release(c.release, d.release)
             Q == compare_release(d.release, c.release)
             L == Lexicographic(sortable_tuple(c), sortable_tuple(d))
             M == Lexicographic(sortable_tuple(d), sortable_tuple(c))
  <1>1. c.epoch \in Nat /\ d.epoch \in Nat /\ c.release \in Seq(Nat) /\ d.release \in Seq(Nat)
    BY BoundFields
  <1>2. R \in {-1, 0, 1} /\ Q = 0 - R
    BY <1>1, CompareType
  <1>3. L \in {-1, 0, 1} /\ M = 0 - L
    BY TupleType, LexLess
  <1>4. /\ Order(c, d) = Then(Sign(e), Then(R, L))
        /\ Order(d, c) = Then(Sign(d.epoch - c.epoch), Then(Q, M))
        /\ cmp_slow(c, d) = IF c.epoch # d.epoch THEN Sign(e) ELSE IF R # 0 THEN R ELSE L
    BY DEF Order, cmp_slow
  <1> HIDE DEF R, Q, L, M
  <1>5. Order(c, d) \in {-1, 0, 1}
    BY <1>1, <1>2, <1>3, <1>4 DEF Sign, Then
  <1>6. Order(d, c) = 0 - Order(c, d)
    BY <1>1, <1>2, <1>3, <1>4 DEF Sign, Then
  <1>7. Order(c, d) = cmp_slow(c, d)
    BY <1>1, <1>2, <1>3, <1>4 DEF Sign, Then
  <1> QED BY <1>5, <1>6, <1>7

\* A bound compares with a parsed version by its parts, whether packed or not.
LEMMA BoundCompare ==
    ASSUME NEW v, Bound(v), NEW w, IsVersion(w), Public(Parts(w))
    PROVE  /\ Compare(v, w) = Order(Parts(v), Parts(w))
           /\ Compare(w, v) = Order(Parts(w), Parts(v))
  <1>0. IsVersion(v) /\ BoundParts(Parts(v)) /\ BoundParts(Parts(w))
    BY OKBound DEF Bound, Public
  <1>1. CASE IsPacked(v) /\ IsPacked(w)
    <2>1. PICK r, k, a : Fits(r) /\ SuffixFits(k, a) /\ v = Pack(r, k, a)
      BY <1>1 DEF IsPacked
    <2>2. PICK q, j, b : Fits(q) /\ SuffixFits(j, b) /\ w = Pack(q, j, b)
      BY <1>1 DEF IsPacked
    <2> DEFINE c == Unpacked(r, k, a)
               d == Unpacked(q, j, b)
               x == Value(r) * 16 + k
               y == Value(q) * 16 + j
    <2>3. Parts(v) = c /\ Parts(w) = d
      BY <2>1, <2>2, PackParts
    <2>4. c.release = r /\ d.release = q /\ c.epoch = 0 /\ d.epoch = 0
      BY DEF Unpacked
    <2>5. Sign(Value(r) - Value(q)) = compare_release(r, q)
      BY <2>1, <2>2, ValueCompare DEF compare_release
    <2>6. Then(Sign(k - j), Sign(a - b)) = Lexicographic(sortable_tuple(c), sortable_tuple(d))
      BY <1>0, <2>1, <2>2, <2>3, SuffixTuple
    <2> HIDE DEF c, d
    <2>7. Order(c, d) = Then(Sign(Value(r) - Value(q)), Then(Sign(k - j), Sign(a - b)))
      BY <2>4, <2>5, <2>6 DEF Order, Then, Sign
    <2>11. /\ Value(r) \in Nat /\ Value(q) \in Nat /\ k \in Nat /\ j \in Nat /\ k < 16 /\ j < 16
           /\ a \in Nat /\ b \in Nat /\ a < Suffix /\ b < Suffix /\ Suffix \in Nat \ {0}
      <3>1. Value(r) \in Nat /\ Value(q) \in Nat
        BY <2>1, <2>2, SegmentType
      <3>2. /\ k \in 0..8 /\ j \in 0..8 /\ a \in 0..Suffix - 1 /\ b \in 0..Suffix - 1
        BY <2>1, <2>2 DEF SuffixFits
      <3> QED BY <3>1, <3>2, Widths
    <2>12. Placed(x, Value(r), k, 16) /\ Placed(y, Value(q), j, 16)
      BY <2>11 DEF Placed
    <2>13. x \in Nat /\ y \in Nat
      BY <2>11
    <2>14. v.repr = x * Suffix + a /\ w.repr = y * Suffix + b
      BY <2>1, <2>2, PackType
    <2> HIDE DEF x, y
    <2>15. Placed(v.repr, x, a, Suffix) /\ Placed(w.repr, y, b, Suffix)
      BY <2>11, <2>13, <2>14 DEF Placed
    <2>16. Sign(x - y) = Then(Sign(Value(r) - Value(q)), Sign(k - j))
      BY <2>12, Positional
    <2>17. Sign(v.repr - w.repr) = Then(Sign(x - y), Sign(a - b))
      BY <2>15, Positional
    <2>18. Sign(v.repr - w.repr) = Order(c, d)
      BY <2>7, <2>16, <2>17 DEF Then
    <2>19. v.repr \in Int /\ w.repr \in Int
      BY <2>11, <2>13, <2>14
    <2>20. Sign(w.repr - v.repr) = 0 - Sign(v.repr - w.repr)
      BY <2>19 DEF Sign
    <2>21. v.small = TRUE /\ w.small = TRUE
      BY <1>1, PackedSuffix
    <2>22. Compare(v, w) = Sign(v.repr - w.repr) /\ Compare(w, v) = Sign(w.repr - v.repr)
      BY <2>21 DEF Compare
    <2>23. Order(d, c) = 0 - Order(c, d)
      BY <1>0, <2>3, OrderType
    <2> QED BY <2>3, <2>18, <2>20, <2>22, <2>23
  <1>2. CASE ~(IsPacked(v) /\ IsPacked(w))
    <2>1. v.small = FALSE \/ w.small = FALSE
      BY <1>0, <1>2, PartsFields DEF IsVersion
    <2>2. Compare(v, w) = cmp_slow(Parts(v), Parts(w)) /\ Compare(w, v) = cmp_slow(Parts(w), Parts(v))
      BY <2>1 DEF Compare
    <2> QED BY <1>0, <2>2, OrderType
  <1> QED BY <1>1, <1>2

\* A setter sets its part and leaves the others.
LEMMA EpochSet ==
    ASSUME NEW v, IsVersion(v), NEW x \in Nat
    PROVE  LET c == Parts(v)
               d == Parts(with_epoch(v, x))
           IN  /\ IsVersion(with_epoch(v, x)) /\ d \in PartsType /\ c \in PartsType /\ d.epoch = x
               /\ d.release = c.release /\ d.pre = c.pre /\ d.post = c.post /\ d.dev = c.dev
               /\ d.min = c.min /\ d.max = c.max /\ d.local = c.local
  <1> DEFINE c == Parts(v)
             d == Parts(with_epoch(v, x))
  <1>1. IsVersion(with_epoch(v, x)) /\ d = [c EXCEPT !.epoch = x]
    BY WithEpoch
  <1>2. c \in PartsType
    BY VersionParts
  <1> HIDE DEF c, d
  <1>3. d \in PartsType /\ d.epoch = x
    BY <1>1, <1>2 DEF PartsType
  <1>4. /\ d.release = c.release /\ d.pre = c.pre /\ d.post = c.post /\ d.dev = c.dev
        /\ d.min = c.min /\ d.max = c.max /\ d.local = c.local
    BY <1>1, <1>2 DEF PartsType
  <1> QED BY <1>1, <1>2, <1>3, <1>4 DEF c, d

LEMMA ReleaseSet ==
    ASSUME NEW v, IsVersion(v), NEW x \in Seq(Nat)
    PROVE  LET c == Parts(v)
               d == Parts(with_release(v, x))
           IN  /\ IsVersion(with_release(v, x)) /\ d \in PartsType /\ c \in PartsType /\ d.release = x
               /\ d.epoch = c.epoch /\ d.pre = c.pre /\ d.post = c.post /\ d.dev = c.dev
               /\ d.min = c.min /\ d.max = c.max /\ d.local = c.local
  <1> DEFINE c == Parts(v)
             d == Parts(with_release(v, x))
  <1>1. IsVersion(with_release(v, x)) /\ d = [c EXCEPT !.release = x]
    BY WithRelease
  <1>2. c \in PartsType
    BY VersionParts
  <1> HIDE DEF c, d
  <1>3. d \in PartsType /\ d.release = x
    BY <1>1, <1>2 DEF PartsType
  <1>4. /\ d.epoch = c.epoch /\ d.pre = c.pre /\ d.post = c.post /\ d.dev = c.dev
        /\ d.min = c.min /\ d.max = c.max /\ d.local = c.local
    BY <1>1, <1>2 DEF PartsType
  <1> QED BY <1>1, <1>2, <1>3, <1>4 DEF c, d

LEMMA PreSet ==
    ASSUME NEW v, IsVersion(v), NEW x \in ((2..4) \X Nat) \cup {NoPre}
    PROVE  LET c == Parts(v)
               d == Parts(with_pre(v, x))
           IN  /\ IsVersion(with_pre(v, x)) /\ d \in PartsType /\ c \in PartsType /\ d.pre = x
               /\ d.epoch = c.epoch /\ d.release = c.release /\ d.post = c.post /\ d.dev = c.dev
               /\ d.min = c.min /\ d.max = c.max /\ d.local = c.local
  <1> DEFINE c == Parts(v)
             d == Parts(with_pre(v, x))
  <1>1. IsVersion(with_pre(v, x)) /\ d = [c EXCEPT !.pre = x]
    BY WithPre
  <1>2. c \in PartsType
    BY VersionParts
  <1> HIDE DEF c, d
  <1>3. d \in PartsType /\ d.pre = x
    BY <1>1, <1>2 DEF PartsType
  <1>4. /\ d.epoch = c.epoch /\ d.release = c.release /\ d.post = c.post /\ d.dev = c.dev
        /\ d.min = c.min /\ d.max = c.max /\ d.local = c.local
    BY <1>1, <1>2 DEF PartsType
  <1> QED BY <1>1, <1>2, <1>3, <1>4 DEF c, d

LEMMA PostSet ==
    ASSUME NEW v, IsVersion(v), NEW x \in Nat \cup {None}
    PROVE  LET c == Parts(v)
               d == Parts(with_post(v, x))
           IN  /\ IsVersion(with_post(v, x)) /\ d \in PartsType /\ c \in PartsType /\ d.post = x
               /\ d.epoch = c.epoch /\ d.release = c.release /\ d.pre = c.pre /\ d.dev = c.dev
               /\ d.min = c.min /\ d.max = c.max /\ d.local = c.local
  <1> DEFINE c == Parts(v)
             d == Parts(with_post(v, x))
  <1>1. IsVersion(with_post(v, x)) /\ d = [c EXCEPT !.post = x]
    BY WithPost
  <1>2. c \in PartsType
    BY VersionParts
  <1> HIDE DEF c, d
  <1>3. d \in PartsType /\ d.post = x
    BY <1>1, <1>2 DEF PartsType
  <1>4. /\ d.epoch = c.epoch /\ d.release = c.release /\ d.pre = c.pre /\ d.dev = c.dev
        /\ d.min = c.min /\ d.max = c.max /\ d.local = c.local
    BY <1>1, <1>2 DEF PartsType
  <1> QED BY <1>1, <1>2, <1>3, <1>4 DEF c, d

LEMMA DevSet ==
    ASSUME NEW v, IsVersion(v), NEW x \in Nat \cup {None}
    PROVE  LET c == Parts(v)
               d == Parts(with_dev(v, x))
           IN  /\ IsVersion(with_dev(v, x)) /\ d \in PartsType /\ c \in PartsType /\ d.dev = x
               /\ d.epoch = c.epoch /\ d.release = c.release /\ d.pre = c.pre /\ d.post = c.post
               /\ d.min = c.min /\ d.max = c.max /\ d.local = c.local
  <1> DEFINE c == Parts(v)
             d == Parts(with_dev(v, x))
  <1>1. IsVersion(with_dev(v, x)) /\ d = [c EXCEPT !.dev = x]
    BY WithDev
  <1>2. c \in PartsType
    BY VersionParts
  <1> HIDE DEF c, d
  <1>3. d \in PartsType /\ d.dev = x
    BY <1>1, <1>2 DEF PartsType
  <1>4. /\ d.epoch = c.epoch /\ d.release = c.release /\ d.pre = c.pre /\ d.post = c.post
        /\ d.min = c.min /\ d.max = c.max /\ d.local = c.local
    BY <1>1, <1>2 DEF PartsType
  <1> QED BY <1>1, <1>2, <1>3, <1>4 DEF c, d

LEMMA MinSet ==
    ASSUME NEW v, IsVersion(v), NEW x \in {None, 0}
    PROVE  LET c == Parts(v)
               d == Parts(with_min(v, x))
           IN  /\ IsVersion(with_min(v, x)) /\ d \in PartsType /\ c \in PartsType /\ d.min = x
               /\ d.epoch = c.epoch /\ d.release = c.release /\ d.pre = c.pre /\ d.post = c.post
               /\ d.dev = c.dev /\ d.max = c.max /\ d.local = c.local
  <1> DEFINE c == Parts(v)
             d == Parts(with_min(v, x))
  <1>1. IsVersion(with_min(v, x)) /\ d = [c EXCEPT !.min = x]
    BY WithMin
  <1>2. c \in PartsType
    BY VersionParts
  <1> HIDE DEF c, d
  <1>3. d \in PartsType /\ d.min = x
    BY <1>1, <1>2 DEF PartsType
  <1>4. /\ d.epoch = c.epoch /\ d.release = c.release /\ d.pre = c.pre /\ d.post = c.post
        /\ d.dev = c.dev /\ d.max = c.max /\ d.local = c.local
    BY <1>1, <1>2 DEF PartsType
  <1> QED BY <1>1, <1>2, <1>3, <1>4 DEF c, d

LEMMA MaxSet ==
    ASSUME NEW v, IsVersion(v), NEW x \in {None, 0}
    PROVE  LET c == Parts(v)
               d == Parts(with_max(v, x))
           IN  /\ IsVersion(with_max(v, x)) /\ d \in PartsType /\ c \in PartsType /\ d.max = x
               /\ d.epoch = c.epoch /\ d.release = c.release /\ d.pre = c.pre /\ d.post = c.post
               /\ d.dev = c.dev /\ d.min = c.min /\ d.local = c.local
  <1> DEFINE c == Parts(v)
             d == Parts(with_max(v, x))
  <1>1. IsVersion(with_max(v, x)) /\ d = [c EXCEPT !.max = x]
    BY WithMax
  <1>2. c \in PartsType
    BY VersionParts
  <1> HIDE DEF c, d
  <1>3. d \in PartsType /\ d.max = x
    BY <1>1, <1>2 DEF PartsType
  <1>4. /\ d.epoch = c.epoch /\ d.release = c.release /\ d.pre = c.pre /\ d.post = c.post
        /\ d.dev = c.dev /\ d.min = c.min /\ d.local = c.local
    BY <1>1, <1>2 DEF PartsType
  <1> QED BY <1>1, <1>2, <1>3, <1>4 DEF c, d

LEMMA LocalSet ==
    ASSUME NEW v, IsVersion(v), NEW x \in Nat \cup {LocalMax}
    PROVE  LET c == Parts(v)
               d == Parts(with_local(v, x))
           IN  /\ IsVersion(with_local(v, x)) /\ d \in PartsType /\ c \in PartsType /\ d.local = x
               /\ d.epoch = c.epoch /\ d.release = c.release /\ d.pre = c.pre /\ d.post = c.post
               /\ d.dev = c.dev /\ d.min = c.min /\ d.max = c.max
  <1> DEFINE c == Parts(v)
             d == Parts(with_local(v, x))
  <1>1. IsVersion(with_local(v, x)) /\ d = [c EXCEPT !.local = x]
    BY WithLocal
  <1>2. c \in PartsType
    BY VersionParts
  <1> HIDE DEF c, d
  <1>3. d \in PartsType /\ d.local = x
    BY <1>1, <1>2 DEF PartsType
  <1>4. /\ d.epoch = c.epoch /\ d.release = c.release /\ d.pre = c.pre /\ d.post = c.post
        /\ d.dev = c.dev /\ d.min = c.min /\ d.max = c.max
    BY <1>1, <1>2 DEF PartsType
  <1> QED BY <1>1, <1>2, <1>3, <1>4 DEF c, d

\* No tuple of a parsed version lies between the two, the first excluded.
TupleNext(s, u) ==
    \A t : PublicTuple(t) => /\ TupleLess(s, t) <=> ~TupleLess(t, u)
                             /\ TupleLess(t, s) <=> TupleLess(t, u)

\* The ways in which a sentinel is followed by its successor.
Follows(s, u) ==
    \/ \E a, b, p, x \in Int : s = <<a, b, p, x, Top>> /\ u = <<a, b, p, x + 1, 0>>
    \/ \E a, b, p \in Int : s = <<a, b, p, Top, Top>> /\ u = <<a, b, p + 1, 0, 0>>
    \/ s = <<5, 0, -1, 0, Top>> /\ u = <<6, 0, 0, 0, 0>>
    \/ s = <<0, 0, -1, 0, 0>> /\ u = <<1, 0, -1, 0, 0>>
    \/ \E a, b \in Int : s = <<a, b, Top, Top, 0>> /\ u = <<a, b + 1, -1, 0, 0>>

LEMMA FollowsNext ==
    ASSUME NEW s, NEW u, Follows(s, u)
    PROVE  TupleNext(s, u)
  <1> SUFFICES ASSUME NEW t, PublicTuple(t)
               PROVE  /\ TupleLess(s, t) <=> ~TupleLess(t, u)
                      /\ TupleLess(t, s) <=> TupleLess(t, u)
    BY DEF TupleNext
  <1>0. Top \in Nat /\ Top >= 1
    BY Widths
  <1>1. /\ t[1] \in 1..6 /\ t[2] \in 0..Top - 1
        /\ t[3] \in -1..Top - 1 /\ t[4] \in 0..Top /\ t[5] \in 0..Top - 1
        /\ t[1] = 1 => t[2] = 0 /\ t[3] = -1
        /\ t[1] = 5 => t[2] = 0 /\ t[3] = -1 /\ t[4] = 0
        /\ t[1] = 6 => t[2] = 0 /\ t[3] >= 0
    BY DEF PublicTuple
  <1>2. ASSUME NEW a \in Int, NEW b \in Int, NEW p \in Int, NEW x \in Int,
               s = <<a, b, p, x, Top>>, u = <<a, b, p, x + 1, 0>>
        PROVE  /\ TupleLess(s, t) <=> ~TupleLess(t, u)
               /\ TupleLess(t, s) <=> TupleLess(t, u)
    <2>1. /\ s[1] = a /\ s[2] = b /\ s[3] = p /\ s[4] = x /\ s[5] = Top
          /\ u[1] = a /\ u[2] = b /\ u[3] = p /\ u[4] = x + 1 /\ u[5] = 0
      BY <1>2
    <2> QED BY <1>0, <1>1, <2>1 DEF TupleLess
  <1>3. ASSUME NEW a \in Int, NEW b \in Int, NEW p \in Int,
               s = <<a, b, p, Top, Top>>, u = <<a, b, p + 1, 0, 0>>
        PROVE  /\ TupleLess(s, t) <=> ~TupleLess(t, u)
               /\ TupleLess(t, s) <=> TupleLess(t, u)
    <2>1. /\ s[1] = a /\ s[2] = b /\ s[3] = p /\ s[4] = Top /\ s[5] = Top
          /\ u[1] = a /\ u[2] = b /\ u[3] = p + 1 /\ u[4] = 0 /\ u[5] = 0
      BY <1>3
    <2> QED BY <1>0, <1>1, <2>1 DEF TupleLess
  <1>4. CASE s = <<5, 0, -1, 0, Top>> /\ u = <<6, 0, 0, 0, 0>>
    <2>1. /\ s[1] = 5 /\ s[2] = 0 /\ s[3] = -1 /\ s[4] = 0 /\ s[5] = Top
          /\ u[1] = 6 /\ u[2] = 0 /\ u[3] = 0 /\ u[4] = 0 /\ u[5] = 0
      BY <1>4
    <2> QED BY <1>0, <1>1, <2>1 DEF TupleLess
  <1>5. CASE s = <<0, 0, -1, 0, 0>> /\ u = <<1, 0, -1, 0, 0>>
    <2>1. /\ s[1] = 0 /\ s[2] = 0 /\ s[3] = -1 /\ s[4] = 0 /\ s[5] = 0
          /\ u[1] = 1 /\ u[2] = 0 /\ u[3] = -1 /\ u[4] = 0 /\ u[5] = 0
      BY <1>5
    <2> QED BY <1>0, <1>1, <2>1 DEF TupleLess
  <1>6. ASSUME NEW a \in Int, NEW b \in Int,
               s = <<a, b, Top, Top, 0>>, u = <<a, b + 1, -1, 0, 0>>
        PROVE  /\ TupleLess(s, t) <=> ~TupleLess(t, u)
               /\ TupleLess(t, s) <=> TupleLess(t, u)
    <2>1. /\ s[1] = a /\ s[2] = b /\ s[3] = Top /\ s[4] = Top /\ s[5] = 0
          /\ u[1] = a /\ u[2] = b + 1 /\ u[3] = -1 /\ u[4] = 0 /\ u[5] = 0
      BY <1>6
    <2> QED BY <1>0, <1>1, <2>1 DEF TupleLess
  <1> QED BY <1>2, <1>3, <1>4, <1>5, <1>6 DEF Follows

\* The least version above a sentinel.
Succeeds(v, u) ==
    /\ Bound(u) /\ ~IsSentinel(Parts(u))
    /\ Parts(u).epoch = Parts(v).epoch /\ Parts(u).release = Parts(v).release
    /\ TupleNext(sortable_tuple(Parts(v)), sortable_tuple(Parts(u)))

LEMMA SuccessorIs ==
    ASSUME NEW v, Bound(v)
    PROVE  /\ ~IsSentinel(Parts(v)) => sentinel_successor(v) = <<>>
           /\ sentinel_successor(v) = <<>> \/ \E u : sentinel_successor(v) = <<u>> /\ Succeeds(v, u)
  <1> DEFINE c == Parts(v)
             w == with_local(v, NoLocal)
             e == Parts(w)
  <1>0. Top \in Nat /\ Top >= 1
    BY Widths
  <1>1. IsVersion(v) /\ BoundParts(c)
    BY DEF Bound
  <1>2. /\ c.epoch \in Nat /\ c.release \in Seq(Nat) /\ c.release # <<>>
        /\ c.pre # NoPre => c.pre[1] \in 2..4 /\ c.pre[2] \in Nat /\ c.pre[2] <= Top
        /\ c.post \in Nat \cup {None} /\ c.post <= Top
        /\ c.dev \in Nat \cup {None} /\ c.dev <= Top
        /\ c.min \in {None, 0} /\ c.max \in {None, 0}
        /\ c.local \in Nat \cup {LocalMax} /\ c.local < Top
        /\ c.min # None => /\ c.pre = NoPre /\ c.post = None /\ c.dev = None
                           /\ c.max = None /\ c.local = NoLocal
        /\ c.max # None => c.post = None /\ c.dev = None /\ c.local = NoLocal
    BY <1>1, BoundFields
  <1>3. IsSentinel(c) => /\ c.pre # NoPre => c.pre[2] < Top
                         /\ c.post < Top /\ c.dev < Top
    BY <1>1, PartsOKFields DEF BoundParts
  <1>4. /\ IsVersion(w) /\ e \in PartsType
        /\ e.epoch = c.epoch /\ e.release = c.release /\ e.pre = c.pre /\ e.post = c.post
        /\ e.dev = c.dev /\ e.min = c.min /\ e.max = c.max /\ e.local = NoLocal
    <2>1. NoLocal \in Nat \cup {LocalMax}
      BY DEF NoLocal
    <2> QED BY <1>1, <2>1, LocalSet
  <1>5. sentinel_successor(v) =
          IF c.local = LocalMax
          THEN IF c.dev # None       THEN <<with_dev(w, c.dev + 1)>>
               ELSE IF c.post # None THEN <<with_dev(with_post(w, c.post + 1), 0)>>
               ELSE <<with_dev(with_post(w, 0), 0)>>
          ELSE IF c.min # None THEN <<with_dev(with_min(v, None), 0)>>
          ELSE IF c.max # None /\ c.pre # NoPre
            THEN <<with_dev(with_pre(with_max(v, None), <<c.pre[1], c.pre[2] + 1>>), 0)>>
          ELSE <<>>
    BY DEF sentinel_successor
  <1>6. ~IsSentinel(c) => sentinel_successor(v) = <<>>
    BY <1>5 DEF IsSentinel
  <1>7. Five(sortable_tuple(c))
    BY <1>1, TupleType
  <1> HIDE DEF c, w, e
  <1>8. ASSUME c.local = LocalMax, c.dev # None
        PROVE  Succeeds(v, with_dev(w, c.dev + 1))
    <2> DEFINE u == with_dev(w, c.dev + 1)
               d == Parts(u)
    <2>1. /\ c.min = None /\ c.max = None /\ IsSentinel(c)
      BY <1>2, <1>8 DEF NoLocal, LocalMax, IsSentinel, None
    <2>2. c.dev + 1 \in Nat /\ c.dev + 1 \in Nat \cup {None} /\ c.dev + 1 <= Top
      BY <1>0, <1>2, <1>3, <1>8, <2>1
    <2>3. /\ IsVersion(u) /\ d \in PartsType
          /\ d.epoch = c.epoch /\ d.release = c.release /\ d.pre = c.pre /\ d.post = c.post
          /\ d.dev = c.dev + 1 /\ d.min = None /\ d.max = None /\ d.local = NoLocal
      BY <1>4, <2>1, <2>2, DevSet DEF e
    <2> HIDE DEF u, d
    <2>4. ~IsSentinel(d)
      BY <2>3 DEF IsSentinel, NoLocal, LocalMax
    <2>5. BoundParts(d)
      BY <1>0, <1>2, <2>2, <2>3, <2>4 DEF BoundParts, NoLocal
    <2>6. Follows(sortable_tuple(c), sortable_tuple(d))
      <3>1. CASE c.pre # NoPre
        <4>1. /\ sortable_tuple(c) = <<c.pre[1], c.pre[2], c.post, c.dev, Top>>
              /\ sortable_tuple(d) = <<c.pre[1], c.pre[2], c.post, c.dev + 1, 0>>
          BY <1>2, <1>8, <2>1, <2>2, <2>3, <3>1 DEF sortable_tuple, LocalRank, None, NoLocal, LocalMax
        <4>2. c.pre[1] \in Int /\ c.pre[2] \in Int /\ c.post \in Int /\ c.dev \in Int
          BY <1>2, <3>1 DEF None
        <4> QED BY <4>1, <4>2 DEF Follows
      <3>2. CASE c.pre = NoPre /\ c.post # None
        <4>1. /\ sortable_tuple(c) = <<6, 0, c.post, c.dev, Top>>
              /\ sortable_tuple(d) = <<6, 0, c.post, c.dev + 1, 0>>
          BY <1>2, <1>8, <2>1, <2>2, <2>3, <3>2 DEF sortable_tuple, LocalRank, None, NoLocal, LocalMax
        <4>2. 6 \in Int /\ 0 \in Int /\ c.post \in Int /\ c.dev \in Int
          BY <1>2 DEF None
        <4> QED BY <4>1, <4>2 DEF Follows
      <3>3. CASE c.pre = NoPre /\ c.post = None
        <4>1. /\ sortable_tuple(c) = <<1, 0, -1, c.dev, Top>>
              /\ sortable_tuple(d) = <<1, 0, -1, c.dev + 1, 0>>
          BY <1>2, <1>8, <2>1, <2>2, <2>3, <3>3 DEF sortable_tuple, LocalRank, None, NoLocal, LocalMax
        <4>2. 1 \in Int /\ 0 \in Int /\ -1 \in Int /\ c.dev \in Int
          BY <1>2 DEF None
        <4> QED BY <4>1, <4>2 DEF Follows
      <3> QED BY <3>1, <3>2, <3>3
    <2>7. TupleNext(sortable_tuple(c), sortable_tuple(d))
      BY <2>6, FollowsNext
    <2>8. Succeeds(v, u)
      BY <2>3, <2>4, <2>5, <2>7 DEF Succeeds, Bound, c, d
    <2> QED BY <2>8 DEF u
  <1>9. ASSUME c.local = LocalMax, c.dev = None, NEW x \in Nat, x = c.post + 1, x <= Top,
               c.pre # NoPre \/ c.post # None
        PROVE  Succeeds(v, with_dev(with_post(w, x), 0))
    <2> DEFINE y == with_post(w, x)
               g == Parts(y)
               u == with_dev(y, 0)
               d == Parts(u)
    <2>1. /\ c.min = None /\ c.max = None
      BY <1>2, <1>9 DEF NoLocal, LocalMax, None
    <2>2. x \in Nat \cup {None} /\ 0 \in Nat \cup {None}
      BY <1>9
    <2>3. /\ IsVersion(y) /\ g \in PartsType
          /\ g.epoch = c.epoch /\ g.release = c.release /\ g.pre = c.pre /\ g.post = x
          /\ g.min = None /\ g.max = None /\ g.local = NoLocal
      BY <1>4, <2>1, <2>2, PostSet DEF e
    <2> HIDE DEF y
    <2>4. /\ IsVersion(u) /\ d \in PartsType
          /\ d.epoch = c.epoch /\ d.release = c.release /\ d.pre = c.pre /\ d.post = x
          /\ d.dev = 0 /\ d.min = None /\ d.max = None /\ d.local = NoLocal
      BY <2>2, <2>3, DevSet
    <2> HIDE DEF u, d, g
    <2>5. ~IsSentinel(d)
      BY <2>4 DEF IsSentinel, NoLocal, LocalMax
    <2>6. BoundParts(d)
      BY <1>0, <1>2, <1>9, <2>4, <2>5 DEF BoundParts, NoLocal
    <2>7. Follows(sortable_tuple(c), sortable_tuple(d))
      <3>1. CASE c.pre # NoPre
        <4>1. /\ sortable_tuple(c) = <<c.pre[1], c.pre[2], c.post, Top, Top>>
              /\ sortable_tuple(d) = <<c.pre[1], c.pre[2], c.post + 1, 0, 0>>
          BY <1>2, <1>9, <2>1, <2>4, <3>1 DEF sortable_tuple, LocalRank, None, NoLocal, LocalMax
        <4>2. c.pre[1] \in Int /\ c.pre[2] \in Int /\ c.post \in Int
          BY <1>2, <3>1 DEF None
        <4> QED BY <4>1, <4>2 DEF Follows
      <3>2. CASE c.pre = NoPre
        <4>1. /\ sortable_tuple(c) = <<6, 0, c.post, Top, Top>>
              /\ sortable_tuple(d) = <<6, 0, c.post + 1, 0, 0>>
          BY <1>2, <1>9, <2>1, <2>4, <3>2 DEF sortable_tuple, LocalRank, None, NoLocal, LocalMax
        <4>2. 6 \in Int /\ 0 \in Int /\ c.post \in Int
          BY <1>2 DEF None
        <4> QED BY <4>1, <4>2 DEF Follows
      <3> QED BY <3>1, <3>2
    <2>8. TupleNext(sortable_tuple(c), sortable_tuple(d))
      BY <2>7, FollowsNext
    <2>9. Succeeds(v, u)
      BY <2>4, <2>5, <2>6, <2>8 DEF Succeeds, Bound, c, d
    <2> QED BY <2>9 DEF u, y
  <1>10. ASSUME c.local = LocalMax, c.dev = None, c.post = None, c.pre = NoPre
         PROVE  Succeeds(v, with_dev(with_post(w, 0), 0))
    <2> DEFINE y == with_post(w, 0)
               g == Parts(y)
               u == with_dev(y, 0)
               d == Parts(u)
    <2>1. /\ c.min = None /\ c.max = None
      BY <1>2, <1>10 DEF NoLocal, LocalMax, None
    <2>2. 0 \in Nat \cup {None}
      OBVIOUS
    <2>3. /\ IsVersion(y) /\ g \in PartsType
          /\ g.epoch = c.epoch /\ g.release = c.release /\ g.pre = c.pre /\ g.post = 0
          /\ g.min = None /\ g.max = None /\ g.local = NoLocal
      BY <1>4, <2>1, <2>2, PostSet DEF e
    <2> HIDE DEF y
    <2>4. /\ IsVersion(u) /\ d \in PartsType
          /\ d.epoch = c.epoch /\ d.release = c.release /\ d.pre = c.pre /\ d.post = 0
          /\ d.dev = 0 /\ d.min = None /\ d.max = None /\ d.local = NoLocal
      BY <2>2, <2>3, DevSet
    <2> HIDE DEF u, d, g
    <2>5. ~IsSentinel(d)
      BY <2>4 DEF IsSentinel, NoLocal, LocalMax
    <2>6. BoundParts(d)
      BY <1>0, <1>2, <1>10, <2>4, <2>5 DEF BoundParts, NoLocal
    <2>7. /\ sortable_tuple(c) = <<5, 0, -1, 0, Top>>
          /\ sortable_tuple(d) = <<6, 0, 0, 0, 0>>
      BY <1>10, <2>1, <2>4 DEF sortable_tuple, LocalRank, None, NoLocal, LocalMax
    <2>8. TupleNext(sortable_tuple(c), sortable_tuple(d))
      BY <2>7, FollowsNext DEF Follows
    <2>9. Succeeds(v, u)
      BY <2>4, <2>5, <2>6, <2>8 DEF Succeeds, Bound, c, d
    <2> QED BY <2>9 DEF u, y
  <1>11. ASSUME c.min # None
         PROVE  Succeeds(v, with_dev(with_min(v, None), 0))
    <2> DEFINE y == with_min(v, None)
               g == Parts(y)
               u == with_dev(y, 0)
               d == Parts(u)
    <2>1. /\ c.pre = NoPre /\ c.post = None /\ c.dev = None /\ c.max = None /\ c.local = NoLocal /\ c.min = 0
      BY <1>2, <1>11
    <2>2. None \in {None, 0} /\ 0 \in Nat \cup {None}
      OBVIOUS
    <2>3. /\ IsVersion(y) /\ g \in PartsType
          /\ g.epoch = c.epoch /\ g.release = c.release /\ g.pre = NoPre /\ g.post = None
          /\ g.min = None /\ g.max = None /\ g.local = NoLocal
      BY <1>1, <2>1, <2>2, MinSet DEF c
    <2> HIDE DEF y
    <2>4. /\ IsVersion(u) /\ d \in PartsType
          /\ d.epoch = c.epoch /\ d.release = c.release /\ d.pre = NoPre /\ d.post = None
          /\ d.dev = 0 /\ d.min = None /\ d.max = None /\ d.local = NoLocal
      BY <2>2, <2>3, DevSet
    <2> HIDE DEF u, d, g
    <2>5. ~IsSentinel(d)
      BY <2>4 DEF IsSentinel, NoLocal, LocalMax
    <2>6. BoundParts(d)
      BY <1>0, <1>2, <2>4, <2>5 DEF BoundParts, NoLocal, None
    <2>7. /\ sortable_tuple(c) = <<0, 0, -1, 0, 0>>
          /\ sortable_tuple(d) = <<1, 0, -1, 0, 0>>
      BY <2>1, <2>4 DEF sortable_tuple, LocalRank, None, NoLocal, LocalMax
    <2>8. TupleNext(sortable_tuple(c), sortable_tuple(d))
      BY <2>7, FollowsNext DEF Follows
    <2>9. Succeeds(v, u)
      BY <2>4, <2>5, <2>6, <2>8 DEF Succeeds, Bound, c, d
    <2> QED BY <2>9 DEF u, y
  <1>12. ASSUME c.max # None, c.pre # NoPre
         PROVE  Succeeds(v, with_dev(with_pre(with_max(v, None), <<c.pre[1], c.pre[2] + 1>>), 0))
    <2> DEFINE y == with_max(v, None)
               g == Parts(y)
               p == <<c.pre[1], c.pre[2] + 1>>
               z == with_pre(y, p)
               f == Parts(z)
               u == with_dev(z, 0)
               d == Parts(u)
    <2>1. /\ c.post = None /\ c.dev = None /\ c.min = None /\ c.local = NoLocal /\ IsSentinel(c)
      BY <1>2, <1>12 DEF IsSentinel
    <2>2. /\ None \in {None, 0} /\ 0 \in Nat \cup {None} /\ p \in ((2..4) \X Nat) \cup {NoPre}
          /\ p[2] <= Top /\ p # NoPre
      BY <1>0, <1>2, <1>3, <1>12, <2>1 DEF NoPre
    <2>3. /\ IsVersion(y) /\ g \in PartsType
          /\ g.epoch = c.epoch /\ g.release = c.release /\ g.post = None
          /\ g.min = None /\ g.max = None /\ g.local = NoLocal
      BY <1>1, <2>1, <2>2, MaxSet DEF c
    <2> HIDE DEF y
    <2>4. /\ IsVersion(z) /\ f \in PartsType
          /\ f.epoch = c.epoch /\ f.release = c.release /\ f.pre = p /\ f.post = None
          /\ f.min = None /\ f.max = None /\ f.local = NoLocal
      BY <2>2, <2>3, PreSet
    <2> HIDE DEF z
    <2>5. /\ IsVersion(u) /\ d \in PartsType
          /\ d.epoch = c.epoch /\ d.release = c.release /\ d.pre = p /\ d.post = None
          /\ d.dev = 0 /\ d.min = None /\ d.max = None /\ d.local = NoLocal
      BY <2>2, <2>4, DevSet
    <2> HIDE DEF u, d, g, f
    <2>6. ~IsSentinel(d)
      BY <2>5 DEF IsSentinel, NoLocal, LocalMax
    <2>7. BoundParts(d)
      BY <1>0, <1>2, <2>2, <2>5, <2>6 DEF BoundParts, NoLocal, None
    <2>8. /\ sortable_tuple(c) = <<c.pre[1], c.pre[2], Top, Top, 0>>
          /\ sortable_tuple(d) = <<c.pre[1], c.pre[2] + 1, -1, 0, 0>>
      <3>1. sortable_tuple(c) = <<c.pre[1], c.pre[2], Top, Top, 0>>
        BY <1>12, <2>1 DEF sortable_tuple, LocalRank, None, NoLocal, LocalMax
      <3>2. sortable_tuple(d) = <<p[1], p[2], -1, 0, 0>>
        BY <2>2, <2>5 DEF sortable_tuple, LocalRank, None, NoLocal, LocalMax
      <3> QED BY <3>1, <3>2
    <2>9. c.pre[1] \in Int /\ c.pre[2] \in Int
      BY <1>2, <1>12
    <2>10. TupleNext(sortable_tuple(c), sortable_tuple(d))
      BY <2>8, <2>9, FollowsNext DEF Follows
    <2>11. Succeeds(v, u)
      BY <2>5, <2>6, <2>7, <2>10 DEF Succeeds, Bound, c, d
    <2> QED BY <2>11 DEF u, z, y
  <1>13. c.local = LocalMax /\ c.dev = None /\ c.post # None =>
           Succeeds(v, with_dev(with_post(w, c.post + 1), 0))
    <2> SUFFICES ASSUME c.local = LocalMax, c.dev = None, c.post # None
                 PROVE  Succeeds(v, with_dev(with_post(w, c.post + 1), 0))
      OBVIOUS
    <2>1. c.post + 1 \in Nat /\ c.post + 1 <= Top
      BY <1>0, <1>2, <1>3 DEF IsSentinel
    <2> QED BY <1>9, <2>1
  <1>14. c.local = LocalMax /\ c.dev = None /\ c.post = None =>
           Succeeds(v, with_dev(with_post(w, 0), 0))
    <2> SUFFICES ASSUME c.local = LocalMax, c.dev = None, c.post = None
                 PROVE  Succeeds(v, with_dev(with_post(w, 0), 0))
      OBVIOUS
    <2>1. 0 \in Nat /\ 0 = c.post + 1 /\ 0 <= Top
      BY <1>0 DEF None
    <2>2. CASE c.pre = NoPre
      BY <1>10, <2>2
    <2>3. CASE c.pre # NoPre
      BY <1>9, <2>1, <2>3
    <2> QED BY <2>2, <2>3
  <1>15. sentinel_successor(v) = <<>> \/ \E u : sentinel_successor(v) = <<u>> /\ Succeeds(v, u)
    BY <1>5, <1>8, <1>11, <1>12, <1>13, <1>14, Zenon
  <1> QED BY <1>6, <1>15 DEF c

\* A version that can be written.
Real(w) == IsVersion(w) /\ Public(Parts(w))

LEMMA RealBound ==
    ASSUME NEW w, Real(w)
    PROVE  Bound(w)
  BY OKBound DEF Real, Bound, Public

\* How a real version compares with a bound.
LEMMA RealCompare ==
    ASSUME NEW v, Bound(v), NEW w, Real(w)
    PROVE  LET c == Parts(v)
               d == Parts(w)
               R == compare_release(d.release, c.release)
               L == Lexicographic(sortable_tuple(d), sortable_tuple(c))
           IN  /\ Compare(w, v) = Then(Sign(d.epoch - c.epoch), Then(R, L))
               /\ Compare(v, w) = 0 - Compare(w, v)
               /\ R \in {-1, 0, 1} /\ L \in {-1, 0, 1} /\ Compare(w, v) \in {-1, 0, 1}
               /\ L < 0 <=> TupleLess(sortable_tuple(d), sortable_tuple(c))
               /\ L > 0 <=> TupleLess(sortable_tuple(c), sortable_tuple(d))
               /\ c.epoch \in Nat /\ d.epoch \in Nat
               /\ c.release \in Seq(Nat) /\ d.release \in Seq(Nat)
               /\ Five(sortable_tuple(c)) /\ PublicTuple(sortable_tuple(d))
  <1> DEFINE c == Parts(v)
             d == Parts(w)
             R == compare_release(d.release, c.release)
             L == Lexicographic(sortable_tuple(d), sortable_tuple(c))
  <1>1. BoundParts(c) /\ BoundParts(d) /\ IsVersion(w) /\ Public(d)
    BY RealBound DEF Bound, Real
  <1>2. Compare(v, w) = Order(c, d) /\ Compare(w, v) = Order(d, c)
    BY <1>1, BoundCompare
  <1>3. Order(c, d) = 0 - Order(d, c) /\ Order(d, c) \in {-1, 0, 1}
    BY <1>1, OrderType
  <1>4. /\ c.epoch \in Nat /\ d.epoch \in Nat
        /\ c.release \in Seq(Nat) /\ d.release \in Seq(Nat)
    BY <1>1, BoundFields
  <1>5. R \in {-1, 0, 1}
    BY <1>4, CompareType
  <1>6. Five(sortable_tuple(c)) /\ Five(sortable_tuple(d)) /\ PublicTuple(sortable_tuple(d))
    BY <1>1, TupleType, PublicTupleIs
  <1>7. /\ L \in {-1, 0, 1}
        /\ L < 0 <=> TupleLess(sortable_tuple(d), sortable_tuple(c))
        /\ L > 0 <=> TupleLess(sortable_tuple(c), sortable_tuple(d))
    BY <1>6, LexLess
  <1>8. Order(d, c) = Then(Sign(d.epoch - c.epoch), Then(R, L))
    BY DEF Order
  <1> QED BY <1>2, <1>3, <1>4, <1>5, <1>6, <1>7, <1>8

\* The successor takes the place of the sentinel.
LEMMA SuccessorOrder ==
    ASSUME NEW v, Bound(v), NEW u, Succeeds(v, u), NEW w, Real(w)
    PROVE  /\ Compare(w, v) > 0 <=> Compare(w, u) >= 0
           /\ Compare(w, v) >= 0 <=> Compare(w, u) >= 0
           /\ Compare(w, v) < 0 <=> Compare(w, u) < 0
           /\ Compare(w, v) <= 0 <=> Compare(w, u) < 0
  <1> DEFINE c == Parts(v)
             b == Parts(u)
             d == Parts(w)
             R == compare_release(d.release, c.release)
             L == Lexicographic(sortable_tuple(d), sortable_tuple(c))
             M == Lexicographic(sortable_tuple(d), sortable_tuple(b))
  <1>1. Bound(u) /\ b.epoch = c.epoch /\ b.release = c.release /\ TupleNext(sortable_tuple(c), sortable_tuple(b))
    BY DEF Succeeds
  <1>2. /\ Compare(w, v) = Then(Sign(d.epoch - c.epoch), Then(R, L))
        /\ R \in {-1, 0, 1} /\ L \in {-1, 0, 1}
        /\ L < 0 <=> TupleLess(sortable_tuple(d), sortable_tuple(c))
        /\ L > 0 <=> TupleLess(sortable_tuple(c), sortable_tuple(d))
        /\ c.epoch \in Nat /\ d.epoch \in Nat /\ PublicTuple(sortable_tuple(d))
    BY RealCompare
  <1>3. /\ Compare(w, u) = Then(Sign(d.epoch - b.epoch), Then(compare_release(d.release, b.release), M))
        /\ M \in {-1, 0, 1}
        /\ M < 0 <=> TupleLess(sortable_tuple(d), sortable_tuple(b))
    BY <1>1, RealCompare
  <1>4. /\ TupleLess(sortable_tuple(c), sortable_tuple(d)) <=> ~TupleLess(sortable_tuple(d), sortable_tuple(b))
        /\ TupleLess(sortable_tuple(d), sortable_tuple(c)) <=> TupleLess(sortable_tuple(d), sortable_tuple(b))
    BY <1>1, <1>2 DEF TupleNext
  <1>5. Compare(w, u) = Then(Sign(d.epoch - c.epoch), Then(R, M))
    BY <1>1, <1>3
  <1>6. (L > 0 <=> M >= 0) /\ (L < 0 <=> M < 0)
    BY <1>2, <1>3, <1>4
  <1> HIDE DEF R, L, M, c, d
  <1> QED BY <1>2, <1>3, <1>5, <1>6 DEF Then, Sign

\* No version is below 0.dev0.
LEMMA FloorIs ==
    LET f == Parts(PEP440_MIN_VERSION) IN
    /\ Real(PEP440_MIN_VERSION)
    /\ f.epoch = 0 /\ f.release = << 0 >> /\ sortable_tuple(f) = <<1, 0, -1, 0, 0>>
  <1> DEFINE v == VersionNew(<<0>>)
             F == with_dev(v, 0)
             f == Parts(F)
  <1>1. <<0>> \in Seq(Nat) /\ <<0>> # <<>> /\ 0 \in Nat \cup {None}
    OBVIOUS
  <1>2. IsVersion(v) /\ Parts(v) = NoParts(<<0>>)
    BY <1>1, NewVersion
  <1> HIDE DEF v
  <1>3. /\ IsVersion(F) /\ f \in PartsType
        /\ f.epoch = 0 /\ f.release = <<0>> /\ f.pre = NoPre /\ f.post = None
        /\ f.dev = 0 /\ f.min = None /\ f.max = None /\ f.local = NoLocal
    BY <1>1, <1>2, DevSet, NoPartsFields
  <1> HIDE DEF F, f
  <1>4. Public(f)
    BY <1>1, <1>3, Widths DEF Public, PartsOK, None, NoLocal, LocalMax
  <1>5. sortable_tuple(f) = <<1, 0, -1, 0, 0>>
    BY <1>3 DEF sortable_tuple, LocalRank, None, NoLocal, LocalMax
  <1>6. PEP440_MIN_VERSION = F
    BY DEF PEP440_MIN_VERSION, F, v
  <1> QED BY <1>3, <1>4, <1>5, <1>6 DEF Real, f

LEMMA ZeroLeast ==
    ASSUME NEW r \in Seq(Nat)
    PROVE  compare_release(r, << 0 >>) \in {0, 1}
  <1>1. <<0>> \in Seq(Nat)
    OBVIOUS
  <1>2. CASE Same(r, <<0>>) /\ compare_release(r, <<0>>) = 0
    BY <1>2
  <1>3. ASSUME NEW i \in Nat \ {0}, FirstAt(r, << 0 >>, i),
               compare_release(r, << 0 >>) = Sign(Segment(r, i) - Segment(<< 0 >>, i))
        PROVE  compare_release(r, << 0 >>) \in {0, 1}
    <2>1. Segment(<<0>>, i) = 0
      BY DEF Segment
    <2>2. Segment(r, i) \in Nat
      BY SegmentNat
    <2> QED BY <1>3, <2>1, <2>2 DEF Sign
  <1> QED BY <1>1, <1>2, <1>3, SegmentOrder

LEMMA AboveFloor ==
    ASSUME NEW v, Bound(v), NEW w, Real(w)
    PROVE  /\ Compare(v, PEP440_MIN_VERSION) <= 0 => Compare(w, v) >= 0
           /\ Compare(v, PEP440_MIN_VERSION) < 0 => Compare(w, v) > 0
  <1> DEFINE F == PEP440_MIN_VERSION
             f == Parts(F)
             c == Parts(v)
             d == Parts(w)
             R == compare_release(d.release, c.release)
             L == Lexicographic(sortable_tuple(d), sortable_tuple(c))
             Q == compare_release(f.release, c.release)
             M == Lexicographic(sortable_tuple(f), sortable_tuple(c))
  <1>1. /\ Real(F) /\ f.epoch = 0 /\ f.release = <<0>> /\ sortable_tuple(f) = <<1, 0, -1, 0, 0>>
    BY FloorIs
  <1>2. /\ Compare(w, v) = Then(Sign(d.epoch - c.epoch), Then(R, L))
        /\ R \in {-1, 0, 1} /\ L \in {-1, 0, 1}
        /\ L < 0 <=> TupleLess(sortable_tuple(d), sortable_tuple(c))
        /\ L > 0 <=> TupleLess(sortable_tuple(c), sortable_tuple(d))
        /\ c.epoch \in Nat /\ d.epoch \in Nat
        /\ c.release \in Seq(Nat) /\ d.release \in Seq(Nat)
        /\ Five(sortable_tuple(c)) /\ PublicTuple(sortable_tuple(d))
    BY RealCompare
  <1>3. /\ Compare(F, v) = Then(Sign(f.epoch - c.epoch), Then(Q, M))
        /\ Compare(v, F) = 0 - Compare(F, v)
        /\ Q \in {-1, 0, 1} /\ M \in {-1, 0, 1} /\ Compare(F, v) \in {-1, 0, 1}
        /\ M < 0 <=> TupleLess(sortable_tuple(f), sortable_tuple(c))
        /\ M > 0 <=> TupleLess(sortable_tuple(c), sortable_tuple(f))
    BY <1>1, RealCompare
  <1>4. <<0>> \in Seq(Nat)
    OBVIOUS
  <1>5. Q = 0 - compare_release(c.release, <<0>>) /\ (Q = 0 => Same(c.release, <<0>>))
    <2>1. Q = compare_release(<<0>>, c.release)
      BY <1>1
    <2>2. /\ compare_release(<<0>>, c.release) = 0 - compare_release(c.release, <<0>>)
          /\ compare_release(c.release, <<0>>) = 0 <=> Same(c.release, <<0>>)
          /\ compare_release(c.release, <<0>>) \in {-1, 0, 1}
      BY <1>2, <1>4, CompareType
    <2> QED BY <2>1, <2>2
  <1>6. compare_release(c.release, <<0>>) \in {0, 1} /\ compare_release(d.release, <<0>>) \in {0, 1}
    BY <1>2, ZeroLeast
  <1>7. Q = 0 => R = compare_release(d.release, <<0>>)
    BY <1>2, <1>4, <1>5, CompareSame
  <1>8. /\ sortable_tuple(c)[1] \in Int /\ sortable_tuple(c)[2] \in Int /\ sortable_tuple(c)[3] \in Int
        /\ sortable_tuple(c)[4] \in Int /\ sortable_tuple(c)[5] \in Int
    BY <1>2, FiveInts
  <1>9. (M >= 0 => L >= 0) /\ (M > 0 => L > 0)
    <2> DEFINE s == sortable_tuple(c)
               t == sortable_tuple(d)
               u == sortable_tuple(f)
    <2>1. /\ t[1] \in 1..6 /\ t[2] \in 0..Top - 1
          /\ t[3] \in -1..Top - 1 /\ t[4] \in 0..Top /\ t[5] \in 0..Top - 1
          /\ t[1] = 1 => t[2] = 0 /\ t[3] = -1
      BY <1>2 DEF PublicTuple
    <2>2. u[1] = 1 /\ u[2] = 0 /\ u[3] = -1 /\ u[4] = 0 /\ u[5] = 0
      BY <1>1
    <2>3. /\ s[1] \in Int /\ s[2] \in Int /\ s[3] \in Int /\ s[4] \in Int /\ s[5] \in Int
      BY <1>8
    <2> HIDE DEF s, t, u
    <2>4. ~TupleLess(u, s) => ~TupleLess(t, s)
      BY <2>1, <2>2, <2>3, Widths DEF TupleLess
    <2>5. TupleLess(s, u) => TupleLess(s, t)
      BY <2>1, <2>2, <2>3, Widths DEF TupleLess
    <2> QED BY <1>2, <1>3, <2>4, <2>5 DEF s, t, u
  <1>10. Compare(F, v) = Then(Sign(0 - c.epoch), Then(Q, M))
    BY <1>1, <1>3
  <1> HIDE DEF R, L, Q, M, c, d, F, f
  <1>11. Q \in {-1, 0}
    BY <1>5, <1>6
  <1>12. /\ Compare(v, F) <= 0 => c.epoch = 0 /\ Q = 0 /\ M >= 0
         /\ Compare(v, F) < 0 => c.epoch = 0 /\ Q = 0 /\ M > 0
    BY <1>2, <1>3, <1>10, <1>11 DEF Then, Sign
  <1>13. ASSUME c.epoch = 0, R \in {0, 1}
         PROVE  /\ L >= 0 => Compare(w, v) >= 0
                /\ L > 0 => Compare(w, v) > 0
    BY <1>2, <1>13 DEF Then, Sign
  <1>14. Q = 0 => R \in {0, 1}
    BY <1>6, <1>7
  <1>15. /\ Compare(v, F) <= 0 => Compare(w, v) >= 0
         /\ Compare(v, F) < 0 => Compare(w, v) > 0
    BY <1>9, <1>12, <1>13, <1>14
  <1> QED BY <1>15 DEF F

-----------------------------------------------------------------------------
(* Canonical ranges.                                                       *)

Limit(b) == b = Unbounded \/ \E v : Bound(v) /\ (b = Included(v) \/ b = Excluded(v))

LEMMA LimitFields ==
    ASSUME NEW v
    PROVE  /\ Included(v)[1] = "included" /\ Included(v)[2] = v
           /\ Excluded(v)[1] = "excluded" /\ Excluded(v)[2] = v
           /\ Unbounded[1] = "unbounded"
           /\ Included(v) # Unbounded /\ Excluded(v) # Unbounded
  <1>1. /\ Included(v)[1] = "included" /\ Included(v)[2] = v
        /\ Excluded(v)[1] = "excluded" /\ Excluded(v)[2] = v
        /\ Unbounded[1] = "unbounded"
    BY DEF Included, Excluded, Unbounded
  <1> QED BY <1>1, BoundsDiffer

\* A limit with its sentinel replaced, on either side.
Lowered(b) == IF Successor(b) = <<>> THEN b ELSE Included(Successor(b)[1])
Raised(b)  == IF Successor(b) = <<>> THEN b ELSE Excluded(Successor(b)[1])

LEMMA Replaced ==
    ASSUME NEW b, Limit(b)
    PROVE  /\ Limit(Lowered(b)) /\ Successor(Lowered(b)) = <<>>
           /\ Limit(Raised(b)) /\ Successor(Raised(b)) = <<>>
           /\ \A w : Real(w) => /\ AboveLower(Lowered(b), w) <=> AboveLower(b, w)
                                /\ BelowUpper(Raised(b), w) <=> BelowUpper(b, w)
  <1>1. CASE b = Unbounded
    <2>1. Successor(b) = <<>>
      BY <1>1 DEF Successor
    <2> QED BY <1>1, <2>1 DEF Lowered, Raised, Limit
  <1>2. ASSUME NEW v, Bound(v), b = Included(v) \/ b = Excluded(v)
        PROVE  /\ Limit(Lowered(b)) /\ Successor(Lowered(b)) = <<>>
               /\ Limit(Raised(b)) /\ Successor(Raised(b)) = <<>>
               /\ \A w : Real(w) => /\ AboveLower(Lowered(b), w) <=> AboveLower(b, w)
                                    /\ BelowUpper(Raised(b), w) <=> BelowUpper(b, w)
    <2>1. b # Unbounded /\ b[2] = v
      BY <1>2, LimitFields
    <2>2. Successor(b) = sentinel_successor(v)
      BY <2>1 DEF Successor
    <2>3. CASE sentinel_successor(v) = <<>>
      <3>1. Lowered(b) = b /\ Raised(b) = b
        BY <2>2, <2>3 DEF Lowered, Raised
      <3> QED BY <2>2, <2>3, <3>1
    <2>4. ASSUME NEW u, sentinel_successor(v) = <<u>>, Succeeds(v, u)
          PROVE  /\ Limit(Lowered(b)) /\ Successor(Lowered(b)) = <<>>
                 /\ Limit(Raised(b)) /\ Successor(Raised(b)) = <<>>
                 /\ \A w : Real(w) => /\ AboveLower(Lowered(b), w) <=> AboveLower(b, w)
                                      /\ BelowUpper(Raised(b), w) <=> BelowUpper(b, w)
      <3>1. Successor(b) # <<>> /\ Successor(b)[1] = u
        BY <2>2, <2>4
      <3>2. Lowered(b) = Included(u) /\ Raised(b) = Excluded(u)
        BY <3>1 DEF Lowered, Raised
      <3>3. Bound(u) /\ ~IsSentinel(Parts(u))
        BY <2>4 DEF Succeeds
      <3>4. sentinel_successor(u) = <<>>
        BY <3>3, SuccessorIs
      <3>5. Successor(Included(u)) = <<>> /\ Successor(Excluded(u)) = <<>>
        BY <3>4, LimitFields DEF Successor
      <3>6. Limit(Included(u)) /\ Limit(Excluded(u))
        BY <3>3 DEF Limit
      <3>7. ASSUME NEW w, Real(w)
            PROVE  /\ AboveLower(Lowered(b), w) <=> AboveLower(b, w)
                   /\ BelowUpper(Raised(b), w) <=> BelowUpper(b, w)
        <4>1. /\ Compare(w, v) > 0 <=> Compare(w, u) >= 0
              /\ Compare(w, v) >= 0 <=> Compare(w, u) >= 0
              /\ Compare(w, v) < 0 <=> Compare(w, u) < 0
              /\ Compare(w, v) <= 0 <=> Compare(w, u) < 0
          BY <1>2, <2>4, <3>7, SuccessorOrder
        <4>2. /\ AboveLower(Included(u), w) <=> Compare(w, u) >= 0
              /\ AboveLower(Included(v), w) <=> Compare(w, v) >= 0
              /\ AboveLower(Excluded(v), w) <=> Compare(w, v) > 0
          BY Above
        <4>3. /\ BelowUpper(Excluded(u), w) <=> Compare(w, u) < 0
              /\ BelowUpper(Included(v), w) <=> Compare(w, v) <= 0
              /\ BelowUpper(Excluded(v), w) <=> Compare(w, v) < 0
          BY BelowIs
        <4>4. CASE b = Included(v)
          BY <3>2, <4>1, <4>2, <4>3, <4>4
        <4>5. CASE b = Excluded(v)
          BY <3>2, <4>1, <4>2, <4>3, <4>5
        <4> QED BY <1>2, <4>4, <4>5
      <3> QED BY <3>2, <3>5, <3>6, <3>7
    <2> QED BY <1>2, <2>3, <2>4, SuccessorIs
  <1> QED BY <1>1, <1>2 DEF Limit

\* Whether a lower limit is at or below the floor.
NoLower(l) ==
    \/ l[1] = "included" /\ Compare(l[2], PEP440_MIN_VERSION) <= 0
    \/ l[1] = "excluded" /\ Compare(l[2], PEP440_MIN_VERSION) < 0

LEMMA CanonicalIs ==
    ASSUME NEW b
    PROVE  /\ CanonicalLower(b) = IF NoLower(Lowered(b)) THEN Unbounded ELSE Lowered(b)
           /\ CanonicalUpper(b) = Raised(b)
  <1> DEFINE l == Lowered(b)
             p == l[1] = "included" /\ Compare(l[2], PEP440_MIN_VERSION) <= 0
             q == l[1] = "excluded" /\ Compare(l[2], PEP440_MIN_VERSION) < 0
  <1>1. CanonicalLower(b) = CASE p -> Unbounded [] q -> Unbounded [] OTHER -> l
    BY DEF CanonicalLower, Lowered
  <1>2. NoLower(l) <=> p \/ q
    BY DEF NoLower
  <1> HIDE DEF p, q, l
  <1>3. CanonicalLower(b) = IF NoLower(l) THEN Unbounded ELSE l
    BY <1>1, <1>2
  <1>4. CanonicalUpper(b) = Raised(b)
    BY DEF CanonicalUpper, Raised
  <1> QED BY <1>3, <1>4 DEF l

\* A limit and its canonical form hold the same versions.
LEMMA CanonicalLimits ==
    ASSUME NEW b, Limit(b), NEW w, Real(w)
    PROVE  /\ AboveLower(CanonicalLower(b), w) <=> AboveLower(b, w)
           /\ BelowUpper(CanonicalUpper(b), w) <=> BelowUpper(b, w)
           /\ BelowFloor(CanonicalUpper(b)) => ~BelowUpper(b, w)
  <1>1. /\ Limit(Lowered(b)) /\ Limit(Raised(b))
        /\ AboveLower(Lowered(b), w) <=> AboveLower(b, w)
        /\ BelowUpper(Raised(b), w) <=> BelowUpper(b, w)
    BY Replaced
  <1>2. NoLower(Lowered(b)) => AboveLower(Lowered(b), w)
    <2> SUFFICES ASSUME NoLower(Lowered(b)) PROVE AboveLower(Lowered(b), w)
      OBVIOUS
    <2>1. CASE Lowered(b) = Unbounded
      BY <2>1, Above
    <2>2. ASSUME NEW v, Bound(v), Lowered(b) = Included(v) PROVE AboveLower(Lowered(b), w)
      <3>1. Compare(v, PEP440_MIN_VERSION) <= 0
        BY <2>2, LimitFields DEF NoLower
      <3>2. Compare(w, v) >= 0
        BY <2>2, <3>1, AboveFloor
      <3> QED BY <2>2, <3>2, Above
    <2>3. ASSUME NEW v, Bound(v), Lowered(b) = Excluded(v) PROVE AboveLower(Lowered(b), w)
      <3>1. Compare(v, PEP440_MIN_VERSION) < 0
        BY <2>3, LimitFields DEF NoLower
      <3>2. Compare(w, v) > 0
        BY <2>3, <3>1, AboveFloor
      <3> QED BY <2>3, <3>2, Above
    <2> QED BY <1>1, <2>1, <2>2, <2>3 DEF Limit
  <1>3. AboveLower(Unbounded, w)
    BY Above
  <1>4. AboveLower(CanonicalLower(b), w) <=> AboveLower(b, w)
    BY <1>1, <1>2, <1>3, CanonicalIs
  <1>5. BelowFloor(Raised(b)) => ~BelowUpper(Raised(b), w)
    <2> SUFFICES ASSUME BelowFloor(Raised(b)) PROVE ~BelowUpper(Raised(b), w)
      OBVIOUS
    <2>1. Raised(b) # Unbounded
      BY LimitFields DEF BelowFloor
    <2>2. ASSUME NEW v, Bound(v), Raised(b) = Included(v) PROVE ~BelowUpper(Raised(b), w)
      <3>1. Compare(v, PEP440_MIN_VERSION) < 0
        BY <2>2, LimitFields DEF BelowFloor
      <3>2. Compare(w, v) > 0 /\ Compare(w, v) \in {-1, 0, 1}
        BY <2>2, <3>1, AboveFloor, RealCompare
      <3> QED BY <2>2, <3>2, BelowIs
    <2>3. ASSUME NEW v, Bound(v), Raised(b) = Excluded(v) PROVE ~BelowUpper(Raised(b), w)
      <3>1. Compare(v, PEP440_MIN_VERSION) <= 0
        BY <2>3, LimitFields DEF BelowFloor
      <3>2. Compare(w, v) >= 0 /\ Compare(w, v) \in {-1, 0, 1}
        BY <2>3, <3>1, AboveFloor, RealCompare
      <3> QED BY <2>3, <3>2, BelowIs
    <2> QED BY <1>1, <2>1, <2>2, <2>3 DEF Limit
  <1> QED BY <1>1, <1>4, <1>5, CanonicalIs

\* The canonical form of a limit is its own.
LEMMA CanonicalTwice ==
    ASSUME NEW b, Limit(b)
    PROVE  /\ CanonicalLower(CanonicalLower(b)) = CanonicalLower(b)
           /\ CanonicalUpper(CanonicalUpper(b)) = CanonicalUpper(b)
  <1>1. Successor(Lowered(b)) = <<>> /\ Successor(Raised(b)) = <<>>
    BY Replaced
  <1>2. Lowered(Lowered(b)) = Lowered(b) /\ Raised(Raised(b)) = Raised(b)
    BY <1>1 DEF Lowered, Raised
  <1>3. Lowered(Unbounded) = Unbounded /\ ~NoLower(Unbounded)
    BY LimitFields DEF Lowered, Successor, NoLower
  <1>4. CanonicalUpper(CanonicalUpper(b)) = CanonicalUpper(b)
    BY <1>2, CanonicalIs
  <1>5. CASE NoLower(Lowered(b))
    <2>1. CanonicalLower(b) = Unbounded
      BY <1>5, CanonicalIs
    <2>2. CanonicalLower(Unbounded) = Unbounded
      BY <1>3, CanonicalIs
    <2> QED BY <1>4, <2>1, <2>2
  <1>6. CASE ~NoLower(Lowered(b))
    <2>1. CanonicalLower(b) = Lowered(b)
      BY <1>6, CanonicalIs
    <2>2. CanonicalLower(Lowered(b)) = Lowered(b)
      BY <1>2, <1>6, CanonicalIs
    <2> QED BY <1>4, <2>1, <2>2
  <1> QED BY <1>5, <1>6

Interval(i) ==
    /\ i = [lower |-> i.lower, upper |-> i.upper]
    /\ Limit(i.lower) /\ Limit(i.upper)

\* A range and its canonical form hold the same versions, and the canonical form
\* is its own.
LEMMA CanonicalRange ==
    ASSUME NEW range, \A i \in range : Interval(i)
    PROVE  LET canonical == canonicalize_version_ranges(range) IN
           /\ \A w : Real(w) => (InRange(range, w) <=> InRange(canonical, w))
           /\ canonicalize_version_ranges(canonical) = canonical
  <1> DEFINE C(i) == [lower |-> CanonicalLower(i.lower), upper |-> CanonicalUpper(i.upper)]
             Keep(A) == {i \in A : ~BelowFloor(CanonicalUpper(i.upper))}
             canonical == canonicalize_version_ranges(range)
  <1>1. ASSUME NEW A PROVE canonicalize_version_ranges(A) = {C(i) : i \in Keep(A)}
    BY DEF canonicalize_version_ranges
  <1>2. ASSUME NEW w, Real(w)
        PROVE  InRange(range, w) <=> InRange(canonical, w)
    <2>1. ASSUME NEW i \in range, AboveLower(i.lower, w), BelowUpper(i.upper, w)
          PROVE  InRange(canonical, w)
      <3>1. Limit(i.lower) /\ Limit(i.upper)
        BY DEF Interval
      <3>2. /\ AboveLower(CanonicalLower(i.lower), w) /\ BelowUpper(CanonicalUpper(i.upper), w)
            /\ ~BelowFloor(CanonicalUpper(i.upper))
        BY <1>2, <2>1, <3>1, CanonicalLimits
      <3>3. C(i) \in canonical
        BY <1>1, <3>2
      <3>4. C(i).lower = CanonicalLower(i.lower) /\ C(i).upper = CanonicalUpper(i.upper)
        OBVIOUS
      <3> HIDE DEF C, canonical
      <3> QED BY <3>2, <3>3, <3>4 DEF InRange
    <2>2. ASSUME NEW k \in canonical, AboveLower(k.lower, w), BelowUpper(k.upper, w)
          PROVE  InRange(range, w)
      <3>1. PICK i \in range : k = C(i)
        BY <1>1
      <3>2. Limit(i.lower) /\ Limit(i.upper)
        BY DEF Interval
      <3>3. k.lower = CanonicalLower(i.lower) /\ k.upper = CanonicalUpper(i.upper)
        BY <3>1
      <3>4. AboveLower(i.lower, w) /\ BelowUpper(i.upper, w)
        BY <1>2, <2>2, <3>2, <3>3, CanonicalLimits
      <3> QED BY <3>4 DEF InRange
    <2> HIDE DEF canonical
    <2> QED BY <2>1, <2>2 DEF InRange
  <1>3. \A k \in canonical : C(k) = k /\ ~BelowFloor(CanonicalUpper(k.upper))
    <2> SUFFICES ASSUME NEW k \in canonical PROVE C(k) = k /\ ~BelowFloor(CanonicalUpper(k.upper))
      OBVIOUS
    <2>1. PICK i \in range : k = C(i) /\ ~BelowFloor(CanonicalUpper(i.upper))
      BY <1>1
    <2>2. Limit(i.lower) /\ Limit(i.upper)
      BY DEF Interval
    <2>3. k.lower = CanonicalLower(i.lower) /\ k.upper = CanonicalUpper(i.upper)
      BY <2>1
    <2>4. CanonicalLower(k.lower) = k.lower /\ CanonicalUpper(k.upper) = k.upper
      BY <2>2, <2>3, CanonicalTwice
    <2>5. C(k) = [lower |-> k.lower, upper |-> k.upper]
      BY <2>4
    <2>6. k = [lower |-> k.lower, upper |-> k.upper]
      BY <2>1, <2>3
    <2> QED BY <2>1, <2>3, <2>4, <2>5, <2>6
  <1> HIDE DEF C, canonical
  <1>4. Keep(canonical) = canonical
    BY <1>3
  <1>5. {C(k) : k \in canonical} = canonical
    BY <1>3
  <1>6. canonicalize_version_ranges(canonical) = canonical
    BY <1>1, <1>4, <1>5
  <1> QED BY <1>2, <1>6 DEF canonical

-----------------------------------------------------------------------------
(* Specifiers and their ranges.                                            *)

\* The local version is the last place of the tuple.
LEMMA LocalTuple ==
    ASSUME NEW c, NEW d, c.pre = d.pre, c.post = d.post, c.dev = d.dev, c.min = d.min, c.max = d.max
    PROVE  LET s == sortable_tuple(c)
               t == sortable_tuple(d)
           IN  /\ s[1] = t[1] /\ s[2] = t[2] /\ s[3] = t[3] /\ s[4] = t[4]
               /\ s[5] = LocalRank(c.local) /\ t[5] = LocalRank(d.local)
  <1> DEFINE s == sortable_tuple(c)
             t == sortable_tuple(d)
             post == IF c.max # None THEN Top ELSE c.post
             dev  == IF c.dev = None THEN Top ELSE c.dev
             F(x) == IF c.min # None       THEN <<0, 0, post, c.min, x>>
                     ELSE IF c.pre # NoPre THEN <<c.pre[1], c.pre[2], post, dev, x>>
                     ELSE IF post # None   THEN <<6, 0, post, dev, x>>
                     ELSE IF c.dev # None  THEN <<1, 0, None, c.dev, x>>
                     ELSE <<5, 0, None, 0, x>>
  <1>1. s = F(LocalRank(c.local))
    BY DEF sortable_tuple
  <1>2. t = F(LocalRank(d.local))
    BY DEF sortable_tuple
  <1>3. ASSUME NEW x, NEW y
        PROVE  /\ F(x)[1] = F(y)[1] /\ F(x)[2] = F(y)[2] /\ F(x)[3] = F(y)[3] /\ F(x)[4] = F(y)[4]
               /\ F(x)[5] = x
    <2> HIDE DEF post, dev
    <2>1. CASE c.min # None
      BY <2>1
    <2>2. CASE c.min = None /\ c.pre # NoPre
      BY <2>2
    <2>3. CASE c.min = None /\ c.pre = NoPre /\ post # None
      BY <2>3
    <2>4. CASE c.min = None /\ c.pre = NoPre /\ post = None /\ c.dev # None
      BY <2>4
    <2>5. CASE c.min = None /\ c.pre = NoPre /\ post = None /\ c.dev = None
      BY <2>5
    <2> QED BY <2>1, <2>2, <2>3, <2>4, <2>5
  <1> HIDE DEF F, s, t
  <1>4. /\ s[1] = t[1] /\ s[2] = t[2] /\ s[3] = t[3] /\ s[4] = t[4]
        /\ s[5] = LocalRank(c.local) /\ t[5] = LocalRank(d.local)
    BY <1>1, <1>2, <1>3
  <1> QED BY <1>4 DEF s, t

\* A version without its local version.
LEMMA Stripped ==
    ASSUME NEW w, Real(w)
    PROVE  LET u == with_local(w, NoLocal)
               d == Parts(w)
               o == Parts(u)
               s == sortable_tuple(d)
               t == sortable_tuple(o)
           IN  /\ Real(u) /\ o.epoch = d.epoch /\ o.release = d.release /\ o.pre = d.pre
               /\ o.post = d.post /\ o.dev = d.dev /\ o.local = NoLocal
               /\ t[1] = s[1] /\ t[2] = s[2] /\ t[3] = s[3] /\ t[4] = s[4] /\ t[5] = 0
  <1> DEFINE u == with_local(w, NoLocal)
             d == Parts(w)
             o == Parts(u)
             s == sortable_tuple(d)
             t == sortable_tuple(o)
  <1>1. NoLocal \in Nat \cup {LocalMax} /\ IsVersion(w) /\ Public(d)
    BY DEF NoLocal, Real
  <1>2. /\ IsVersion(u) /\ o \in PartsType
        /\ o.epoch = d.epoch /\ o.release = d.release /\ o.pre = d.pre /\ o.post = d.post
        /\ o.dev = d.dev /\ o.min = d.min /\ o.max = d.max /\ o.local = NoLocal
    BY <1>1, LocalSet
  <1> HIDE DEF d, o, u
  <1>3. Public(o)
    BY <1>1, <1>2, Widths DEF Public, PartsOK, NoLocal, LocalMax, None
  <1>4. t[1] = s[1] /\ t[2] = s[2] /\ t[3] = s[3] /\ t[4] = s[4] /\ t[5] = LocalRank(o.local)
    BY <1>2, LocalTuple
  <1>5. LocalRank(NoLocal) = 0
    BY DEF LocalRank, NoLocal, LocalMax
  <1> QED BY <1>2, <1>3, <1>4, <1>5 DEF Real, d, o, u

\* The sentinel above the local versions of a version.
LEMMA LocalTop ==
    ASSUME NEW v, Real(v), Parts(v).local = NoLocal
    PROVE  LET u == with_local(v, LocalMax)
               c == Parts(v)
               b == Parts(u)
               s == sortable_tuple(c)
               t == sortable_tuple(b)
           IN  /\ Bound(u) /\ b.epoch = c.epoch /\ b.release = c.release
               /\ t[1] = s[1] /\ t[2] = s[2] /\ t[3] = s[3] /\ t[4] = s[4] /\ t[5] = Top /\ s[5] = 0
  <1> DEFINE u == with_local(v, LocalMax)
             c == Parts(v)
             b == Parts(u)
             s == sortable_tuple(c)
             t == sortable_tuple(b)
  <1>1. LocalMax \in Nat \cup {LocalMax} /\ IsVersion(v) /\ Public(c)
    BY DEF Real
  <1>2. /\ IsVersion(u) /\ b \in PartsType
        /\ b.epoch = c.epoch /\ b.release = c.release /\ b.pre = c.pre /\ b.post = c.post
        /\ b.dev = c.dev /\ b.min = c.min /\ b.max = c.max /\ b.local = LocalMax
    BY <1>1, LocalSet
  <1>0. c.local = NoLocal
    OBVIOUS
  <1> HIDE DEF c, b, u
  <1>3. PartsOK(b)
    BY <1>1, <1>2, Widths DEF Public, PartsOK, NoLocal, LocalMax, None
  <1>4. /\ s[1] = t[1] /\ s[2] = t[2] /\ s[3] = t[3] /\ s[4] = t[4]
        /\ s[5] = LocalRank(c.local) /\ t[5] = LocalRank(b.local)
    BY <1>2, LocalTuple
  <1>5. LocalRank(NoLocal) = 0 /\ LocalRank(LocalMax) = Top
    BY DEF LocalRank, NoLocal, LocalMax
  <1> QED BY <1>0, <1>2, <1>3, <1>4, <1>5, OKBound DEF Bound, c, b, u

\* A version of a specifier without a local version takes others without theirs:
\* from itself up to the sentinel they are all the same to it.
LEMMA LocalsBetween ==
    ASSUME NEW v, Real(v), Parts(v).local = NoLocal, NEW w, Real(w)
    PROVE  LET x == Compare(with_local(w, NoLocal), v)
               y == Compare(w, v)
               z == Compare(w, with_local(v, LocalMax))
           IN  /\ x \in {-1, 0, 1} /\ y \in {-1, 0, 1} /\ z \in {-1, 0, 1}
               /\ x < 0 <=> y < 0
               /\ x > 0 <=> z > 0
  <1> DEFINE o == with_local(w, NoLocal)
             u == with_local(v, LocalMax)
             x == Compare(o, v)
             y == Compare(w, v)
             z == Compare(w, u)
             c == Parts(v)
             d == Parts(w)
             R == compare_release(d.release, c.release)
             tc == sortable_tuple(c)
             td == sortable_tuple(d)
             to == sortable_tuple(Parts(o))
             tu == sortable_tuple(Parts(u))
             X == Lexicographic(to, tc)
             Y == Lexicographic(td, tc)
             Z == Lexicographic(td, tu)
  <1>1. Bound(v)
    BY RealBound
  <1>2. /\ Real(o) /\ Parts(o).epoch = d.epoch /\ Parts(o).release = d.release
        /\ to[1] = td[1] /\ to[2] = td[2] /\ to[3] = td[3] /\ to[4] = td[4] /\ to[5] = 0
    BY Stripped
  <1>3. /\ Bound(u) /\ Parts(u).epoch = c.epoch /\ Parts(u).release = c.release
        /\ tu[1] = tc[1] /\ tu[2] = tc[2] /\ tu[3] = tc[3] /\ tu[4] = tc[4] /\ tu[5] = Top /\ tc[5] = 0
    BY LocalTop
  <1>4. /\ y = Then(Sign(d.epoch - c.epoch), Then(R, Y))
        /\ R \in {-1, 0, 1} /\ Y \in {-1, 0, 1} /\ y \in {-1, 0, 1}
        /\ Y < 0 <=> TupleLess(td, tc)
        /\ Y > 0 <=> TupleLess(tc, td)
        /\ c.epoch \in Nat /\ d.epoch \in Nat
        /\ Five(tc) /\ PublicTuple(td)
    BY <1>1, RealCompare
  <1>5. /\ x = Then(Sign(Parts(o).epoch - c.epoch), Then(compare_release(Parts(o).release, c.release), X))
        /\ X \in {-1, 0, 1} /\ x \in {-1, 0, 1}
        /\ X < 0 <=> TupleLess(to, tc)
        /\ X > 0 <=> TupleLess(tc, to)
    BY <1>1, <1>2, RealCompare
  <1>6. /\ z = Then(Sign(d.epoch - Parts(u).epoch), Then(compare_release(d.release, Parts(u).release), Z))
        /\ Z \in {-1, 0, 1} /\ z \in {-1, 0, 1}
        /\ Z < 0 <=> TupleLess(td, tu)
        /\ Z > 0 <=> TupleLess(tu, td)
    BY <1>3, RealCompare
  <1>7. x = Then(Sign(d.epoch - c.epoch), Then(R, X)) /\ z = Then(Sign(d.epoch - c.epoch), Then(R, Z))
    BY <1>2, <1>3, <1>5, <1>6
  <1>8. /\ td[1] \in Int /\ td[2] \in Int /\ td[3] \in Int /\ td[4] \in Int /\ td[5] \in 0..Top - 1
    BY <1>4, FiveInts DEF PublicTuple
  <1>9. /\ tc[1] \in Int /\ tc[2] \in Int /\ tc[3] \in Int /\ tc[4] \in Int
    BY <1>4, FiveInts
  <1>t. Top \in Nat
    BY Widths
  <1> HIDE DEF o, u, x, y, z, c, d, R, tc, td, to, tu, X, Y, Z
  <1>10. TupleLess(to, tc) <=> TupleLess(td, tc)
    BY <1>t, <1>2, <1>3, <1>8, <1>9 DEF TupleLess
  <1>11. TupleLess(tc, to) <=> TupleLess(tu, td)
    BY <1>t, <1>2, <1>3, <1>8, <1>9 DEF TupleLess
  <1>12. (X < 0 <=> Y < 0) /\ (X > 0 <=> Z > 0)
    BY <1>4, <1>5, <1>6, <1>10, <1>11
  <1>13. (x < 0 <=> y < 0) /\ (x > 0 <=> z > 0)
    BY <1>4, <1>5, <1>6, <1>7, <1>12 DEF Then, Sign
  <1> QED BY <1>4, <1>5, <1>6, <1>13 DEF o, u, x, y, z

LEMMA BetweenLimits ==
    ASSUME NEW l, NEW u, Limit(l), Limit(u)
    PROVE  \A i \in Between(l, u) : Interval(i)
  BY DEF Between, Interval

LEMMA LimitOf ==
    ASSUME NEW v, Bound(v)
    PROVE  Limit(Included(v)) /\ Limit(Excluded(v)) /\ Limit(Unbounded)
  BY DEF Limit

\* A bound below all versions of its release.
LEMMA LowestCompare ==
    ASSUME NEW b, Bound(b), NEW w, Real(w),
           sortable_tuple(Parts(b)) = <<0, 0, -1, 0, 0>> \/ sortable_tuple(Parts(b)) = <<1, 0, -1, 0, 0>>
    PROVE  LET c == Parts(b)
               d == Parts(w)
           IN  /\ Compare(w, b) \in {-1, 0, 1}
               /\ Compare(w, b) < 0 <=> \/ d.epoch < c.epoch
                                        \/ d.epoch = c.epoch /\ compare_release(d.release, c.release) < 0
  <1> DEFINE c == Parts(b)
             d == Parts(w)
             R == compare_release(d.release, c.release)
             s == sortable_tuple(c)
             t == sortable_tuple(d)
             L == Lexicographic(t, s)
  <1>1. /\ Compare(w, b) = Then(Sign(d.epoch - c.epoch), Then(R, L))
        /\ R \in {-1, 0, 1} /\ L \in {-1, 0, 1} /\ Compare(w, b) \in {-1, 0, 1}
        /\ L < 0 <=> TupleLess(t, s)
        /\ c.epoch \in Nat /\ d.epoch \in Nat
        /\ PublicTuple(t)
    BY RealCompare
  <1>2. /\ t[1] \in 1..6 /\ t[2] \in 0..Top - 1
        /\ t[3] \in -1..Top - 1 /\ t[4] \in 0..Top /\ t[5] \in 0..Top - 1
        /\ t[1] = 1 => t[2] = 0 /\ t[3] = -1
    BY <1>1 DEF PublicTuple
  <1>3. s[1] \in {0, 1} /\ s[2] = 0 /\ s[3] = -1 /\ s[4] = 0 /\ s[5] = 0
    <2>1. s = <<0, 0, -1, 0, 0>> \/ s = <<1, 0, -1, 0, 0>>
      OBVIOUS
    <2> HIDE DEF s
    <2> QED BY <2>1
  <1> HIDE DEF c, d, R, s, t, L
  <1>4. ~TupleLess(t, s)
    BY <1>2, <1>3, Widths DEF TupleLess
  <1>5. L >= 0
    BY <1>1, <1>4
  <1>6. Compare(w, b) < 0 <=> d.epoch < c.epoch \/ (d.epoch = c.epoch /\ R < 0)
    BY <1>1, <1>5 DEF Then, Sign
  <1> QED BY <1>1, <1>6 DEF c, d, R

\* The version itself as a development release.
LEMMA DevZero ==
    ASSUME NEW v, Real(v), Parts(v).local = NoLocal, ~any_prerelease(Parts(v))
    PROVE  LET u == with_dev(v, 0)
               c == Parts(v)
               b == Parts(u)
           IN  /\ Bound(u) /\ b.epoch = c.epoch /\ b.release = c.release
               /\ IsVersion(u) /\ b.pre = NoPre /\ b.post = c.post /\ b.dev = 0
               /\ b.min = None /\ b.max = None /\ b.local = NoLocal
               /\ c.post # None => sortable_tuple(b) = <<6, 0, c.post, 0, 0>>
               /\ c.post = None => sortable_tuple(b) = <<1, 0, -1, 0, 0>>
               /\ c.post # None => sortable_tuple(c) = <<6, 0, c.post, Top, 0>>
               /\ c.post = None => sortable_tuple(c) = <<5, 0, -1, 0, 0>>
  <1> DEFINE u == with_dev(v, 0)
             c == Parts(v)
             b == Parts(u)
  <1>0. 0 \in Nat \cup {None} /\ IsVersion(v) /\ Public(c)
    BY DEF Real
  <1>1. c.local = NoLocal /\ c.pre = NoPre /\ c.dev = None /\ c.min = None /\ c.max = None
    BY <1>0 DEF any_prerelease, Public
  <1>2. /\ IsVersion(u) /\ b \in PartsType
        /\ b.epoch = c.epoch /\ b.release = c.release /\ b.pre = c.pre /\ b.post = c.post
        /\ b.dev = 0 /\ b.min = c.min /\ b.max = c.max /\ b.local = c.local
    BY <1>0, DevSet
  <1> HIDE DEF c, b, u
  <1>3. PartsOK(b)
    BY <1>0, <1>1, <1>2, Widths DEF Public, PartsOK, None
  <1>4. /\ c.post # None => sortable_tuple(b) = <<6, 0, c.post, 0, 0>>
        /\ c.post = None => sortable_tuple(b) = <<1, 0, -1, 0, 0>>
    BY <1>1, <1>2 DEF sortable_tuple, LocalRank, None, NoLocal, LocalMax
  <1>5. /\ c.post # None => sortable_tuple(c) = <<6, 0, c.post, Top, 0>>
        /\ c.post = None => sortable_tuple(c) = <<5, 0, -1, 0, 0>>
    BY <1>1 DEF sortable_tuple, LocalRank, None, NoLocal, LocalMax
  <1> QED BY <1>1, <1>2, <1>3, <1>4, <1>5, OKBound DEF Bound, c, b, u

\* < and its range.
LEMMA LessHolds ==
    ASSUME NEW v, Real(v), Parts(v).local = NoLocal
    PROVE  /\ \A i \in LessRange(v) : Interval(i)
           /\ \A w : Real(w) => (contains("<", v, w) <=> InRange(LessRange(v), w))
  <1> DEFINE c == Parts(v)
             u == IF any_prerelease(c) THEN v
                  ELSE IF c.post # None THEN with_dev(v, 0) ELSE with_min(v, 0)
  <1>0. /\ IsVersion(v) /\ Public(c) /\ c.local = NoLocal /\ Bound(v) /\ 0 \in {None, 0}
    BY RealBound DEF Real
  <1>1. LessRange(v) = Between(Unbounded, Excluded(u))
    BY DEF LessRange
  <1>2. ASSUME ~any_prerelease(c), c.post = None
        PROVE  LET m == with_min(v, 0)
                   b == Parts(m)
               IN  /\ Bound(m) /\ b.epoch = c.epoch /\ b.release = c.release
                   /\ sortable_tuple(b) = <<0, 0, -1, 0, 0>>
    <2> DEFINE m == with_min(v, 0)
               b == Parts(m)
    <2>1. /\ IsVersion(m) /\ b \in PartsType
          /\ b.epoch = c.epoch /\ b.release = c.release /\ b.pre = c.pre /\ b.post = c.post
          /\ b.dev = c.dev /\ b.min = 0 /\ b.max = c.max /\ b.local = c.local
      BY <1>0, MinSet
    <2>2. c.pre = NoPre /\ c.dev = None /\ c.max = None
      BY <1>0, <1>2 DEF any_prerelease, Public
    <2> HIDE DEF b, m, c
    <2>3. PartsOK(b)
      BY <1>0, <1>2, <2>1, <2>2, Widths DEF Public, PartsOK, None
    <2>4. sortable_tuple(b) = <<0, 0, -1, 0, 0>>
      BY <1>0, <1>2, <2>1, <2>2 DEF sortable_tuple, LocalRank, None, NoLocal, LocalMax
    <2> QED BY <2>1, <2>3, <2>4, OKBound DEF Bound, b, m
  <1>3. Bound(u)
    BY <1>0, <1>2, DevZero
  <1>4. \A i \in LessRange(v) : Interval(i)
    <2> HIDE DEF u
    <2> QED BY <1>1, <1>3, LimitOf, BetweenLimits
  <1>5. ASSUME NEW w, Real(w)
        PROVE  contains("<", v, w) <=> InRange(LessRange(v), w)
    <2> DEFINE other == with_local(w, NoLocal)
               o == Parts(other)
               d == Parts(w)
               x == Compare(other, v)
               y == Compare(w, v)
               R == compare_release(d.release, c.release)
               tc == sortable_tuple(c)
               td == sortable_tuple(d)
               to == sortable_tuple(o)
    <2>1. contains("<", v, w) <=>
            \/ o.epoch < c.epoch
            \/ /\ ~(~any_prerelease(c) /\ any_prerelease(o) /\ Compare(other, with_dev(v, 0)) >= 0)
               /\ x < 0
      <3>1. (IF Parts(v).local = NoLocal THEN with_local(w, NoLocal) ELSE w) = other
        OBVIOUS
      <3> HIDE DEF other
      <3> QED BY <3>1 DEF contains
    <2>2. InRange(LessRange(v), w) <=> Compare(w, u) < 0
      <3> HIDE DEF u
      <3> QED BY <1>1, InBetween, Above, BelowIs
    <2>3. x \in {-1, 0, 1} /\ y \in {-1, 0, 1} /\ (x < 0 <=> y < 0)
      BY <1>5, LocalsBetween
    <2>4. /\ Real(other) /\ o.epoch = d.epoch /\ o.release = d.release /\ o.pre = d.pre
          /\ o.post = d.post /\ o.dev = d.dev /\ o.local = NoLocal
          /\ to[1] = td[1] /\ to[2] = td[2] /\ to[3] = td[3] /\ to[4] = td[4] /\ to[5] = 0
      BY <1>5, Stripped
    <2>5. /\ x = Then(Sign(o.epoch - c.epoch), Then(compare_release(o.release, c.release), Lexicographic(to, tc)))
          /\ R \in {-1, 0, 1} /\ Lexicographic(to, tc) \in {-1, 0, 1}
          /\ Lexicographic(to, tc) < 0 <=> TupleLess(to, tc)
          /\ c.epoch \in Nat /\ d.epoch \in Nat /\ PublicTuple(to)
      BY <1>0, <2>4, RealCompare
    <2>6. CASE any_prerelease(c)
      <3>1. u = v
        BY <2>6
      <3>2. d.epoch < c.epoch => x < 0
        <4> HIDE DEF x, c, d, R, to, tc, other, o
        <4> QED BY <2>4, <2>5 DEF Then, Sign
      <3> HIDE DEF x, y, other, c, o
      <3> QED BY <2>1, <2>2, <2>3, <2>4, <2>6, <3>1, <3>2 DEF y
    <2>7. CASE ~any_prerelease(c)
      <3> DEFINE z == with_dev(v, 0)
                 b == Parts(z)
                 tb == sortable_tuple(b)
                 X == Lexicographic(to, tc)
                 Z == Lexicographic(to, tb)
                 W == Lexicographic(td, tb)
      <3>1. /\ Bound(z) /\ b.epoch = c.epoch /\ b.release = c.release
            /\ c.post # None => tb = <<6, 0, c.post, 0, 0>>
            /\ c.post = None => tb = <<1, 0, -1, 0, 0>>
            /\ c.post # None => tc = <<6, 0, c.post, Top, 0>>
            /\ c.post = None => tc = <<5, 0, -1, 0, 0>>
        BY <2>7, DevZero
      <3>2. /\ Compare(other, z) = Then(Sign(o.epoch - b.epoch), Then(compare_release(o.release, b.release), Z))
            /\ Z \in {-1, 0, 1} /\ Compare(other, z) \in {-1, 0, 1}
            /\ Z < 0 <=> TupleLess(to, tb)
        BY <2>4, <3>1, RealCompare
      <3>3. /\ Compare(w, z) = Then(Sign(d.epoch - b.epoch), Then(compare_release(d.release, b.release), W))
            /\ W \in {-1, 0, 1}
            /\ W < 0 <=> TupleLess(td, tb)
            /\ PublicTuple(td)
        BY <1>5, <3>1, RealCompare
      <3>4. /\ x = Then(Sign(d.epoch - c.epoch), Then(R, X))
            /\ Compare(other, z) = Then(Sign(d.epoch - c.epoch), Then(R, Z))
            /\ Compare(w, z) = Then(Sign(d.epoch - c.epoch), Then(R, W))
        BY <2>4, <2>5, <3>1, <3>2, <3>3
      <3>5. /\ to[1] \in 1..6 /\ to[2] \in 0..Top - 1
            /\ to[3] \in -1..Top - 1 /\ to[4] \in 0..Top /\ to[5] \in 0..Top - 1
            /\ to[1] = 1 => to[2] = 0 /\ to[3] = -1
            /\ to[1] = 5 => to[2] = 0 /\ to[3] = -1 /\ to[4] = 0
            /\ to[1] = 6 => to[2] = 0 /\ to[3] >= 0
        BY <2>5 DEF PublicTuple
      <3>6. ~any_prerelease(o) => \/ to = <<5, 0, -1, 0, 0>>
                                  \/ to = <<6, 0, o.post, Top, 0>> /\ o.post \in Nat
        <4>1. Public(o)
          BY <2>4 DEF Real
        <4>2. o.min = None /\ o.max = None /\ o.post \in Nat \cup {None}
          BY <4>1, PartsOKFields DEF Public
        <4> HIDE DEF o
        <4> QED BY <2>4, <4>2 DEF sortable_tuple, any_prerelease, LocalRank, None, NoLocal, LocalMax
      <3>7. c.post \in Nat \cup {None}
        BY <1>0, PartsOKFields DEF Public
      <3>8. Top \in Nat /\ Top >= 1
        BY Widths
      <3>9. CASE c.post = None
        <4>1. u = with_min(v, 0)
          BY <2>7, <3>9
        <4>2. Compare(w, u) < 0 <=> d.epoch < c.epoch \/ (d.epoch = c.epoch /\ R < 0)
          <5> DEFINE m == with_min(v, 0)
          <5>1. /\ Bound(m) /\ Parts(m).epoch = c.epoch /\ Parts(m).release = c.release
                /\ sortable_tuple(Parts(m)) = <<0, 0, -1, 0, 0>>
            BY <1>2, <2>7, <3>9
          <5> HIDE DEF m
          <5>2. Compare(w, m) < 0 <=> \/ d.epoch < Parts(m).epoch
                                      \/ d.epoch = Parts(m).epoch /\ compare_release(d.release, Parts(m).release) < 0
            BY <1>5, <5>1, LowestCompare
          <5> QED BY <4>1, <5>1, <5>2 DEF m
        <4>3. /\ tb[1] = 1 /\ tb[2] = 0 /\ tb[3] = -1 /\ tb[4] = 0 /\ tb[5] = 0
              /\ tc[1] = 5 /\ tc[2] = 0 /\ tc[3] = -1 /\ tc[4] = 0 /\ tc[5] = 0
          BY <3>1, <3>9
        <4> HIDE DEF to, tb, tc, X, Z, W, x, z, o, other, R, u
        <4>4. Z >= 0
          BY <3>2, <3>5, <3>8, <4>3 DEF TupleLess
        <4>5. ~any_prerelease(o) => X >= 0
          <5> SUFFICES ASSUME ~any_prerelease(o) PROVE ~TupleLess(to, tc)
            BY <2>5 DEF X
          <5>1. \/ to[1] = 5 /\ to[2] = 0 /\ to[3] = -1 /\ to[4] = 0 /\ to[5] = 0
                \/ to[1] = 6
            BY <3>6
          <5> QED BY <4>3, <5>1 DEF TupleLess
        <4>6. X \in {-1, 0, 1}
          BY <2>5 DEF X
        <4>7. x < 0 <=> \/ d.epoch < c.epoch
                        \/ d.epoch = c.epoch /\ (R < 0 \/ (R = 0 /\ X < 0))
          BY <2>5, <3>4, <4>6 DEF Then, Sign
        <4>8. Compare(other, z) >= 0 <=> \/ d.epoch > c.epoch
                                         \/ d.epoch = c.epoch /\ R >= 0
          BY <2>5, <3>2, <3>4, <4>4 DEF Then, Sign
        <4> HIDE DEF c, d
        <4>9. R \in {-1, 0, 1} /\ c.epoch \in Nat /\ d.epoch \in Nat
          BY <2>5
        <4> QED BY <2>1, <2>2, <2>4, <2>7, <4>2, <4>5, <4>6, <4>7, <4>8, <4>9 DEF z
      <3>10. CASE c.post # None
        <4>1. u = z
          BY <2>7, <3>10
        <4>3. /\ tb[1] = 6 /\ tb[2] = 0 /\ tb[3] = c.post /\ tb[4] = 0 /\ tb[5] = 0
              /\ tc[1] = 6 /\ tc[2] = 0 /\ tc[3] = c.post /\ tc[4] = Top /\ tc[5] = 0
          BY <3>1, <3>10
        <4>4. td[5] \in 0..Top - 1
          BY <3>3 DEF PublicTuple
        <4>p. c.post \in Nat
          BY <3>7, <3>10
        <4> HIDE DEF to, tb, tc, td, X, Z, W, x, z, o, other, R, u
        <4>5. Z < 0 <=> W < 0
          <5>1. TupleLess(to, tb) <=> TupleLess(td, tb)
            BY <2>4, <3>5, <3>8, <4>3, <4>4, <4>p DEF TupleLess
          <5> QED BY <3>2, <3>3, <5>1
        <4>6. X \in {-1, 0, 1} /\ (X < 0 <=> TupleLess(to, tc))
          BY <2>5 DEF X
        <4>7. Z < 0 => X < 0
          <5>1. TupleLess(to, tb) => TupleLess(to, tc)
            BY <3>5, <3>8, <4>3, <4>p DEF TupleLess
          <5> QED BY <3>2, <4>6, <5>1
        <4>8. ~any_prerelease(o) /\ X < 0 => Z < 0
          <5> SUFFICES ASSUME ~any_prerelease(o), TupleLess(to, tc) PROVE TupleLess(to, tb)
            BY <3>2, <4>6
          <5>1. \/ to[1] = 5 /\ to[2] = 0 /\ to[3] = -1 /\ to[4] = 0 /\ to[5] = 0
                \/ to[1] = 6 /\ to[2] = 0 /\ to[3] = o.post /\ to[4] = Top /\ to[5] = 0 /\ o.post \in Nat
            BY <3>6
          <5> QED BY <3>8, <4>3, <4>p, <5>1 DEF TupleLess
        <4>9. x < 0 <=> \/ d.epoch < c.epoch
                        \/ d.epoch = c.epoch /\ (R < 0 \/ (R = 0 /\ X < 0))
          BY <2>5, <3>4, <4>6 DEF Then, Sign
        <4>10. Compare(other, z) >= 0 <=> \/ d.epoch > c.epoch
                                          \/ d.epoch = c.epoch /\ (R > 0 \/ (R = 0 /\ Z >= 0))
          BY <2>5, <3>2, <3>4 DEF Then, Sign
        <4>11. Compare(w, z) < 0 <=> \/ d.epoch < c.epoch
                                     \/ d.epoch = c.epoch /\ (R < 0 \/ (R = 0 /\ W < 0))
          BY <2>5, <3>3, <3>4 DEF Then, Sign
        <4> HIDE DEF c, d
        <4>12. R \in {-1, 0, 1} /\ c.epoch \in Nat /\ d.epoch \in Nat
          BY <2>5
        <4> QED BY <2>1, <2>2, <2>4, <2>7, <3>2, <3>3, <4>1, <4>5, <4>6, <4>7, <4>8, <4>9, <4>10, <4>11, <4>12 DEF z
      <3> QED BY <3>9, <3>10
    <2> QED BY <2>6, <2>7
  <1> QED BY <1>4, <1>5

\* > and its range, but for later post-releases of the release of a pre-release.
LEMMA GreaterHolds ==
    ASSUME NEW v, Real(v), Parts(v).local = NoLocal
    PROVE  /\ \A i \in GreaterRange(v) : Interval(i)
           /\ \A w : Real(w) =>
                LET c == Parts(v)
                    d == Parts(w)
                IN  \/ /\ any_prerelease(c) /\ c.post = None /\ d.post # None /\ d.epoch = c.epoch
                       /\ compare_release(c.release, d.release) = 0
                       /\ Compare(v, w) < 0 /\ (c.dev # None \/ d.pre # c.pre)
                    \/ contains(">", v, w) <=> InRange(GreaterRange(v), w)
  <1> DEFINE c == Parts(v)
             tc == sortable_tuple(c)
             up == with_dev(v, c.dev + 1)
             loc == with_local(v, LocalMax)
             max == with_max(v, 0)
  <1>0. /\ IsVersion(v) /\ Public(c) /\ c.local = NoLocal /\ Bound(v) /\ 0 \in {None, 0}
    BY RealBound DEF Real
  <1>1. /\ c.min = None /\ c.max = None /\ c.epoch \in Nat /\ c.release \in Seq(Nat)
        /\ c.pre # NoPre => c.pre[1] \in 2..4 /\ c.pre[2] \in Nat
        /\ c.post \in Nat \cup {None} /\ c.post < Top
        /\ c.dev \in Nat \cup {None} /\ c.dev < Top /\ PartsOK(c)
    BY <1>0, PartsOKFields DEF Public
  <1>t. Top \in Nat /\ Top >= 1
    BY Widths
  <1>2. ASSUME c.dev # None
        PROVE  LET b == Parts(up)
                   tb == sortable_tuple(b)
               IN  /\ Bound(up) /\ b.epoch = c.epoch /\ b.release = c.release
                   /\ tb[1] = tc[1] /\ tb[2] = tc[2] /\ tb[3] = tc[3] /\ tb[4] = c.dev + 1 /\ tb[5] = 0
                   /\ tc[4] = c.dev /\ tc[5] = 0
    <2> DEFINE b == Parts(up)
    <2>1. c.dev \in Nat /\ c.dev + 1 \in Nat \cup {None} /\ c.dev + 1 \in Nat /\ c.dev + 1 <= Top
      BY <1>1, <1>2, <1>t
    <2>2. /\ IsVersion(up) /\ b \in PartsType
          /\ b.epoch = c.epoch /\ b.release = c.release /\ b.pre = c.pre /\ b.post = c.post
          /\ b.dev = c.dev + 1 /\ b.min = c.min /\ b.max = c.max /\ b.local = c.local
      BY <1>0, <2>1, DevSet
    <2>3. c.pre # NoPre => c.pre[2] <= Top
      <3>1. c.pre # NoPre => c.pre[2] \in Nat /\ c.pre[2] < Top
        BY <1>1, PartsOKFields
      <3> QED BY <1>t, <3>1
    <2>4. c.release # <<>>
      BY <1>1, PartsOKFields
    <2> HIDE DEF b, c, up
    <2>5. ~IsSentinel(b)
      BY <1>0, <1>1, <2>2 DEF IsSentinel, NoLocal, LocalMax
    <2>6. BoundParts(b)
      BY <1>0, <1>1, <1>t, <2>1, <2>2, <2>3, <2>4, <2>5 DEF BoundParts, NoLocal, None
    <2>7. CASE c.pre # NoPre
      <3>1. /\ tc = <<c.pre[1], c.pre[2], c.post, c.dev, 0>>
            /\ sortable_tuple(b) = <<c.pre[1], c.pre[2], c.post, c.dev + 1, 0>>
        BY <1>0, <1>1, <1>2, <2>1, <2>2, <2>7 DEF sortable_tuple, LocalRank, None, NoLocal, LocalMax
      <3> QED BY <2>2, <2>6, <3>1 DEF Bound, b
    <2>8. CASE c.pre = NoPre /\ c.post # None
      <3>1. /\ tc = <<6, 0, c.post, c.dev, 0>>
            /\ sortable_tuple(b) = <<6, 0, c.post, c.dev + 1, 0>>
        BY <1>0, <1>1, <1>2, <2>1, <2>2, <2>8 DEF sortable_tuple, LocalRank, None, NoLocal, LocalMax
      <3> QED BY <2>2, <2>6, <3>1 DEF Bound, b
    <2>9. CASE c.pre = NoPre /\ c.post = None
      <3>1. /\ tc = <<1, 0, -1, c.dev, 0>>
            /\ sortable_tuple(b) = <<1, 0, -1, c.dev + 1, 0>>
        BY <1>0, <1>1, <1>2, <2>1, <2>2, <2>9 DEF sortable_tuple, LocalRank, None, NoLocal, LocalMax
      <3> QED BY <2>2, <2>6, <3>1 DEF Bound, b
    <2> QED BY <2>7, <2>8, <2>9
  <1>3. ASSUME c.dev = None, c.post = None
        PROVE  LET b == Parts(max)
                   tb == sortable_tuple(b)
               IN  /\ Bound(max) /\ b.epoch = c.epoch /\ b.release = c.release
                   /\ c.pre # NoPre => /\ tc = <<c.pre[1], c.pre[2], -1, Top, 0>>
                                       /\ tb = <<c.pre[1], c.pre[2], Top, Top, 0>>
                   /\ c.pre = NoPre => tc = <<5, 0, -1, 0, 0>> /\ tb = <<6, 0, Top, Top, 0>>
    <2> DEFINE b == Parts(max)
    <2>1. /\ IsVersion(max) /\ b \in PartsType
          /\ b.epoch = c.epoch /\ b.release = c.release /\ b.pre = c.pre /\ b.post = c.post
          /\ b.dev = c.dev /\ b.min = c.min /\ b.max = 0 /\ b.local = c.local
      BY <1>0, MaxSet
    <2> HIDE DEF b, c, max
    <2>2. PartsOK(b)
      BY <1>0, <1>1, <1>3, <1>t, <2>1 DEF PartsOK, None
    <2>3. c.pre # NoPre => /\ tc = <<c.pre[1], c.pre[2], -1, Top, 0>>
                           /\ sortable_tuple(b) = <<c.pre[1], c.pre[2], Top, Top, 0>>
      BY <1>0, <1>1, <1>3, <2>1 DEF sortable_tuple, LocalRank, None, NoLocal, LocalMax
    <2>4. c.pre = NoPre => tc = <<5, 0, -1, 0, 0>> /\ sortable_tuple(b) = <<6, 0, Top, Top, 0>>
      BY <1>0, <1>1, <1>3, <1>t, <2>1 DEF sortable_tuple, LocalRank, None, NoLocal, LocalMax
    <2> QED BY <2>1, <2>2, <2>3, <2>4, OKBound DEF Bound, b
  <1>4. Bound(loc)
    BY LocalTop
  <1>5. /\ c.dev # None => GreaterRange(v) = Between(Included(up), Unbounded)
        /\ c.dev = None /\ c.post # None => GreaterRange(v) = Between(Excluded(loc), Unbounded)
        /\ c.dev = None /\ c.post = None => GreaterRange(v) = Between(Excluded(max), Unbounded)
    BY DEF GreaterRange
  <1>6. /\ c.dev # None => Bound(up)
        /\ c.dev = None /\ c.post = None => Bound(max)
    BY <1>2, <1>3
  <1>7. \A i \in GreaterRange(v) : Interval(i)
    <2> HIDE DEF up, loc, max, c
    <2>1. CASE c.dev # None
      BY <1>5, <1>6, <2>1, LimitOf, BetweenLimits
    <2>2. CASE c.dev = None /\ c.post # None
      BY <1>4, <1>5, <2>2, LimitOf, BetweenLimits
    <2>3. CASE c.dev = None /\ c.post = None
      BY <1>5, <1>6, <2>3, LimitOf, BetweenLimits
    <2> QED BY <2>1, <2>2, <2>3
  <1>8. ASSUME NEW w, Real(w),
               ~(/\ any_prerelease(c) /\ c.post = None /\ Parts(w).post # None /\ Parts(w).epoch = c.epoch
                 /\ compare_release(c.release, Parts(w).release) = 0
                 /\ Compare(v, w) < 0 /\ (c.dev # None \/ Parts(w).pre # c.pre))
        PROVE  contains(">", v, w) <=> InRange(GreaterRange(v), w)
    <2> DEFINE other == with_local(w, NoLocal)
               o == Parts(other)
               d == Parts(w)
               x == Compare(other, v)
               R == compare_release(d.release, c.release)
               td == sortable_tuple(d)
               to == sortable_tuple(o)
               X == Lexicographic(to, tc)
    <2>1. contains(">", v, w) <=>
            \/ o.epoch > c.epoch
            \/ /\ compare_release(c.release, o.release) = 0 =>
                    ~(c.post = None /\ o.post # None) /\ o.local = NoLocal
               /\ x > 0
      <3>1. (IF Parts(v).local = NoLocal THEN with_local(w, NoLocal) ELSE w) = other
        OBVIOUS
      <3> HIDE DEF other
      <3> QED BY <3>1 DEF contains
    <2>2. /\ Real(other) /\ o.epoch = d.epoch /\ o.release = d.release /\ o.pre = d.pre
          /\ o.post = d.post /\ o.dev = d.dev /\ o.local = NoLocal
          /\ to[1] = td[1] /\ to[2] = td[2] /\ to[3] = td[3] /\ to[4] = td[4] /\ to[5] = 0
      BY <1>8, Stripped
    <2>3. /\ x = Then(Sign(o.epoch - c.epoch), Then(compare_release(o.release, c.release), X))
          /\ X \in {-1, 0, 1} /\ x \in {-1, 0, 1}
          /\ X > 0 <=> TupleLess(tc, to)
          /\ o.release \in Seq(Nat) /\ d.epoch \in Nat /\ PublicTuple(to) /\ Five(tc)
      BY <1>0, <2>2, RealCompare
    <2>4. R \in {-1, 0, 1} /\ compare_release(c.release, o.release) = 0 - R
      BY <1>1, <2>2, <2>3, CompareType
    <2>5. x = Then(Sign(d.epoch - c.epoch), Then(R, X))
      BY <2>2, <2>3
    <2>6. /\ td[5] \in 0..Top - 1 /\ PublicTuple(td)
      BY <1>0, <1>8, RealCompare DEF PublicTuple
    <2>7. /\ to[1] \in 1..6 /\ to[2] \in 0..Top - 1
          /\ to[3] \in -1..Top - 1 /\ to[4] \in 0..Top /\ to[5] \in 0..Top - 1
          /\ to[1] = 1 => to[2] = 0 /\ to[3] = -1
          /\ to[1] = 5 => to[2] = 0 /\ to[3] = -1 /\ to[4] = 0
          /\ to[1] = 6 => to[2] = 0 /\ to[3] >= 0
      BY <2>3 DEF PublicTuple
    <2>8. o.post = None => to[3] = -1
      <3>1. Public(o)
        BY <2>2 DEF Real
      <3>2. o.min = None /\ o.max = None
        BY <3>1 DEF Public
      <3> HIDE DEF o
      <3> QED BY <3>2 DEF sortable_tuple, None
    <2>9. ASSUME NEW b, Bound(b), Parts(b).epoch = c.epoch, Parts(b).release = c.release
          PROVE  LET tb == sortable_tuple(Parts(b))
                     Y == Lexicographic(td, tb)
                 IN  /\ Compare(w, b) = Then(Sign(d.epoch - c.epoch), Then(R, Y))
                     /\ Y \in {-1, 0, 1} /\ Compare(w, b) \in {-1, 0, 1}
                     /\ Y < 0 <=> TupleLess(td, tb)
                     /\ Y > 0 <=> TupleLess(tb, td)
      BY <1>8, <2>9, RealCompare
    <2>10. x > 0 <=> \/ d.epoch > c.epoch
                     \/ d.epoch = c.epoch /\ (R > 0 \/ (R = 0 /\ X > 0))
      <3> HIDE DEF x, c, d, R, X
      <3> QED BY <1>1, <2>3, <2>4, <2>5 DEF Then, Sign
    <2>11. contains(">", v, w) <=>
             \/ d.epoch > c.epoch
             \/ (R = 0 => ~(c.post = None /\ o.post # None)) /\ x > 0
      BY <2>1, <2>2, <2>4
    <2>12. d.epoch = c.epoch /\ R = 0 /\ any_prerelease(c) /\ c.post = None /\ o.post # None
             => ~(X > 0) \/ (c.dev = None /\ d.pre = c.pre)
      <3> DEFINE L == Lexicographic(td, tc)
      <3>1. /\ Compare(w, v) = Then(Sign(d.epoch - c.epoch), Then(R, L))
            /\ Compare(v, w) = 0 - Compare(w, v) /\ L \in {-1, 0, 1}
            /\ L > 0 <=> TupleLess(tc, td)
        BY <1>0, <1>8, RealCompare
      <3>2. d.epoch = c.epoch /\ R = 0 /\ any_prerelease(c) /\ c.post = None /\ o.post # None
              => ~(Compare(v, w) < 0) \/ (c.dev = None /\ d.pre = c.pre)
        BY <1>8, <2>2, <2>4
      <3>3. tc[5] = 0
        BY <1>0, <1>1 DEF sortable_tuple, LocalRank, NoLocal, LocalMax
      <3>4. tc[1] \in Int /\ tc[2] \in Int /\ tc[3] \in Int /\ tc[4] \in Int
        BY <2>3, FiveInts
      <3> HIDE DEF L, td, to, tc, X, x, R, c, d, o, other
      <3>5. TupleLess(tc, to) => TupleLess(tc, td)
        BY <1>t, <2>2, <2>6, <2>7, <3>3, <3>4 DEF TupleLess
      <3>6. d.epoch = c.epoch /\ R = 0 => Compare(w, v) = L
        BY <1>1, <3>1 DEF Then, Sign
      <3> QED BY <2>3, <3>1, <3>2, <3>5, <3>6
    <2>13. CASE c.dev # None
      <3> DEFINE tb == sortable_tuple(Parts(up))
                 Y == Lexicographic(td, tb)
      <3>1. /\ Bound(up) /\ Parts(up).epoch = c.epoch /\ Parts(up).release = c.release
            /\ tb[1] = tc[1] /\ tb[2] = tc[2] /\ tb[3] = tc[3] /\ tb[4] = c.dev + 1 /\ tb[5] = 0
            /\ tc[4] = c.dev /\ tc[5] = 0
        BY <1>2, <2>13
      <3>2. /\ Compare(w, up) = Then(Sign(d.epoch - c.epoch), Then(R, Y))
            /\ Y \in {-1, 0, 1} /\ Compare(w, up) \in {-1, 0, 1}
            /\ Y < 0 <=> TupleLess(td, tb)
        BY <2>9, <3>1
      <3>3. tc[1] \in Int /\ tc[2] \in Int /\ tc[3] \in Int /\ c.dev \in Nat
        BY <1>1, <2>3, <2>13, FiveInts
      <3>4. InRange(GreaterRange(v), w) <=> Compare(w, up) >= 0
        <4> HIDE DEF up
        <4> QED BY <1>5, <2>13, InBetween, Above, BelowIs
      <3>5. any_prerelease(c)
        BY <2>13 DEF any_prerelease
      <3> HIDE DEF up, tb, Y, td, to, tc, X, x, R, c, d, o, other
      <3>6. TupleLess(tc, to) <=> ~TupleLess(td, tb)
        BY <1>t, <2>2, <2>6, <2>7, <3>1, <3>3 DEF TupleLess
      <3>7. X > 0 <=> Y >= 0
        BY <2>3, <3>2, <3>6
      <3>8. Compare(w, up) >= 0 <=> x > 0
        BY <1>1, <2>3, <2>4, <2>10, <3>2, <3>7 DEF Then, Sign
      <3> QED BY <1>1, <2>3, <2>4, <2>10, <2>11, <2>12, <2>13, <3>4, <3>5, <3>8
    <2>14. CASE c.dev = None /\ c.post # None
      <3>1. x > 0 <=> Compare(w, loc) > 0
        BY <1>8, LocalsBetween
      <3>2. InRange(GreaterRange(v), w) <=> Compare(w, loc) > 0
        <4> HIDE DEF loc
        <4> QED BY <1>5, <2>14, InBetween, Above, BelowIs
      <3> HIDE DEF loc, td, to, tc, X, x, R, c, d, o, other
      <3> QED BY <2>10, <2>11, <2>14, <3>1, <3>2
    <2>15. CASE c.dev = None /\ c.post = None
      <3> DEFINE tb == sortable_tuple(Parts(max))
                 Y == Lexicographic(td, tb)
      <3>1. /\ Bound(max) /\ Parts(max).epoch = c.epoch /\ Parts(max).release = c.release
            /\ c.pre # NoPre => /\ tc = <<c.pre[1], c.pre[2], -1, Top, 0>>
                                /\ tb = <<c.pre[1], c.pre[2], Top, Top, 0>>
            /\ c.pre = NoPre => tc = <<5, 0, -1, 0, 0>> /\ tb = <<6, 0, Top, Top, 0>>
        BY <1>3, <2>15
      <3>2. /\ Compare(w, max) = Then(Sign(d.epoch - c.epoch), Then(R, Y))
            /\ Y \in {-1, 0, 1} /\ Compare(w, max) \in {-1, 0, 1}
            /\ Y > 0 <=> TupleLess(tb, td)
        BY <2>9, <3>1
      <3>3. InRange(GreaterRange(v), w) <=> Compare(w, max) > 0
        <4> HIDE DEF max
        <4> QED BY <1>5, <2>15, InBetween, Above, BelowIs
      <3>4. /\ td[1] \in 1..6 /\ td[2] \in 0..Top - 1
            /\ td[3] \in -1..Top - 1 /\ td[4] \in 0..Top
            /\ td[1] = 6 => td[2] = 0 /\ td[3] >= 0
        BY <2>6 DEF PublicTuple
      <3>5. any_prerelease(c) <=> c.pre # NoPre
        BY <2>15 DEF any_prerelease
      <3> HIDE DEF max, tb, Y, td, to, tc, X, x, R, c, d, o, other
      <3>6. o.post = None => (TupleLess(tc, to) <=> TupleLess(tb, td))
        <4>1. CASE c.pre # NoPre
          <5>1. /\ tc[1] = c.pre[1] /\ tc[2] = c.pre[2] /\ tc[3] = -1 /\ tc[4] = Top /\ tc[5] = 0
                /\ tb[1] = c.pre[1] /\ tb[2] = c.pre[2] /\ tb[3] = Top /\ tb[4] = Top /\ tb[5] = 0
                /\ c.pre[1] \in Int /\ c.pre[2] \in Int
            BY <1>1, <3>1, <4>1
          <5> QED BY <1>t, <2>2, <2>6, <2>7, <2>8, <3>4, <5>1 DEF TupleLess
        <4>2. CASE c.pre = NoPre
          <5>1. /\ tc[1] = 5 /\ tc[2] = 0 /\ tc[3] = -1 /\ tc[4] = 0 /\ tc[5] = 0
                /\ tb[1] = 6 /\ tb[2] = 0 /\ tb[3] = Top /\ tb[4] = Top /\ tb[5] = 0
            BY <3>1, <4>2
          <5> QED BY <1>t, <2>2, <2>6, <2>7, <2>8, <3>4, <5>1 DEF TupleLess
        <4> QED BY <4>1, <4>2
      <3>7. c.pre = NoPre => ~(Y > 0)
        <4> SUFFICES ASSUME c.pre = NoPre PROVE ~TupleLess(tb, td)
          BY <3>2
        <4>1. /\ tb[1] = 6 /\ tb[2] = 0 /\ tb[3] = Top /\ tb[4] = Top /\ tb[5] = 0
          BY <3>1
        <4> QED BY <1>t, <2>6, <3>4, <4>1 DEF TupleLess
      <3>8. o.post = None => (X > 0 <=> Y > 0)
        BY <2>3, <3>2, <3>6
      <3>9. Compare(w, max) > 0 <=> \/ d.epoch > c.epoch
                                    \/ d.epoch = c.epoch /\ (R > 0 \/ (R = 0 /\ Y > 0))
        BY <1>1, <2>3, <2>4, <3>2 DEF Then, Sign
      <3>10. c.pre # NoPre /\ d.epoch = c.epoch /\ R = 0 /\ o.post # None => ~(Y > 0)
        <4> SUFFICES ASSUME c.pre # NoPre, d.epoch = c.epoch, R = 0, o.post # None
                     PROVE  ~TupleLess(tb, td)
          BY <3>2
        <4>1. /\ tc[1] = c.pre[1] /\ tc[2] = c.pre[2] /\ tc[3] = -1 /\ tc[4] = Top /\ tc[5] = 0
              /\ tb[1] = c.pre[1] /\ tb[2] = c.pre[2] /\ tb[3] = Top /\ tb[4] = Top /\ tb[5] = 0
              /\ c.pre[1] \in Int /\ c.pre[2] \in Int
          BY <1>1, <3>1
        <4>2. CASE ~(X > 0)
          <5>1. TupleLess(tb, td) => TupleLess(tc, to)
            BY <1>t, <2>2, <2>6, <2>7, <3>4, <4>1 DEF TupleLess
          <5> QED BY <2>3, <4>2, <5>1
        <4>3. CASE d.pre = c.pre
          <5>1. Public(d) /\ d.min = None
            BY <1>8 DEF Real, Public, d
          <5>2. td[1] = c.pre[1] /\ td[2] = c.pre[2]
            BY <4>3, <5>1 DEF td, sortable_tuple
          <5> QED BY <1>t, <3>4, <4>1, <5>2 DEF TupleLess
        <4> QED BY <2>12, <2>15, <3>5, <4>2, <4>3
      <3> QED BY <1>1, <2>3, <2>4, <2>10, <2>11, <2>15, <3>2, <3>3, <3>7, <3>8, <3>9, <3>10
    <2> QED BY <2>13, <2>14, <2>15
  <1> QED BY <1>7, <1>8

\* The first development release of a release.
LEMMA FirstOf ==
    ASSUME NEW q \in Seq(Nat), q # <<>>, NEW e \in Nat
    PROVE  LET u == with_dev(with_epoch(VersionNew(q), e), 0)
               b == Parts(u)
           IN  /\ Bound(u) /\ b.epoch = e /\ b.release = q
               /\ sortable_tuple(b) = <<1, 0, -1, 0, 0>>
  <1> DEFINE n == VersionNew(q)
             m == with_epoch(n, e)
             u == with_dev(m, 0)
             b == Parts(u)
  <1>1. IsVersion(n) /\ Parts(n) = NoParts(q) /\ 0 \in Nat \cup {None}
    BY NewVersion
  <1> HIDE DEF n
  <1>2. /\ IsVersion(m) /\ Parts(m).epoch = e /\ Parts(m).release = q /\ Parts(m).pre = NoPre
        /\ Parts(m).post = None /\ Parts(m).min = None /\ Parts(m).max = None /\ Parts(m).local = NoLocal
    <2>1. /\ IsVersion(m) /\ Parts(m).epoch = e /\ Parts(m).release = Parts(n).release
          /\ Parts(m).pre = Parts(n).pre /\ Parts(m).post = Parts(n).post /\ Parts(m).min = Parts(n).min
          /\ Parts(m).max = Parts(n).max /\ Parts(m).local = Parts(n).local
      BY <1>1, EpochSet
    <2> QED BY <1>1, <2>1, NoPartsFields
  <1> HIDE DEF m
  <1>3. /\ IsVersion(u) /\ b \in PartsType /\ b.epoch = e /\ b.release = q /\ b.pre = NoPre /\ b.dev = 0
        /\ b.post = None /\ b.min = None /\ b.max = None /\ b.local = NoLocal
    BY <1>1, <1>2, DevSet
  <1> HIDE DEF u, b
  <1>4. PartsOK(b)
    BY <1>3, Widths DEF PartsOK, None, NoLocal
  <1>5. sortable_tuple(b) = <<1, 0, -1, 0, 0>>
    BY <1>3 DEF sortable_tuple, LocalRank, None, NoLocal, LocalMax
  <1> QED BY <1>3, <1>4, <1>5, OKBound DEF Bound, u, m, n, b

\* ~= and its range.
LEMMA TildeHolds ==
    ASSUME NEW v, Real(v), Parts(v).local = NoLocal, Len(Parts(v).release) >= 2
    PROVE  /\ \A i \in TildeRange(v) : Interval(i)
           /\ \A w : Real(w) => (contains("~=", v, w) <=> InRange(TildeRange(v), w))
  <1> DEFINE c == Parts(v)
             p == SubSeq(c.release, 1, Len(c.release) - 1)
             q == Bumped(p)
             u == with_dev(with_epoch(VersionNew(q), c.epoch), 0)
             b == Parts(u)
  <1>0. /\ Bound(v) /\ c.local = NoLocal /\ Len(c.release) >= 2
    BY RealBound
  <1>1. c.epoch \in Nat /\ c.release \in Seq(Nat)
    BY <1>0, BoundFields DEF Bound
  <1>2. p \in Seq(Nat) /\ p # <<>>
    <2>1. compare_release(c.release, c.release) >= 0
      BY <1>1, CompareType
    <2> QED BY <1>0, <1>1, <2>1, TildeOrder
  <1>3. q \in Seq(Nat) /\ q # <<>>
    <2> HIDE DEF p
    <2> QED BY <1>2, BumpedIs
  <1>4. TildeRange(v) = Between(Included(v), Excluded(u))
    BY DEF TildeRange
  <1>5. /\ Bound(u) /\ b.epoch = c.epoch /\ b.release = q
        /\ sortable_tuple(b) = <<1, 0, -1, 0, 0>>
    <2> HIDE DEF q, c
    <2> QED BY <1>1, <1>3, FirstOf
  <1>6. \A i \in TildeRange(v) : Interval(i)
    <2> HIDE DEF u
    <2> QED BY <1>0, <1>4, <1>5, LimitOf, BetweenLimits
  <1>7. ASSUME NEW w, Real(w)
        PROVE  contains("~=", v, w) <=> InRange(TildeRange(v), w)
    <2> DEFINE other == with_local(w, NoLocal)
               o == Parts(other)
               d == Parts(w)
               x == Compare(other, v)
               y == Compare(w, v)
               R == compare_release(d.release, c.release)
               S == compare_release(d.release, q)
               L == Lexicographic(sortable_tuple(d), sortable_tuple(c))
    <2>1. contains("~=", v, w) <=> c.epoch = o.epoch /\ PrefixSoFar(p, o.release) /\ x >= 0
      <3>1. (IF Parts(v).local = NoLocal THEN with_local(w, NoLocal) ELSE w) = other
        OBVIOUS
      <3> HIDE DEF other
      <3> QED BY <3>1 DEF contains
    <2>2. o.epoch = d.epoch /\ o.release = d.release
      BY <1>7, Stripped
    <2>3. x \in {-1, 0, 1} /\ y \in {-1, 0, 1} /\ (x < 0 <=> y < 0)
      BY <1>7, LocalsBetween
    <2>4. InRange(TildeRange(v), w) <=> y >= 0 /\ Compare(w, u) < 0
      <3> HIDE DEF u
      <3> QED BY <1>4, InBetween, Above, BelowIs
    <2>5. Compare(w, u) < 0 <=> \/ d.epoch < c.epoch
                                \/ d.epoch = c.epoch /\ S < 0
      <3>1. Compare(w, u) < 0 <=> \/ d.epoch < b.epoch
                                  \/ d.epoch = b.epoch /\ compare_release(d.release, b.release) < 0
        <4> HIDE DEF u
        <4> QED BY <1>5, <1>7, LowestCompare
      <3> QED BY <1>5, <3>1
    <2>6. /\ y = Then(Sign(d.epoch - c.epoch), Then(R, L))
          /\ R \in {-1, 0, 1} /\ L \in {-1, 0, 1} /\ d.epoch \in Nat /\ d.release \in Seq(Nat)
      BY <1>0, <1>7, RealCompare
    <2>7. R >= 0 => (PrefixSoFar(p, d.release) <=> S < 0)
      BY <1>0, <1>1, <2>6, TildeOrder
    <2> HIDE DEF x, y, R, S, L, u, b, q, p, c, d, o, other
    <2>8. y >= 0 => d.epoch >= c.epoch /\ (d.epoch = c.epoch => R >= 0)
      BY <1>1, <2>6 DEF Then, Sign
    <2> QED BY <1>1, <2>1, <2>2, <2>3, <2>4, <2>5, <2>6, <2>7, <2>8
  <1> QED BY <1>6, <1>7

\* ==1.2.* and !=1.2.* and their ranges.
LEMMA StarHolds ==
    ASSUME NEW v, Real(v), Parts(v).local = NoLocal, ~any_prerelease(Parts(v)), Parts(v).post = None
    PROVE  /\ \A i \in StarRange(v) \cup Complement(StarRange(v)) : Interval(i)
           /\ \A w : Real(w) => /\ contains("==*", v, w) <=> InRange(StarRange(v), w)
                                /\ contains("!=*", v, w) <=> InRange(Complement(StarRange(v)), w)
  <1> DEFINE c == Parts(v)
             low == with_dev(v, 0)
             l == Parts(low)
             q == Bumped(l.release)
             high == with_release(low, q)
             h == Parts(high)
  <1>0. /\ Bound(v) /\ c.local = NoLocal /\ c.post = None
    BY RealBound
  <1>1. c.epoch \in Nat /\ c.release \in Seq(Nat) /\ c.release # <<>>
    BY <1>0, BoundFields DEF Bound
  <1>2. /\ Bound(low) /\ l.epoch = c.epoch /\ l.release = c.release
        /\ IsVersion(low) /\ l.pre = NoPre /\ l.post = None /\ l.dev = 0
        /\ l.min = None /\ l.max = None /\ l.local = NoLocal
        /\ sortable_tuple(l) = <<1, 0, -1, 0, 0>>
    BY <1>0, DevZero
  <1>3. q = Bumped(c.release) /\ q \in Seq(Nat) /\ q # <<>>
    BY <1>1, <1>2, BumpedIs
  <1>4. /\ Bound(high) /\ h.epoch = c.epoch /\ h.release = q
        /\ sortable_tuple(h) = <<1, 0, -1, 0, 0>>
    <2> HIDE DEF q, low
    <2>1. /\ IsVersion(high) /\ h \in PartsType /\ h.epoch = c.epoch /\ h.release = q
          /\ h.pre = NoPre /\ h.post = None /\ h.dev = 0
          /\ h.min = None /\ h.max = None /\ h.local = NoLocal
      BY <1>2, <1>3, ReleaseSet
    <2> HIDE DEF high, h, c
    <2>2. PartsOK(h)
      BY <1>3, <2>1, Widths DEF PartsOK, None, NoLocal
    <2>3. sortable_tuple(h) = <<1, 0, -1, 0, 0>>
      BY <2>1 DEF sortable_tuple, LocalRank, None, NoLocal, LocalMax
    <2> QED BY <2>1, <2>2, <2>3, OKBound DEF Bound, h
  <1>5. StarRange(v) = Between(Included(low), Excluded(high))
    BY DEF StarRange
  <1>6. \A i \in StarRange(v) \cup Complement(StarRange(v)) : Interval(i)
    <2> HIDE DEF low, high
    <2>1. Complement(StarRange(v)) = Between(Unbounded, Excluded(low)) \cup Between(Included(high), Unbounded)
      BY <1>5, ComplementIs, BoundsDiffer
    <2>2. /\ Limit(Included(low)) /\ Limit(Excluded(low)) /\ Limit(Unbounded)
          /\ Limit(Included(high)) /\ Limit(Excluded(high))
      BY <1>2, <1>4, LimitOf
    <2>3. /\ \A i \in Between(Included(low), Excluded(high)) : Interval(i)
          /\ \A i \in Between(Unbounded, Excluded(low)) : Interval(i)
          /\ \A i \in Between(Included(high), Unbounded) : Interval(i)
      BY <2>2, BetweenLimits
    <2> QED BY <1>5, <2>1, <2>3
  <1>7. ASSUME NEW w, Real(w)
        PROVE  /\ contains("==*", v, w) <=> InRange(StarRange(v), w)
               /\ contains("!=*", v, w) <=> InRange(Complement(StarRange(v)), w)
    <2> DEFINE other == with_local(w, NoLocal)
               o == Parts(other)
               d == Parts(w)
               R == compare_release(d.release, c.release)
               S == compare_release(d.release, q)
    <2>1. /\ contains("==*", v, w) <=> c.epoch = o.epoch /\ Prefix(c.release, o.release)
          /\ contains("!=*", v, w) <=> c.epoch # o.epoch \/ ~Prefix(c.release, o.release)
      <3>1. (IF Parts(v).local = NoLocal THEN with_local(w, NoLocal) ELSE w) = other
        OBVIOUS
      <3> HIDE DEF other
      <3>2. contains("==*", v, w) <=> c.epoch = o.epoch /\ Prefix(c.release, o.release)
        BY <3>1 DEF contains
      <3>3. contains("!=*", v, w) <=> c.epoch # o.epoch \/ ~Prefix(c.release, o.release)
        BY <3>1 DEF contains
      <3> QED BY <3>2, <3>3
    <2>2. o.epoch = d.epoch /\ o.release = d.release
      BY <1>7, Stripped
    <2>3. /\ InRange(StarRange(v), w) <=> Compare(w, low) >= 0 /\ Compare(w, high) < 0
          /\ InRange(Complement(StarRange(v)), w) <=> Compare(w, low) < 0 \/ Compare(w, high) >= 0
      <3> HIDE DEF low, high
      <3>1. InRange(StarRange(v), w) <=> Compare(w, low) >= 0 /\ Compare(w, high) < 0
        BY <1>5, InBetween, Above, BelowIs
      <3>2. InRange(Complement(StarRange(v)), w) <=> Compare(w, low) < 0 \/ Compare(w, high) >= 0
        BY <1>5, InComplement
      <3> QED BY <3>1, <3>2
    <2>4. /\ Compare(w, low) \in {-1, 0, 1}
          /\ Compare(w, low) < 0 <=> \/ d.epoch < c.epoch
                                     \/ d.epoch = c.epoch /\ R < 0
      <3>1. /\ Compare(w, low) \in {-1, 0, 1}
            /\ Compare(w, low) < 0 <=> \/ d.epoch < l.epoch
                                       \/ d.epoch = l.epoch /\ compare_release(d.release, l.release) < 0
        <4> HIDE DEF low
        <4> QED BY <1>2, <1>7, LowestCompare
      <3> QED BY <1>2, <3>1
    <2>5. /\ Compare(w, high) \in {-1, 0, 1}
          /\ Compare(w, high) < 0 <=> \/ d.epoch < c.epoch
                                      \/ d.epoch = c.epoch /\ S < 0
      <3>1. /\ Compare(w, high) \in {-1, 0, 1}
            /\ Compare(w, high) < 0 <=> \/ d.epoch < h.epoch
                                        \/ d.epoch = h.epoch /\ compare_release(d.release, h.release) < 0
        <4> HIDE DEF high
        <4> QED BY <1>4, <1>7, LowestCompare
      <3> QED BY <1>4, <3>1
    <2>6. R \in {-1, 0, 1} /\ d.epoch \in Nat /\ d.release \in Seq(Nat)
      BY <1>0, <1>7, RealCompare
    <2>7. Prefix(c.release, d.release) <=> R >= 0 /\ S < 0
      BY <1>1, <1>3, <2>6, StarOrder
    <2> HIDE DEF R, S, low, high, l, h, q, c, d, o, other
    <2> QED BY <1>1, <2>1, <2>2, <2>3, <2>4, <2>5, <2>6, <2>7
  <1> QED BY <1>6, <1>7

\* == and != and their ranges.
LEMMA EqualHolds ==
    ASSUME NEW v, Real(v)
    PROVE  /\ \A i \in EqualRange(v) \cup Complement(EqualRange(v)) : Interval(i)
           /\ \A w : Real(w) => /\ contains("==", v, w) <=> InRange(EqualRange(v), w)
                                /\ contains("!=", v, w) <=> InRange(Complement(EqualRange(v)), w)
  <1> DEFINE c == Parts(v)
             u == IF c.local = NoLocal THEN with_local(v, LocalMax) ELSE v
  <1>1. Bound(v)
    BY RealBound
  <1>2. Bound(u)
    BY <1>1, LocalTop
  <1>3. EqualRange(v) = Between(Included(v), Included(u))
    BY DEF EqualRange
  <1>4. \A i \in EqualRange(v) \cup Complement(EqualRange(v)) : Interval(i)
    <2> HIDE DEF u
    <2>1. Complement(EqualRange(v)) = Between(Unbounded, Excluded(v)) \cup Between(Excluded(u), Unbounded)
      BY <1>3, ComplementIs, BoundsDiffer
    <2>2. /\ Limit(Included(v)) /\ Limit(Excluded(v)) /\ Limit(Unbounded)
          /\ Limit(Included(u)) /\ Limit(Excluded(u))
      BY <1>1, <1>2, LimitOf
    <2>3. /\ \A i \in Between(Included(v), Included(u)) : Interval(i)
          /\ \A i \in Between(Unbounded, Excluded(v)) : Interval(i)
          /\ \A i \in Between(Excluded(u), Unbounded) : Interval(i)
      BY <2>2, BetweenLimits
    <2> QED BY <1>3, <2>1, <2>3
  <1>5. ASSUME NEW w, Real(w)
        PROVE  /\ contains("==", v, w) <=> InRange(EqualRange(v), w)
               /\ contains("!=", v, w) <=> InRange(Complement(EqualRange(v)), w)
    <2> DEFINE other == IF c.local = NoLocal THEN with_local(w, NoLocal) ELSE w
               x == Compare(other, v)
               y == Compare(w, v)
               z == Compare(w, u)
    <2>1. /\ contains("==", v, w) <=> x = 0
          /\ contains("!=", v, w) <=> x # 0
      <3>1. (IF Parts(v).local = NoLocal THEN with_local(w, NoLocal) ELSE w) = other
        OBVIOUS
      <3> HIDE DEF other
      <3>2. contains("==", v, w) <=> x = 0
        BY <3>1 DEF contains
      <3>3. contains("!=", v, w) <=> x # 0
        BY <3>1 DEF contains
      <3> QED BY <3>2, <3>3
    <2>2. /\ InRange(EqualRange(v), w) <=> y >= 0 /\ z <= 0
          /\ InRange(Complement(EqualRange(v)), w) <=> y < 0 \/ z > 0
      <3> HIDE DEF u
      <3>1. InRange(EqualRange(v), w) <=> y >= 0 /\ z <= 0
        BY <1>3, InBetween, Above, BelowIs
      <3>2. InRange(Complement(EqualRange(v)), w) <=> y < 0 \/ z > 0
        BY <1>3, InComplement
      <3> QED BY <3>1, <3>2
    <2>3. /\ x \in {-1, 0, 1} /\ y \in {-1, 0, 1} /\ z \in {-1, 0, 1}
          /\ x < 0 <=> y < 0
          /\ x > 0 <=> z > 0
      <3>1. CASE c.local = NoLocal
        <4>1. other = with_local(w, NoLocal) /\ u = with_local(v, LocalMax)
          BY <3>1
        <4> HIDE DEF other, u
        <4> QED BY <1>5, <3>1, <4>1, LocalsBetween
      <3>2. CASE c.local # NoLocal
        <4>1. other = w /\ u = v
          BY <3>2
        <4> HIDE DEF other, u
        <4>2. Compare(w, v) \in {-1, 0, 1}
          BY <1>1, <1>5, RealCompare
        <4> QED BY <4>1, <4>2
      <3> QED BY <3>1, <3>2
    <2> HIDE DEF other, x, y, z, u
    <2> QED BY <2>1, <2>2, <2>3
  <1> QED BY <1>4, <1>5

\* === and its range, where the text differs.
LEMMA ExactHolds ==
    ASSUME NEW v, Real(v)
    PROVE  /\ \A i \in Between(Included(v), Included(v)) : Interval(i)
           /\ \A w : Real(w) => \/ Compare(v, w) = 0
                                \/ contains("===", v, w) <=> InRange(Between(Included(v), Included(v)), w)
  <1> DEFINE c == Parts(v)
  <1>1. Bound(v)
    BY RealBound
  <1>2. \A i \in Between(Included(v), Included(v)) : Interval(i)
    BY <1>1, LimitOf, BetweenLimits
  <1>3. ASSUME NEW w, Real(w), Compare(v, w) # 0
        PROVE  contains("===", v, w) <=> InRange(Between(Included(v), Included(v)), w)
    <2> DEFINE d == Parts(w)
               R == compare_release(d.release, c.release)
               L == Lexicographic(sortable_tuple(d), sortable_tuple(c))
    <2>1. contains("===", v, w) <=> d = c
      BY DEF contains
    <2>2. /\ Compare(w, v) = Then(Sign(d.epoch - c.epoch), Then(R, L))
          /\ Compare(v, w) = 0 - Compare(w, v) /\ Compare(w, v) \in {-1, 0, 1}
          /\ c.epoch \in Nat /\ c.release \in Seq(Nat) /\ Five(sortable_tuple(c))
      BY <1>1, <1>3, RealCompare
    <2>3. InRange(Between(Included(v), Included(v)), w) <=> Compare(w, v) >= 0 /\ Compare(w, v) <= 0
      BY InBetween, Above, BelowIs
    <2>4. Compare(w, v) # 0
      BY <1>3, <2>2
    <2>5. d # c
      <3> SUFFICES ASSUME d = c PROVE FALSE
        OBVIOUS
      <3>1. R = 0
        BY <2>2, CompareType
      <3>2. L = 0
        BY <2>2, LexLess
      <3>3. Sign(d.epoch - c.epoch) = 0
        BY <2>2 DEF Sign
      <3> HIDE DEF R, L, c, d
      <3> QED BY <2>2, <2>4, <3>1, <3>2, <3>3 DEF Then
    <2> QED BY <2>1, <2>2, <2>3, <2>4, <2>5
  <1> QED BY <1>2, <1>3

\* <= and >= and their ranges.
LEMMA OrderedHolds ==
    ASSUME NEW v, Real(v), Parts(v).local = NoLocal
    PROVE  LET le == Between(Unbounded, Included(with_local(v, LocalMax)))
               ge == Between(Included(v), Unbounded)
           IN  /\ \A i \in le \cup ge : Interval(i)
               /\ \A w : Real(w) => /\ contains("<=", v, w) <=> InRange(le, w)
                                    /\ contains(">=", v, w) <=> InRange(ge, w)
  <1> DEFINE u == with_local(v, LocalMax)
             le == Between(Unbounded, Included(u))
             ge == Between(Included(v), Unbounded)
  <1>1. Bound(v) /\ Bound(u)
    BY RealBound, LocalTop
  <1>2. \A i \in le \cup ge : Interval(i)
    <2> HIDE DEF u
    <2> QED BY <1>1, LimitOf, BetweenLimits
  <1>3. ASSUME NEW w, Real(w)
        PROVE  /\ contains("<=", v, w) <=> InRange(le, w)
               /\ contains(">=", v, w) <=> InRange(ge, w)
    <2> DEFINE other == with_local(w, NoLocal)
               x == Compare(other, v)
               y == Compare(w, v)
               z == Compare(w, u)
    <2>1. /\ contains("<=", v, w) <=> x <= 0
          /\ contains(">=", v, w) <=> x >= 0
      <3>1. (IF Parts(v).local = NoLocal THEN with_local(w, NoLocal) ELSE w) = other
        OBVIOUS
      <3> HIDE DEF other
      <3>2. contains("<=", v, w) <=> x <= 0
        BY <3>1 DEF contains
      <3>3. contains(">=", v, w) <=> x >= 0
        BY <3>1 DEF contains
      <3> QED BY <3>2, <3>3
    <2>2. /\ InRange(le, w) <=> z <= 0
          /\ InRange(ge, w) <=> y >= 0
      <3> HIDE DEF u
      <3> QED BY InBetween, Above, BelowIs
    <2>3. /\ x \in {-1, 0, 1} /\ y \in {-1, 0, 1} /\ z \in {-1, 0, 1}
          /\ x < 0 <=> y < 0
          /\ x > 0 <=> z > 0
      BY <1>3, LocalsBetween
    <2> HIDE DEF other, x, y, z, u, le, ge
    <2> QED BY <2>1, <2>2, <2>3
  <1> QED BY <1>2, <1>3

\* What the range of a specifier is.
LEMMA ToRangeIs ==
    ASSUME NEW v
    PROVE  /\ ToRange("==", v) = EqualRange(v)
           /\ ToRange("===", v) = Between(Included(v), Included(v))
           /\ ToRange("!=", v) = Complement(EqualRange(v))
           /\ ToRange("~=", v) = TildeRange(v)
           /\ ToRange("<", v) = LessRange(v)
           /\ ToRange("<=", v) = Between(Unbounded, Included(with_local(v, LocalMax)))
           /\ ToRange(">", v) = GreaterRange(v)
           /\ ToRange(">=", v) = Between(Included(v), Unbounded)
           /\ ToRange("==*", v) = StarRange(v)
           /\ ToRange("!=*", v) = Complement(StarRange(v))
  BY DEF ToRange

LEMMA RangeHolds == VersionOK => RangeAgrees
  <1> SUFFICES ASSUME VersionOK, NEW op \in Operator, Written(op)
               PROVE  LET range     == ToRange(op, version)
                          canonical == canonicalize_version_ranges(range)
                      IN  /\ \A w \in Candidates :
                               /\ InRange(range, w) <=> InRange(canonical, w)
                               /\ Differs(op, w) \/ (contains(op, version, w) <=> InRange(range, w))
                          /\ canonicalize_version_ranges(canonical) = canonical
    BY DEF RangeAgrees
  <1> DEFINE v == version
             c == Parts(v)
             range == ToRange(op, v)
             canonical == canonicalize_version_ranges(range)
  <1>1. IsVersion(v) /\ c = parts /\ PartsOK(parts)
    BY DEF VersionOK
  <1>2. Real(v)
    BY <1>1 DEF Written, IsSentinel, Real, Public
  <1>3. /\ c.local # NoLocal => op \in {"==", "===", "!="}
        /\ op = "~=" => Len(c.release) >= 2
        /\ op \in {"==*", "!=*"} => ~any_prerelease(c) /\ c.post = None
    BY <1>1 DEF Written, Allowed
  <1>4. ASSUME NEW w \in Candidates PROVE Real(w)
    <2>1. PICK d \in PublicParts : w = Parsed(d)
      BY DEF Candidates
    <2> QED BY <2>1, ParsedIs DEF Real
  <1>5. /\ \A i \in range : Interval(i)
        /\ \A w : Real(w) => Differs(op, w) \/ (contains(op, v, w) <=> InRange(range, w))
    <2> HIDE DEF c
    <2>1. CASE op \in {"==", "!="}
      <3>1. /\ \A i \in EqualRange(v) \cup Complement(EqualRange(v)) : Interval(i)
            /\ \A w : Real(w) => /\ contains("==", v, w) <=> InRange(EqualRange(v), w)
                                 /\ contains("!=", v, w) <=> InRange(Complement(EqualRange(v)), w)
        BY <1>2, EqualHolds
      <3>2. range = IF op = "==" THEN EqualRange(v) ELSE Complement(EqualRange(v))
        BY <2>1, ToRangeIs
      <3> HIDE DEF range, v
      <3> QED BY <2>1, <3>1, <3>2
    <2>2. CASE op = "==="
      <3>1. /\ \A i \in Between(Included(v), Included(v)) : Interval(i)
            /\ \A w : Real(w) => \/ Compare(v, w) = 0
                                 \/ contains("===", v, w) <=> InRange(Between(Included(v), Included(v)), w)
        BY <1>2, ExactHolds
      <3>2. range = Between(Included(v), Included(v))
        BY <2>2, ToRangeIs
      <3>3. \A w : Compare(v, w) = 0 => Differs(op, w)
        BY <2>2 DEF Differs
      <3> HIDE DEF range, v
      <3> QED BY <2>2, <3>1, <3>2, <3>3
    <2>3. CASE op = "~="
      <3>1. c.local = NoLocal /\ Len(c.release) >= 2
        BY <1>3, <2>3
      <3>2. /\ \A i \in TildeRange(v) : Interval(i)
            /\ \A w : Real(w) => (contains("~=", v, w) <=> InRange(TildeRange(v), w))
        BY <1>2, <3>1, TildeHolds DEF c
      <3>3. range = TildeRange(v)
        BY <2>3, ToRangeIs
      <3> HIDE DEF range, v
      <3> QED BY <2>3, <3>2, <3>3
    <2>4. CASE op = "<"
      <3>1. c.local = NoLocal
        BY <1>3, <2>4
      <3>2. /\ \A i \in LessRange(v) : Interval(i)
            /\ \A w : Real(w) => (contains("<", v, w) <=> InRange(LessRange(v), w))
        BY <1>2, <3>1, LessHolds DEF c
      <3>3. range = LessRange(v)
        BY <2>4, ToRangeIs
      <3> HIDE DEF range, v
      <3> QED BY <2>4, <3>2, <3>3
    <2>5. CASE op = ">"
      <3>1. c.local = NoLocal
        BY <1>3, <2>5
      <3>2. /\ \A i \in GreaterRange(v) : Interval(i)
            /\ \A w : Real(w) =>
                 \/ /\ any_prerelease(c) /\ c.post = None /\ Parts(w).post # None /\ Parts(w).epoch = c.epoch
                    /\ compare_release(c.release, Parts(w).release) = 0
                    /\ Compare(v, w) < 0 /\ (c.dev # None \/ Parts(w).pre # c.pre)
                 \/ contains(">", v, w) <=> InRange(GreaterRange(v), w)
        BY <1>2, <3>1, GreaterHolds DEF c
      <3>3. range = GreaterRange(v)
        BY <2>5, ToRangeIs
      <3>4. \A w : /\ any_prerelease(c) /\ c.post = None /\ Parts(w).post # None /\ Parts(w).epoch = c.epoch
                   /\ compare_release(c.release, Parts(w).release) = 0
                   /\ Compare(v, w) < 0 /\ (c.dev # None \/ Parts(w).pre # c.pre)
                   => Differs(op, w)
        BY <1>1, <2>5 DEF Differs
      <3> HIDE DEF range, v
      <3> QED BY <2>5, <3>2, <3>3, <3>4
    <2>6. CASE op \in {"<=", ">="}
      <3> DEFINE le == Between(Unbounded, Included(with_local(v, LocalMax)))
                 ge == Between(Included(v), Unbounded)
      <3>1. c.local = NoLocal
        BY <1>3, <2>6
      <3>2. /\ \A i \in le \cup ge : Interval(i)
            /\ \A w : Real(w) => /\ contains("<=", v, w) <=> InRange(le, w)
                                 /\ contains(">=", v, w) <=> InRange(ge, w)
        BY <1>2, <3>1, OrderedHolds DEF c
      <3>3. range = IF op = "<=" THEN le ELSE ge
        BY <2>6, ToRangeIs
      <3> HIDE DEF range, v, le, ge
      <3> QED BY <2>6, <3>2, <3>3
    <2>7. CASE op \in {"==*", "!=*"}
      <3>1. c.local = NoLocal /\ ~any_prerelease(c) /\ c.post = None
        BY <1>3, <2>7
      <3>2. /\ \A i \in StarRange(v) \cup Complement(StarRange(v)) : Interval(i)
            /\ \A w : Real(w) => /\ contains("==*", v, w) <=> InRange(StarRange(v), w)
                                 /\ contains("!=*", v, w) <=> InRange(Complement(StarRange(v)), w)
        BY <1>2, <3>1, StarHolds DEF c
      <3>3. range = IF op = "==*" THEN StarRange(v) ELSE Complement(StarRange(v))
        BY <2>7, ToRangeIs
      <3> HIDE DEF range, v
      <3> QED BY <2>7, <3>2, <3>3
    <2> QED BY <2>1, <2>2, <2>3, <2>4, <2>5, <2>6, <2>7 DEF Operator
  <1>6. /\ \A w : Real(w) => (InRange(range, w) <=> InRange(canonical, w))
        /\ canonicalize_version_ranges(canonical) = canonical
    <2> HIDE DEF range
    <2> QED BY <1>5, CanonicalRange
  <1> QED BY <1>4, <1>5, <1>6

\* Whatever versions there are, the resolver chooses from the range of a specifier
\* (`From<VersionSpecifier> for Ranges<Version>`) the versions that `contains`
\* accepts, before and after `canonicalize_version_ranges`, which leaves nothing to
\* replace.
THEOREM RangesAgree == Spec => []RangeAgrees
  BY VersionInvariant, RangeHolds, PTL
=============================================================================
