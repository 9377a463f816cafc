------------------------------ MODULE Versions ------------------------------
(***************************************************************************)
(* `Version` of uv-pep440.  Most versions are packed into one integer that *)
(* holds the release and at most one suffix, such that versions compare as *)
(* the integers do (`VersionSmall`); the others are records (`VersionFull`)*)
(* and any pair with one of those is compared part by part (`cmp_slow`).   *)
(*                                                                         *)
(* A version is made by setting its parts one after the other.  A setter   *)
(* either changes the integer or, if the part does not fit, turns the      *)
(* version into a record.  The same version may thus be packed or not,     *)
(* depending on how it came about.                                         *)
(*                                                                         *)
(* Field widths are parameters: the first segment of a release has 16 bits *)
(* in the code, the others 8, the number of a suffix 20.                   *)
(***************************************************************************)
EXTENDS Integers, Sequences, FiniteSets

CONSTANTS
    First, Rest, Suffix,    \* one more than the largest number of a field
    Releases,   \* release segments
    Epochs, Pres, Posts, Devs,  \* parts of versions; posts and devs without None
    Locals,     \* ranks of local versions
    Top         \* `u64::MAX`, which no parsed number reaches

ASSUME VersionAssumption ==
    /\ {First, Rest, Suffix, Top} \subseteq Nat \ {0}
    /\ Releases \subseteq Seq(Nat) /\ <<>> \notin Releases
    /\ Epochs \subseteq Nat /\ Posts \subseteq 0..Top - 1 /\ Devs \subseteq 0..Top - 1
    /\ Pres \subseteq (2..4) \X (0..Top - 1)
    /\ Locals \subseteq 1..Top - 1

None     == -1
NoPre    == <<>>
NoLocal  == 0
LocalMax == -2      \* above every local version: see LocalRank

VARIABLES
    version,    \* a version, packed or not
    parts       \* the parts that were set

vars == <<version, parts>>

\* Kinds of suffixes, in the order they have at the same release.  2, 3 and 4
\* are alpha, beta and release candidate.
SUFFIX_MIN   == 0
SUFFIX_DEV   == 1
SUFFIX_PRE   == 2..4
SUFFIX_NONE  == 5
SUFFIX_LOCAL == 6
SUFFIX_POST  == 7
SUFFIX_MAX   == 8
-----------------------------------------------------------------------------
(* `VersionSmall`.                                                         *)

SmallNew == [small |-> TRUE, repr |-> SUFFIX_NONE * Suffix, len |-> 0]

suffix_kind(s)    == (s.repr \div Suffix) % 16
suffix_version(s) == s.repr % Suffix

\* Mutant: the number of the old suffix stays.
set_suffix_kind_only(s, kind) ==
    [s EXCEPT !.repr = @ + (kind - suffix_kind(s)) * Suffix]

set_suffix_kind(s, kind) ==
    [s EXCEPT !.repr = @ + (kind - suffix_kind(s)) * Suffix
                         - IF kind \in {SUFFIX_NONE, SUFFIX_LOCAL} THEN suffix_version(s) ELSE 0]

set_suffix_version(s, n) == [s EXCEPT !.repr = @ - suffix_version(s) + n]

\* Where the i-th segment of a release is in the integer.
Shift(i) == Suffix * 16 * (CASE i = 1 -> Rest * Rest * Rest
                             [] i = 2 -> Rest * Rest
                             [] i = 3 -> Rest
                             [] i = 4 -> 1)

SmallRelease(s) ==
    [i \in 1..s.len |-> (s.repr \div Shift(i)) % (IF i = 1 THEN First ELSE Rest)]

\* A setter of the packed version: the new one, or None if it cannot hold it.
small_push_release(s, n) ==
    IF s.len < 4 /\ n < (IF s.len = 0 THEN First ELSE Rest)
      THEN <<[s EXCEPT !.repr = @ + n * Shift(s.len + 1), !.len = @ + 1]>>
      ELSE <<>>

\* `set_pre`, `set_post`, `set_dev`, `set_min` and `set_max`: own are the kinds
\* that say the part is there.
set_suffix(s, own, kind, n) ==
    IF suffix_kind(s) \notin own \cup {SUFFIX_NONE} THEN IF n = None THEN <<s>> ELSE <<>>
    ELSE CASE n = None    -> <<set_suffix_kind(s, SUFFIX_NONE)>>
           [] n >= Suffix -> <<>>
           [] OTHER       -> <<set_suffix_version(set_suffix_kind(s, kind), n)>>

set_local(s, l) ==
    IF suffix_kind(s) \notin {SUFFIX_NONE, SUFFIX_LOCAL} THEN IF l = NoLocal THEN <<s>> ELSE <<>>
    ELSE CASE l = LocalMax -> <<set_suffix_kind(s, SUFFIX_LOCAL)>>
           [] l = NoLocal  -> <<set_suffix_kind(s, SUFFIX_NONE)>>
           [] OTHER        -> <<>>

\* The number of a suffix of the kind.
Number(s, kind) == IF suffix_kind(s) = kind THEN suffix_version(s) ELSE None
-----------------------------------------------------------------------------
(* `Version`.                                                              *)

\* The accessors, all at once: of a record they are its fields.
Parts(v) ==
    IF ~v.small THEN v
    ELSE [small   |-> FALSE,
          epoch   |-> 0,
          release |-> SmallRelease(v),
          pre     |-> IF suffix_kind(v) \in SUFFIX_PRE
                        THEN <<suffix_kind(v), suffix_version(v)>> ELSE NoPre,
          post    |-> Number(v, SUFFIX_POST),
          dev     |-> Number(v, SUFFIX_DEV),
          min     |-> Number(v, SUFFIX_MIN),
          max     |-> Number(v, SUFFIX_MAX),
          local   |-> IF suffix_kind(v) = SUFFIX_LOCAL THEN LocalMax ELSE NoLocal]

make_full(v) == Parts(v)

\* A setter: the packed version if it can hold the part, a record otherwise.
With(v, packed, full) == IF v.small /\ packed # <<>> THEN packed[1] ELSE full

with_epoch(v, e) == With(v, IF e = 0 THEN <<v>> ELSE <<>>, [make_full(v) EXCEPT !.epoch = e])
with_post(v, n)  == With(v, set_suffix(v, {SUFFIX_POST}, SUFFIX_POST, n),
                         [make_full(v) EXCEPT !.post = n])
with_dev(v, n)   == With(v, set_suffix(v, {SUFFIX_DEV}, SUFFIX_DEV, n),
                         [make_full(v) EXCEPT !.dev = n])
with_min(v, n)   == With(v, set_suffix(v, {SUFFIX_MIN}, SUFFIX_MIN, n),
                         [make_full(v) EXCEPT !.min = n])
with_max(v, n)   == With(v, set_suffix(v, {SUFFIX_MAX}, SUFFIX_MAX, n),
                         [make_full(v) EXCEPT !.max = n])
with_local(v, l) == With(v, set_local(v, l), [make_full(v) EXCEPT !.local = l])
with_pre(v, p)   ==
    With(v, IF p = NoPre THEN set_suffix(v, SUFFIX_PRE, SUFFIX_NONE, None)
            ELSE set_suffix(v, SUFFIX_PRE, p[1], p[2]),
         [make_full(v) EXCEPT !.pre = p])

push_release(v, n) ==
    With(v, small_push_release(v, n), [make_full(v) EXCEPT !.release = Append(@, n)])

clear_release(v) ==
    IF v.small THEN [v EXCEPT !.repr = @ % (16 * Suffix), !.len = 0]
    ELSE [v EXCEPT !.release = <<>>]

\* The segments are pushed one by one.
with_release(v, r) ==
    LET push[i \in 0..Len(r)] ==
          IF i = 0 THEN clear_release(v) ELSE push_release(push[i - 1], r[i])
    IN  push[Len(r)]

\* `Version::new`, and what the parser makes of the parts of a version.  A version
\* of up to four small numbers has a parser of its own, `parse_fast`, which puts
\* the numbers into the integer where `push_release` puts them; it is left out.
VersionNew(r) == with_release(SmallNew, r)

Parsed(c) ==
    with_local(with_dev(with_post(with_pre(with_epoch(
        VersionNew(c.release), c.epoch), c.pre), c.post), c.dev), c.local)

\* The segments without the zeros at the end.
Trimmed(r) ==
    LET last == {i \in 1..Len(r) : r[i] # 0} IN
    SubSeq(r, 1, IF last = {} THEN 0 ELSE CHOOSE i \in last : \A j \in last : j <= i)

only_release(v) == VersionNew(Parts(v).release)

only_release_trimmed(v) ==
    LET r == Trimmed(Parts(v).release) IN VersionNew(IF r = <<>> THEN <<0>> ELSE r)
-----------------------------------------------------------------------------
(* Order.  -1, 0 and 1 are `Ordering::{Less, Equal, Greater}`.             *)

Sign(n) == IF n < 0 THEN -1 ELSE IF n = 0 THEN 0 ELSE 1

\* Tuples compare at the first place where they differ.
Lexicographic(s, t) ==
    LET diff == {i \in DOMAIN s : s[i] # t[i]} IN
    IF diff = {} THEN 0
    ELSE LET i == CHOOSE i \in diff : \A j \in diff : i <= j IN Sign(s[i] - t[i])

Padded(r, n) == [i \in 1..n |-> IF i <= Len(r) THEN r[i] ELSE 0]

Longer(r, q) == IF Len(r) < Len(q) THEN Len(q) ELSE Len(r)

compare_release(r, q) ==
    Lexicographic(Padded(r, Longer(r, q)), Padded(q, Longer(r, q)))

LocalRank(l) == IF l = LocalMax THEN Top ELSE l

sortable_tuple(c) ==
    LET post == IF c.max # None THEN Top ELSE c.post
        dev  == IF c.dev = None THEN Top ELSE c.dev
    IN  IF c.min # None       THEN <<0, 0, post, c.min, LocalRank(c.local)>>
        ELSE IF c.pre # NoPre THEN <<c.pre[1], c.pre[2], post, dev, LocalRank(c.local)>>
        ELSE IF post # None   THEN <<6, 0, post, dev, LocalRank(c.local)>>
        ELSE IF c.dev # None  THEN <<1, 0, None, c.dev, LocalRank(c.local)>>
        ELSE <<5, 0, None, 0, LocalRank(c.local)>>

cmp_slow(c, d) ==
    IF c.epoch # d.epoch THEN Sign(c.epoch - d.epoch)
    ELSE IF compare_release(c.release, d.release) # 0
      THEN compare_release(c.release, d.release)
      ELSE Lexicographic(sortable_tuple(c), sortable_tuple(d))

Compare(v, w) ==
    IF v.small /\ w.small THEN Sign(v.repr - w.repr) ELSE cmp_slow(Parts(v), Parts(w))

\* What goes into the hash of a version.
HashKey(v) ==
    LET c == Parts(v) IN
    <<c.epoch, Trimmed(c.release), c.pre, c.dev, c.post, c.local>>
-----------------------------------------------------------------------------
(* A version that the program changes step by step.                        *)

NoParts(r) == [small |-> FALSE, epoch |-> 0, release |-> r, pre |-> NoPre, post |-> None, dev |-> None,
               min |-> None, max |-> None, local |-> NoLocal]

IsSentinel(c) == c.min # None \/ c.max # None \/ c.local = LocalMax

Init == \E r \in Releases : version = VersionNew(r) /\ parts = NoParts(r)

Set(part, x, v) == version' = v /\ parts' = [parts EXCEPT ![part] = x]

\* The parts of a version that is not a sentinel.
Change ==
    /\ ~IsSentinel(parts)
    /\ \/ \E e \in Epochs : Set("epoch", e, with_epoch(version, e))
       \/ \E r \in Releases : Set("release", r, with_release(version, r))
       \/ \E p \in Pres \cup {NoPre} : Set("pre", p, with_pre(version, p))
       \/ \E n \in Posts \cup {None} : Set("post", n, with_post(version, n))
       \/ \E n \in Devs \cup {None} : Set("dev", n, with_dev(version, n))
       \/ \E l \in Locals \cup {NoLocal} : Set("local", l, with_local(version, l))

\* The sentinels that ranges are made with, as their assertions allow.
Sentinel ==
    /\ ~IsSentinel(parts) /\ parts.local = NoLocal
    /\ \/ parts.pre = NoPre /\ parts.post = None /\ parts.dev = None
          /\ Set("min", 0, with_min(version, 0))
       \/ parts.post = None /\ parts.dev = None /\ Set("max", 0, with_max(version, 0))
       \/ Set("local", LocalMax, with_local(version, LocalMax))

\* Back from a sentinel.
Unset ==
    \/ parts.min # None /\ Set("min", None, with_min(version, None))
    \/ parts.max # None /\ Set("max", None, with_max(version, None))
    \/ parts.local = LocalMax /\ Set("local", NoLocal, with_local(version, NoLocal))

Next == Change \/ Sentinel \/ Unset

Spec == Init /\ [][Next]_vars
-----------------------------------------------------------------------------
\* The parsed versions the others are compared with.
PublicParts ==
    [small : {FALSE}, epoch : Epochs, release : Releases, pre : Pres \cup {NoPre},
     post : Posts \cup {None}, dev : Devs \cup {None}, min : {None}, max : {None},
     local : Locals \cup {NoLocal}]

Candidates == {Parsed(c) : c \in PublicParts}

\* PEP 440 orders by epoch, release, pre-release, post-release, development
\* release and local version; a development release of a final version comes
\* before its pre-releases.  The sentinels are below and above all of theirs.
\* Releases are padded with zeros to n segments.
PepKey(c, n) ==
    LET inf == 100 * Top IN
    <<c.epoch>> \o Padded(c.release, n) \o
    <<IF c.min # None THEN -2
      ELSE IF c.pre # NoPre THEN c.pre[1] * Top + c.pre[2]
      ELSE IF c.post = None /\ c.max = None /\ c.dev # None THEN -1
      ELSE inf,
      IF c.max # None THEN inf ELSE c.post,
      IF c.dev = None THEN inf ELSE c.dev,
      IF c.local = LocalMax THEN inf ELSE c.local>>

\* However a version came about, packed or not, it has the parts that were set
\* and no others, it compares with any other as PEP 440 says, whether both are
\* packed, one or none, and equal versions have equal hashes: a packed version
\* is found in a map under the record it equals.
OrderAgrees ==
    /\ Parts(version) = parts
    /\ \A w \in Candidates :
         /\ LET n == Longer(parts.release, Parts(w).release) IN
            Compare(version, w) = Lexicographic(PepKey(parts, n), PepKey(Parts(w), n))
         /\ Compare(version, w) = 0 => HashKey(version) = HashKey(w)
=============================================================================
