------------------------- MODULE VersionSpecifiers --------------------------
(***************************************************************************)
(* Version specifiers of uv-pep440, which are read in two ways: `contains` *)
(* asks whether one version matches (installed packages, candidates), and  *)
(* the conversion to `Ranges` gives the resolver an interval of versions,  *)
(* whose bounds may be sentinels that are no versions.  For Python itself  *)
(* there is a third, which looks at releases only.                         *)
(*                                                                         *)
(* `Ranges` is of the crate version-ranges: here, a set of intervals.      *)
(***************************************************************************)
EXTENDS Versions

Operator == {"==", "===", "!=", "~=", "<", "<=", ">", ">=", "==*", "!=*"}

any_prerelease(c) == c.pre # NoPre \/ c.dev # None

\* `from_version`, and the parser: a star follows a release, local versions
\* only go with equality, and ~= needs two segments.
Allowed(op, c) ==
    /\ c.local # NoLocal => op \in {"==", "===", "!="}
    /\ op = "~=" => Len(c.release) >= 2
    /\ op \in {"==*", "!=*"} => ~any_prerelease(c) /\ c.post = None
-----------------------------------------------------------------------------
(* `VersionSpecifier::contains`.                                           *)

\* The segments of q and r are the same for as long as both have one.
PrefixSoFar(q, r) == \A i \in 1..Len(q) : i <= Len(r) => q[i] = r[i]

\* The segments of r, padded with zeros, begin with those of q.
Prefix(q, r) == \A i \in 1..Len(q) : q[i] = (IF i <= Len(r) THEN r[i] ELSE 0)

contains(op, this, version_) ==
    LET t     == Parts(this)
        other == IF t.local = NoLocal THEN with_local(version_, NoLocal) ELSE version_
        o     == Parts(other)
        c     == Compare(other, this)
    IN  CASE op = "=="  -> c = 0
          [] op = "!="  -> c # 0
          [] op = "===" -> Parts(version_) = t
          [] op = "==*" -> t.epoch = o.epoch /\ Prefix(t.release, o.release)
          [] op = "!=*" -> t.epoch # o.epoch \/ ~Prefix(t.release, o.release)
          [] op = "~="  -> /\ t.epoch = o.epoch
                           /\ PrefixSoFar(SubSeq(t.release, 1, Len(t.release) - 1), o.release)
                           /\ c >= 0
          [] op = ">"   -> \/ o.epoch > t.epoch
                           \/ /\ compare_release(t.release, o.release) = 0 =>
                                   ~(t.post = None /\ o.post # None) /\ o.local = NoLocal
                              /\ c > 0
          [] op = ">="  -> c >= 0
          [] op = "<"   -> \/ o.epoch < t.epoch
                           \/ /\ ~(~any_prerelease(t) /\ any_prerelease(o)
                                   /\ Compare(other, with_dev(this, 0)) >= 0)
                              /\ c < 0
          [] op = "<="  -> c <= 0
-----------------------------------------------------------------------------
(* Ranges.                                                                 *)

Unbounded     == <<"unbounded">>
Included(v)   == <<"included", v>>
Excluded(v)   == <<"excluded", v>>
Between(l, u) == {[lower |-> l, upper |-> u]}

AboveLower(b, v) ==
    CASE b[1] = "unbounded" -> TRUE
      [] b[1] = "included"  -> Compare(v, b[2]) >= 0
      [] b[1] = "excluded"  -> Compare(v, b[2]) > 0

BelowUpper(b, v) ==
    CASE b[1] = "unbounded" -> TRUE
      [] b[1] = "included"  -> Compare(v, b[2]) <= 0
      [] b[1] = "excluded"  -> Compare(v, b[2]) < 0

InRange(range, v) == \E i \in range : AboveLower(i.lower, v) /\ BelowUpper(i.upper, v)

\* The complement of a range with one interval.
Flip(b) == IF b[1] = "included" THEN Excluded(b[2]) ELSE Included(b[2])

Complement(range) ==
    LET i == CHOOSE i \in range : TRUE IN
    (IF i.lower = Unbounded THEN {} ELSE Between(Unbounded, Flip(i.lower))) \cup
    (IF i.upper = Unbounded THEN {} ELSE Between(Flip(i.upper), Unbounded))

\* A release with its last segment one higher.
Bumped(r) == [r EXCEPT ![Len(r)] = @ + 1]

\* `From<VersionSpecifier> for Ranges<Version>`.
EqualRange(v) ==
    IF Parts(v).local = NoLocal
      THEN Between(Included(v), Included(with_local(v, LocalMax)))
      ELSE Between(Included(v), Included(v))

TildeRange(v) ==
    LET c == Parts(v) IN
    Between(Included(v),
            Excluded(with_dev(with_epoch(VersionNew(Bumped(SubSeq(c.release, 1, Len(c.release) - 1))),
                                         c.epoch), 0)))

\* A star follows a release (Allowed), so the branches for a star after a post-
\* or a pre-release are not taken.
StarRange(v) ==
    LET low  == with_dev(v, 0)
        high == with_release(low, Bumped(Parts(low).release))
    IN  Between(Included(low), Excluded(high))

LessRange(v) ==
    LET c == Parts(v) IN
    Between(Unbounded, Excluded(IF any_prerelease(c) THEN v
                                ELSE IF c.post # None THEN with_dev(v, 0)
                                ELSE with_min(v, 0)))

GreaterRange(v) ==
    LET c == Parts(v) IN
    IF c.dev # None       THEN Between(Included(with_dev(v, c.dev + 1)), Unbounded)
    ELSE IF c.post # None THEN Between(Excluded(with_local(v, LocalMax)), Unbounded)
    ELSE Between(Excluded(with_max(v, 0)), Unbounded)

ToRange(op, v) ==
    CASE op = "=="  -> EqualRange(v)
      [] op = "===" -> Between(Included(v), Included(v))
      [] op = "!="  -> Complement(EqualRange(v))
      [] op = "~="  -> TildeRange(v)
      [] op = "<"   -> LessRange(v)
      [] op = "<="  -> Between(Unbounded, Included(with_local(v, LocalMax)))
      [] op = ">"   -> GreaterRange(v)
      [] op = ">="  -> Between(Included(v), Unbounded)
      [] op = "==*" -> StarRange(v)
      [] op = "!=*" -> Complement(StarRange(v))

\* `release_specifier_to_range`.
ReleaseRange(op, v, trim) ==
    LET r  == IF trim THEN only_release_trimmed(v) ELSE only_release(v)
        s  == Parts(v).release
        up == VersionNew(Bumped(SubSeq(s, 1, Len(s) - 1)))
        st == Between(Included(v), Excluded(with_release(only_release(v), Bumped(s))))
    IN  CASE op \in {"==", "==="} -> Between(Included(r), Included(r))
          [] op = "!="  -> Complement(Between(Included(r), Included(r)))
          [] op = "<"   -> Between(Unbounded, Excluded(r))
          [] op = "<="  -> Between(Unbounded, Included(r))
          [] op = ">"   -> Between(Excluded(r), Unbounded)
          [] op = ">="  -> Between(Included(r), Unbounded)
          [] op = "~="  -> Between(Included(r), Excluded(up))
          [] op = "==*" -> st
          [] op = "!=*" -> Complement(st)
-----------------------------------------------------------------------------
(* `canonicalize_version_ranges`.                                          *)

PEP440_MIN_VERSION == with_dev(VersionNew(<<0>>), 0)

\* Mutant: the successor of a post release is a final release of it.
sentinel_successor_post(v) ==
    LET c == Parts(v)
        w == with_local(v, NoLocal)
    IN  IF c.local # LocalMax THEN <<>>
        ELSE IF c.dev # None  THEN <<with_dev(w, c.dev + 1)>>
        ELSE IF c.post # None THEN <<with_post(w, c.post + 1)>>
        ELSE <<with_post(w, 0)>>

\* The least version above a sentinel, if there is one.
sentinel_successor(v) ==
    LET c == Parts(v)
        w == with_local(v, NoLocal)
    IN  IF c.local = LocalMax
          THEN IF c.dev # None       THEN <<with_dev(w, c.dev + 1)>>
               ELSE IF c.post # None THEN <<with_dev(with_post(w, c.post + 1), 0)>>
               ELSE <<with_dev(with_post(w, 0), 0)>>
        ELSE IF c.min # None THEN <<with_dev(with_min(v, None), 0)>>
        ELSE IF c.max # None /\ c.pre # NoPre
          THEN <<with_dev(with_pre(with_max(v, None), <<c.pre[1], c.pre[2] + 1>>), 0)>>
        ELSE <<>>

Successor(b) == IF b = Unbounded THEN <<>> ELSE sentinel_successor(b[2])

CanonicalLower(b) ==
    LET l == IF Successor(b) = <<>> THEN b ELSE Included(Successor(b)[1]) IN
    CASE l[1] = "included" /\ Compare(l[2], PEP440_MIN_VERSION) <= 0 -> Unbounded
      [] l[1] = "excluded" /\ Compare(l[2], PEP440_MIN_VERSION) < 0  -> Unbounded
      [] OTHER -> l

CanonicalUpper(b) == IF Successor(b) = <<>> THEN b ELSE Excluded(Successor(b)[1])

BelowFloor(b) ==
    \/ b[1] = "included" /\ Compare(b[2], PEP440_MIN_VERSION) < 0
    \/ b[1] = "excluded" /\ Compare(b[2], PEP440_MIN_VERSION) <= 0

canonicalize_version_ranges(range) ==
    {[lower |-> CanonicalLower(i.lower), upper |-> CanonicalUpper(i.upper)] :
        i \in {i \in range : ~BelowFloor(CanonicalUpper(i.upper))}}
-----------------------------------------------------------------------------
\* The specifiers that can be written with the version at hand.
Written(op) == ~IsSentinel(parts) /\ Allowed(op, parts)

\* `contains` compares the text for ===, which has no range.  And > V with a
\* pre-release V, as > 1.0a1, has in its range the post-releases of the release
\* of V that are above V and are not post-releases of V itself, as 1.0.post1 and
\* 1.0a2.post1, but `contains` takes none of them.
Differs(op, w) ==
    \/ op = "===" /\ Compare(version, w) = 0
    \/ /\ op = ">" /\ any_prerelease(parts) /\ parts.post = None
       /\ Parts(w).post # None /\ Parts(w).epoch = parts.epoch
       /\ compare_release(parts.release, Parts(w).release) = 0
       /\ Compare(version, w) < 0
       /\ parts.dev # None \/ Parts(w).pre # parts.pre

\* The resolver chooses from the range of a specifier exactly the versions that
\* `contains` accepts when what is installed is checked against it, before and
\* after the sentinels in the range are replaced by their successors
\* ("canonicalization_preserves_real_version_membership"), which leaves no more
\* to replace.
RangeAgrees ==
    \A op \in Operator : Written(op) =>
        LET range     == ToRange(op, version)
            canonical == canonicalize_version_ranges(range)
        IN  /\ \A w \in Candidates :
                 /\ InRange(range, w) <=> InRange(canonical, w)
                 /\ Differs(op, w) \/ (contains(op, version, w) <=> InRange(range, w))
            /\ canonicalize_version_ranges(canonical) = canonical

\* Among releases, the release-only range of a specifier that names a release
\* holds what `contains` accepts, with or without trailing zeros.
ReleaseAgrees ==
    \A op \in Operator \ {"==="} : \A trim \in BOOLEAN :
        (Written(op) /\ parts = NoParts(parts.release)) =>
            \A r \in Releases :
                contains(op, version, VersionNew(r)) <=>
                    InRange(ReleaseRange(op, version, trim), VersionNew(r))

\* As RangeAgrees, without exceptions.
RangeSame ==
    \A op \in Operator \ {"==="} : Written(op) =>
        \A w \in Candidates : contains(op, version, w) <=> InRange(ToRange(op, version), w)
=============================================================================
