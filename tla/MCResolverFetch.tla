-------------------------- MODULE MCResolverFetch --------------------------
(***************************************************************************)
(* Instances of ResolverFetch.  Packages a and b come as source            *)
(* distributions a1 and b1, whose builds require s; s comes as wheels.     *)
(***************************************************************************)
EXTENDS ResolverFetch, TLC

Vers == ("a1" :> "a") @@ ("b1" :> "b") @@ ("s1" :> "s") @@ ("s2" :> "s")
OfIn(dists) == [d \in dists |-> Vers[d]]

\* Two builds at a time, both of which need s.
TwoBuildsDist     == {"a1", "b1", "s1"}
TwoBuildsOf       == OfIn(TwoBuildsDist)
TwoBuildsRequires == ("root" :> {"a", "b"}) @@ ("a1" :> {"s"}) @@ ("b1" :> {"s"})
TwoBuildsAnyUrl   == [r \in {"root", "a1", "b1"} |-> {}]
TwoBuildsExplicit == ("root" :> {}) @@ ("a1" :> {}) @@ ("b1" :> {"s"})
TwoBuildsDepends  == [d \in TwoBuildsDist |-> {}]
TwoBuildsAnswers  == [k \in {"a", "b", "s"} |-> {"Found"}] @@ [d \in TwoBuildsDist |-> {"Found"}]

\* The same, with two versions of s: s is a URL in some fork of the root
\* resolution only, the registry serves the metadata of s2, and a depends on s
\* at run time too.  The root resolution prefetches a while it decides on b.
BothDist     == {"a1", "b1", "s1", "s2"}
BothOf       == OfIn(BothDist)
BothRequires == TwoBuildsRequires
BothAnyUrl   == ("root" :> {"s"}) @@ ("a1" :> {}) @@ ("b1" :> {})
BothExplicit == ("root" :> {"b"}) @@ ("a1" :> {}) @@ ("b1" :> {"s"})
BothDepends  == ("a1" :> {"s"}) @@ ("b1" :> {}) @@ ("s1" :> {}) @@ ("s2" :> {})
BothAnswers  == [k \in {"a", "b", "s", "a1", "b1", "s2"} |-> {"Found"}] @@
                ("s1" :> {"Unavailable"})

\* The same, and one of the builds also needs w, whose fetch fails.  Only the
\* root resolution prefetches.
FailingExplicit == ("root" :> {}) @@ ("a1" :> {"s", "w"}) @@ ("b1" :> {"s"})
FailingRequires == ("root" :> {"a", "b"}) @@ ("a1" :> {"s", "w"}) @@ ("b1" :> {"s"})
FailingAnswers  == TwoBuildsAnswers @@ ("w" :> {"Found"})
=============================================================================
