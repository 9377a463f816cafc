--------------------------- MODULE MCCachedClient ---------------------------
(* Servers and uv processes for CachedClient. *)
EXTENDS CachedClient, TLC

Plain == [maxAge |-> None, expires |-> None, lastMod |-> FALSE, etag |-> "none",
          noCache |-> FALSE, noStore |-> FALSE, immutable |-> FALSE, vary |-> FALSE]
Run   == [refresh |-> FALSE, offline |-> FALSE, override |-> FALSE, skip |-> FALSE]

\* A package index: responses may be used for two seconds, and have an entity tag.
Tagged   == [Plain EXCEPT !.maxAge = 2, !.etag = "strong"]
\* A server that only sends dates: the heuristic lifetime applies.
Dated    == [Plain EXCEPT !.lastMod = TRUE, !.etag = "weak"]
NoStore  == [Plain EXCEPT !.noStore = TRUE, !.etag = "strong"]
NoCache  == [Plain EXCEPT !.noCache = TRUE, !.expires = 2, !.etag = "strong"]
\* `Expires: 0`, which is no date.
Expired  == [Plain EXCEPT !.expires = Invalid, !.lastMod = TRUE]
Varies   == [Plain EXCEPT !.vary = TRUE, !.expires = 2]
Constant == [Plain EXCEPT !.immutable = TRUE, !.maxAge = 2, !.etag = "strong"]

RaceHeaders == {Tagged}
RaceOptions == {Run, [Run EXCEPT !.refresh = TRUE]}

KindHeaders == {Dated, Expired, NoStore, NoCache, Varies, Constant}
KindOptions == {Run, [Run EXCEPT !.refresh = TRUE], [Run EXCEPT !.offline = TRUE],
                [Run EXCEPT !.override = TRUE],
                [Run EXCEPT !.override = TRUE, !.refresh = TRUE], [Run EXCEPT !.skip = TRUE]}

RetryHeaders == {Tagged}
RetryOptions == {Run, [Run EXCEPT !.skip = TRUE]}

Symmetric == Permutations(Client)
=============================================================================
