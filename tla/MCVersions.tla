----------------------------- MODULE MCVersions -----------------------------
(* Versions with narrow fields, and parts on both sides of each limit.     *)
EXTENDS VersionSpecifiers

MCReleases == {<<0>>, <<1>>, <<1, 0>>, <<1, 2>>, <<4, 1>>, <<1, 0, 0, 0, 1>>}
MCPres     == {<<2, 3>>, <<2, 4>>, <<4, 0>>}
=============================================================================
