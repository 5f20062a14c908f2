---------------------------- MODULE MCSelfUpdate ----------------------------
(* A small instance of SelfUpdate for TLC: a patch level left out, a second  *)
(* digit, and a pre-release.                                                  *)
EXTENDS SelfUpdate

Version(n, p) == [num |-> n, pre |-> p]
MCInstalled == Version(<<1, 2>>, FALSE)
MCReleases == {Version(<<1, 2, 0>>, FALSE), Version(<<1, 10, 0>>, FALSE),
               Version(<<1, 10, 1>>, TRUE)}

\* The versions are such as NoDowngrade takes.
ASSUME MCVersionsAssumption == Comparable /\ SuffixesAhead
=============================================================================
