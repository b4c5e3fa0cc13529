---------------------------- MODULE MCSkillHost ----------------------------
(* Two clients; three versions of which two share a package and two a ref. *)
EXTENDS SkillHost, TLC

CONSTANTS c1, c2, o1, s1, s2, r1, r2, d1, d2

MCVersion ==
  {[source |-> s1, ref |-> r1, digest |-> d1],
   [source |-> s2, ref |-> r1, digest |-> d2],
   [source |-> s2, ref |-> r2, digest |-> d1]}

MCLegacyPlan == {{v \in MCVersion : v.digest = d1}}

Symmetric == Permutations({c1, c2})
=============================================================================
