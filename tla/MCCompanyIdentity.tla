---------------------------- MODULE MCCompanyIdentity ----------------------------
(* Model values for CompanyIdentity.                                             *)
EXTENDS CompanyIdentity, TLC

CONSTANTS i1, i2, f1, f2, x1, x2, r1, r2, k1, k2, g1, g2

Symmetry == Permutations(Reviewers) \cup Permutations(Curators) \cup Permutations(Ingesters)
            \cup Permutations(FreshIds)

\* The names of the facts join those of the identities, which have one website.
MCNameOf == [c \in Identities |-> CASE c = i1 -> 1 [] c = i2 -> 3 [] OTHER -> 2]
MCAliasesOf == [c \in Identities |-> CASE c = i1 -> {2} [] c = f2 -> {3} [] OTHER -> {}]
MCSiteOf == [c \in Identities |-> IF c = f2 THEN NoSite ELSE 11]
MCPilotSiteOf == [n \in Imports |-> 11]
NoSites == [c \in Identities |-> NoSite]
NoLegals == [c \in Identities |-> {}]
\* One legal identifier stands in two identities that have no name in common.
ApartNameOf == [c \in Identities |-> IF c = i1 THEN 1 ELSE 3]
ApartLegalsOf == [c \in Identities |-> IF c \in Found THEN {21} ELSE {}]
NoAliases == [c \in Identities |-> {}]
==================================================================================
