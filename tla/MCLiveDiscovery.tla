---------------------------- MODULE MCLiveDiscovery ----------------------------
(* Model values for LiveDiscovery: members of one host that answers at two        *)
(* origins.                                                                       *)
EXTENDS LiveDiscovery, TLC

CONSTANTS plain, secure

OneHost == (plain :> "h" @@ secure :> "h")
\* The third member has no site; the last one, where there are four, comes with an entry.
Sites == [c \in Members |-> IF c = 3 THEN NoSite ELSE plain]
TwoPaths == {"/", "/jobs"}
JobPages == [origin : {plain, secure}, path : {"/jobs"}]
MCRules == {{"/", "/jobs"}}
================================================================================
