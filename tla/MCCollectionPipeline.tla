-------------------------- MODULE MCCollectionPipeline --------------------------
(***************************************************************************)
(* Two runs that one process collects at a time, or one run with more      *)
(* queries than slots; with Serper or without it.                          *)
(***************************************************************************)
EXTENDS CollectionPipeline, TLC

CONSTANTS r1, r2, solo, q1, q2, q3, feishu, moka, platform, acme, rival

AllRuns == {r1, r2, solo}
SomeQueries == r1 :> {q1, q2} @@ r2 :> {q1} @@ solo :> {q1, q2, q3}
TwoUrls == {feishu, moka}
OnePlatform == {platform}
SamePlatform == [u \in TwoUrls |-> platform]
OneCompany == {acme}
TwoCompanies == {acme, rival}

WithSerper == [enabled |-> {"serper", "ats"}, runs |-> {r1, r2}]
WithoutSerper == [enabled |-> {"ymicp", "tianyancha", "zhihu", "ats"}, runs |-> {r1}]
WithoutAts == [enabled |-> {"zhihu"}, runs |-> {r1}]
SoloPool == [enabled |-> {"serper", "ats"}, runs |-> {solo}]
FourDeployments == {WithSerper, SoloPool, WithoutSerper, WithoutAts}

\* A page that names the company in full, one that has its name in the address
\* and one that only resembles it.
FullPage == [url |-> feishu, ats |-> TRUE, mention |-> TRUE, title |-> TRUE, similarity |-> 100]
NearPage == [url |-> moka, ats |-> TRUE, mention |-> TRUE, title |-> TRUE, similarity |-> 92]
LikePage == [url |-> moka, ats |-> TRUE, mention |-> FALSE, title |-> FALSE, similarity |-> 78]
\* The web has nothing on the company of r2.
SomeFinds ==
  r1 :> {{}, {FullPage}, {NearPage}, {FullPage, LikePage}} @@ r2 :> {{}} @@ solo :> {{}, {FullPage}}
=============================================================================
