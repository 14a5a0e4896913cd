--------------------------- MODULE MCCompanyQueries ---------------------------
(* Two companies; the first has a posting with two sources.  Two sessions  *)
(* persist one batch each.                                                 *)
EXTENDS CompanyQueries, TLC

CONSTANTS s1, s2, acme, bolt

P1 == <<"given", "p1">>
MCStored ==
  [k \in {Posting(P1)} |-> [company |-> acme, type |-> "unknown"]]
  @@ [k \in {Active(P1), Open("a"), Open("b")} |-> TRUE]
  @@ [k \in {Source("a"), Source("b")} |-> P1]
  @@ [k \in {Document("d")} |-> 1] @@ [k \in {Evidence(acme, "d")} |-> {"industry"}]

Fetch(t) == [key |-> Document("d"), value |-> t]
Covers(c, f) == [key |-> Evidence(c, "d"), value |-> {f}]
Lists(j, p, type, active) == [source |-> j, posting |-> p, type |-> type, active |-> active]
Collects(c, names, facts, jobs) ==
  [company |-> c, names |-> names, claimed |-> TRUE, cached |-> TRUE, facts |-> facts,
   jobs |-> jobs, filings |-> {}, profile |-> FALSE, collected |-> 0]

\* The second and the third name are aliases of the first company.
CloseFirst == Collects(acme, {1}, <<Fetch(3)>>, <<Lists("a", NoPosting, "campus", FALSE)>>)
CloseSecond == Collects(acme, {1, 2}, <<>>, <<Lists("b", P1, "unknown", FALSE)>>)
AddUnderAlias ==
  [Collects(acme, {3}, <<>>, <<Lists("n", NoPosting, "unknown", TRUE)>>) EXCEPT
     !.claimed = FALSE, !.cached = FALSE, !.filings = {"f"}, !.profile = TRUE, !.collected = 1]
AddToPosting ==
  [Collects(acme, {2}, <<>>, <<Lists("n", P1, "intern", TRUE)>>) EXCEPT
     !.filings = {"f"}, !.profile = TRUE, !.collected = 2]
AddElsewhere ==
  [Collects(bolt, {4}, <<Fetch(2)>>,
            <<Lists("n", NoPosting, "campus", TRUE), Lists("n", NoPosting, "unknown", FALSE)>>)
     EXCEPT !.cached = FALSE]
CloseUnderAlias == [CloseSecond EXCEPT !.names = {3}]
Enrich == [Collects(acme, {1}, <<Covers(acme, "website")>>, <<>>) EXCEPT !.claimed = FALSE]
EnrichUnderAlias == [Enrich EXCEPT !.names = {3}, !.facts = <<Fetch(2), Covers(acme, "city")>>]

Plain(c, names) == [Collects(c, names, <<>>, <<>>) EXCEPT !.claimed = FALSE]
MCWatched == {Plain(acme, {1}), Plain(acme, {2})}
MCBatches == MCWatched \cup {CloseFirst, CloseSecond, AddUnderAlias, AddToPosting, AddElsewhere, Enrich}

-----------------------------------------------------------------------------
(* Refuted beside the runs: nothing serializes a company's sessions that   *)
(* share no name, nor sessions of two companies that share a document.     *)

AliasBatches == {CloseFirst, CloseUnderAlias, Enrich, EnrichUnderAlias}

\* What a posting shows agrees with its sources when no session is open.
PostingsAgree ==
  (\A s \in Sessions : txn[s].pc = "idle") =>
    \A k \in Keys("active") : rows[k] <=> \E j \in Keys("source") : rows[j] = k[2] /\ rows[Open(j[2])]

\* A stored document never goes back to an older fetch.
DocumentsNeverGoBack == [][\A k \in Keys("document") : rows'[k] >= rows[k]]_rows

\* A field that was covered stays covered.
EvidenceGrows == [][\A k \in Keys("evidence") : rows[k] \subseteq rows'[k]]_rows
=============================================================================
