--------------------------- MODULE MCSchemaMigrations ---------------------------
(***************************************************************************)
(* Both databases, with the rows that one part of the system writes.       *)
(***************************************************************************)
EXTENDS SchemaMigrations

Both == {"postgresql", "sqlite"}

Jobs == {"company", "posting", "part_time", "source", "entry", "snapshot", "listed"}
Filings == {"company", "odd_website", "filing", "twin_filing", "odd_filing"}
Collection == {"request", "twin_request", "run", "document", "twin_document"}
Evidence == {"company", "entry", "manifest", "observation", "accepted", "round", "in_round", "sample", "severe"}
Chains == {"manifest", "observation", "round", "in_round", "next_round", "successor"}
Rankings == {"company", "document", "ranking", "evidence"}
SixWorlds == {Jobs, Filings, Collection, Evidence, Chains, Rankings}

SomeStops == {0, 1, 5, 8, 10, 18, 21}
=============================================================================
