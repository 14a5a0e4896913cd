------------------------------- MODULE LiveDiscovery -------------------------------
(* The `discover` command of app/manifest/cli.py at the granularity of requests:   *)
(* for every member of a manifest it asks the robots rules of the official site,   *)
(* reads the site and its recruitment links, falls back to a budgeted search, and  *)
(* records what it found.  The command is sequential; an operator runs it again    *)
(* with --resume after a limit or a crash, and then it rebuilds from the recorded  *)
(* observations which sites it must leave alone.                                   *)
(*                                                                                 *)
(* Members are their positions in the manifest.  An address is an origin and a     *)
(* path; what a site answers, and what a page links to, is free.                   *)
EXTENDS Naturals, FiniteSets

CONSTANTS
    N,              \* members of the manifest, taken in order of position
    Origins,        \* scheme, host and port of the addresses
    HostOf,         \* [Origins -> hosts]
    SiteOf,         \* [Members -> Origins \cup {NoSite}], official_website
    NoSite,
    None,           \* nothing: no observation, rule, page, request ...
    Evidenced,      \* members whose candidate already has a recruitment_url
    Paths,          \* paths of the addresses
    Root,           \* the path "/"
    Entries,        \* addresses that look like recruitment links, by label or path
    RuleSets,       \* what a robots file may permit, sets of paths
    MaxPages,       \* _MAX_CANDIDATE_PAGES
    MaxRedirects,   \* MAX_REDIRECTS
    Attempts,       \* requests of one search, len(_RETRY_DELAYS) + 1
    Budget,         \* requests of the fallback in one process; 0 disables it
    Limits,         \* values of --limit
    MaxStarts       \* bound on how often the operator runs the command

Members == 1..N
Hosts == {HostOf[o] : o \in Origins}
Addresses == [origin : Origins, path : Paths]
Zhihu == "zhihu_global_search"
Sited == {c \in Members : SiteOf[c] # NoSite}
Outcomes == {"accepted", "review_required", "blocked", "failed", "not_found"}
ResultMethods == {"official_navigation", "evidenced_recruitment_url", Zhihu, "fallback_disabled"}
Codes == {"provider_access_denied", "provider_rate_limited", "provider_auth_failed", "challenge",
          "robots_disallowed", "total_timeout", "too_many_redirects", "unsafe_redirect", "http_error",
          "official_website_missing", "recruitment_entry_not_found", "external", "page", "evidenced",
          "source_access_stopped", "source_rate_limited", "fallback_source_stopped",
          "request_budget_exhausted", "fallback_request_failed", "unsearched", "answered"}
SiteObservation == [status : Outcomes, method : ResultMethods, code : Codes, at : Nat, first : BOOLEAN]
Reasons == {"site", "link", "redirect"}
Page == [url : Addresses, why : Reasons, hops : Nat]
Request == [to : Hosts \cup {Zhihu}, kind : {"robots", "page", "search"}, url : Addresses \cup {None}]

ASSUME PositiveBounds == {N, MaxPages, MaxRedirects, Attempts, MaxStarts} \subseteq Nat \ {0}
ASSUME BudgetIsNat == Budget \in Nat
ASSUME AddressesAreGiven ==
    /\ Root \in Paths /\ Entries \subseteq Addresses /\ RuleSets \subseteq SUBSET Paths /\ Paths \in RuleSets
    /\ NoSite \notin Origins /\ SiteOf \in [Members -> Origins \cup {NoSite}]
    /\ Evidenced \subseteq Members /\ Limits \subseteq 1..N
ASSUME SearchIsNoSite == Zhihu \notin Hosts
ASSUME NoneIsNothing == None \notin SiteObservation \cup Page \cup Request

VARIABLES
    obs,        \* the legacy observation of each member, or None
    clock,      \* observed_at of the newest observation
    starts,     \* how often the command was run
    pc,         \* where the command is, "down" when none runs
    state,      \* its _DiscoveryState, with the stop of the fallback
    at,         \* the member whose turn it is
    left,       \* how many members --limit still lets it take
    robots,     \* the rules it knows, by origin
    ask,        \* the address whose permission is wanted, and what for
    page,       \* the page being read and the redirects it took
    links,      \* recruitment links of the site not tried yet, and how many were
    failed,     \* last_error
    tries,      \* requests made by the present search
    spent,      \* requests made by the fallback in this process
    result,     \* what the member's discovery came to
    wire        \* the request that waits for its answer

memory == <<state, at, left, robots, <<ask, page, links, failed, tries>>, spent, result>>
liveVars == <<obs, clock, starts, pc, memory, wire>>

------------------------------------------------------------------------------------
(* Results and what they mean for a later attempt.                                 *)

Found(status, method, code) == [status |-> status, method |-> method, code |-> code]

Blocking == {"provider_access_denied", "provider_rate_limited", "challenge", "robots_disallowed"}

Failure(code) == Found(IF code \in Blocking THEN "blocked" ELSE "failed", "official_navigation", code)

\* A failed attempt, or one that was rate limited, may be made again.
Retryable(o) ==
    \/ o.status = "failed"
    \/ o.status = "blocked" /\ o.code = "provider_rate_limited"

FallbackStops == {"fallback_source_stopped", "provider_auth_failed",
                  "provider_rate_limited", "request_budget_exhausted"}

StopsFallback(o) == o.method = Zhihu /\ o.code \in FallbackStops

Host(c) == IF c \in Sited THEN HostOf[SiteOf[c]] ELSE None

Fresh == [stopped |-> {}, limits |-> [h \in Hosts |-> 0], halted |-> FALSE]

\* Mutant: a refusal counts like any other answer.
FaultyWithResult(s, c, o) ==
    IF c \notin Sited \/ o.method # "official_navigation" THEN s
    ELSE IF o.code = "provider_rate_limited"
         THEN [s EXCEPT !.limits[Host(c)] = @ + 1,
                        !.stopped = IF s.limits[Host(c)] + 1 >= 3 THEN @ \cup {Host(c)} ELSE @]
         ELSE [s EXCEPT !.limits[Host(c)] = 0]

\* What one result teaches about the official host.
WithResult(s, c, o) ==
    IF c \notin Sited \/ o.method # "official_navigation" THEN s
    ELSE LET h == Host(c) IN
    CASE o.code \in {"provider_access_denied", "source_access_stopped"} ->
           [s EXCEPT !.stopped = @ \cup {h}]
      [] o.code = "source_rate_limited" ->
           [s EXCEPT !.limits[h] = 3, !.stopped = @ \cup {h}]
      [] o.code = "provider_rate_limited" ->
           [s EXCEPT !.limits[h] = @ + 1,
                     !.stopped = IF s.limits[h] + 1 >= 3 THEN @ \cup {h} ELSE @]
      [] OTHER -> [s EXCEPT !.limits[h] = 0]

Observed == {c \in Members : obs[c] # None}

\* The member whose observation in o was made at time t.
MadeAt(o, t) == CHOOSE c \in Members : o[c] # None /\ o[c].at = t

\* Mutant: the observations are read in the reverse order of the manifest.
FaultyReplay(o, n) ==
    LET down[i \in 0..N] ==
            IF i = 0 THEN Fresh
            ELSE LET c == N + 1 - i
                 IN  IF o[c] # None THEN WithResult(down[i - 1], c, o[c]) ELSE down[i - 1]
    IN  down[N]

\* What the observations o teach that were made until time n, in the order of observed_at;
\* no two are made at one time.
Replay(o, n) ==
    LET upTo[t \in 0..n] ==
            IF t = 0 THEN Fresh
            ELSE IF \E c \in Members : o[c] # None /\ o[c].at = t
                 THEN LET c == MadeAt(o, t) IN WithResult(upTo[t - 1], c, o[c])
                 ELSE upTo[t - 1]
    IN  upTo[n]

\* The state a resume builds from the observations.
Rebuilt ==
    [Replay(obs, clock) EXCEPT !.halted = \E c \in Observed : StopsFallback(obs[c])]

Terminal == {c \in Observed : ~Retryable(obs[c])}

------------------------------------------------------------------------------------
NoLinks == [todo |-> {}, tried |-> 0]

Forget ==
    /\ state' = Fresh /\ at' = 0 /\ left' = 0
    /\ robots' = [o \in Origins |-> None]
    /\ ask' = None /\ page' = None /\ links' = NoLinks /\ failed' = None /\ tries' = 0
    /\ spent' = 0 /\ result' = None

LiveInit ==
    /\ obs = [c \in Members |-> None] /\ clock = 0 /\ starts = 0
    /\ pc = "down" /\ wire = None
    /\ state = Fresh /\ at = 0 /\ left = 0
    /\ robots = [o \in Origins |-> None]
    /\ ask = None /\ page = None /\ links = NoLinks /\ failed = None /\ tries = 0
    /\ spent = 0 /\ result = None

\* _discover: the robots rules and the counts of an earlier process are gone.
Start ==
    /\ pc = "down" /\ starts < MaxStarts
    /\ starts' = starts + 1 /\ pc' = "loop"
    /\ state' = Rebuilt /\ at' = 1 /\ left' \in Limits
    /\ UNCHANGED <<obs, clock, robots, ask, page, links, failed, tries, spent, result, wire>>

\* The process dies, with a request on its way or a result not yet recorded.
Crash ==
    /\ pc # "down" /\ starts < MaxStarts
    /\ pc' = "down" /\ Forget /\ wire' = None
    /\ UNCHANGED <<obs, clock, starts>>

Ends == at > N \/ (at \notin Terminal /\ left = 0)

Finish ==
    /\ pc = "loop" /\ Ends
    /\ pc' = "down" /\ Forget /\ wire' = None
    /\ UNCHANGED <<obs, clock, starts>>

\* A member whose observation is final when its turn comes is passed over.
Skip ==
    /\ pc = "loop" /\ ~Ends /\ at \in Terminal
    /\ at' = at + 1
    /\ UNCHANGED <<obs, clock, starts, pc, state, left, robots, ask, page, links, failed,
                   tries, spent, result, wire>>

Turn == pc = "loop" /\ ~Ends /\ at \notin Terminal

HostIsStopped == Host(at) \in state.stopped

\* Its host was stopped by another member's result: nothing is requested.
LeaveAlone ==
    /\ Turn /\ HostIsStopped
    /\ pc' = "record"
    /\ result' = Found("blocked", "official_navigation",
                       IF state.limits[Host(at)] >= 3 THEN "source_rate_limited"
                                                     ELSE "source_access_stopped")
    /\ UNCHANGED <<obs, clock, starts, state, at, left, robots, ask, page, links, failed,
                   tries, spent, wire>>

(* The last thing a discovery does: keep the result and what it teaches.           *)
Conclude(o) ==
    /\ pc' = "record" /\ result' = o /\ state' = WithResult(state, at, o)
    /\ ask' = None /\ page' = None /\ links' = NoLinks
    /\ failed' = None /\ tries' = 0
    /\ UNCHANGED <<obs, clock, starts, at, left, robots, spent>>

\* EntryDiscoveryCoordinator: only a site without an entry is looked up elsewhere.
Official(o) ==
    IF o.status # "not_found" THEN Conclude(o)
    ELSE /\ pc' = "fallback"
         /\ ask' = None /\ page' = None /\ links' = NoLinks
         /\ failed' = None
         /\ UNCHANGED <<obs, clock, starts, state, at, left, robots, tries, spent, result>>

\* The recruitment address of the candidate is judged without a request.
TakeEvidenced ==
    /\ Turn /\ ~HostIsStopped /\ at \in Evidenced
    /\ \E status \in {"accepted", "review_required", "failed"} :
          Conclude(Found(status, "evidenced_recruitment_url", "evidenced"))
    /\ UNCHANGED wire

WithoutSite ==
    /\ Turn /\ ~HostIsStopped /\ at \notin Evidenced \cup Sited
    /\ Official(Found("not_found", "official_navigation", "official_website_missing"))
    /\ UNCHANGED wire

Wants(url, why) == ask' = [url |-> url, why |-> why] /\ pc' = "ask"

VisitSite ==
    /\ Turn /\ ~HostIsStopped /\ at \in Sited \ Evidenced
    /\ Wants([origin |-> SiteOf[at], path |-> Root], "site")
    /\ UNCHANGED <<obs, clock, starts, state, at, left, robots, page, links, failed, tries,
                   spent, result, wire>>

------------------------------------------------------------------------------------
(* RobotsPolicy.can_fetch.                                                         *)

Send(to, kind, url) == wire' = [to |-> to, kind |-> kind, url |-> url]

AskRobots ==
    /\ pc = "ask" /\ wire = None /\ robots[ask.url.origin] = None
    /\ Send(HostOf[ask.url.origin], "robots", ask.url)
    /\ UNCHANGED <<obs, clock, starts, pc, memory>>

\* A page that could not be read ends the visit, unless other links are left.
PageFailed(code) ==
    IF page.why = "site" \/ code \in {"provider_access_denied", "provider_rate_limited"}
    THEN Official(Failure(code))
    ELSE /\ pc' = "links" /\ failed' = code /\ ask' = None /\ page' = None
         /\ UNCHANGED <<obs, clock, starts, state, at, left, robots, links, tries, spent, result>>

\* Missing rules permit everything, unreadable ones nothing, both until the process ends.
LearnRobots ==
    /\ pc = "ask" /\ wire # None /\ wire' = None
    /\ \E rules \in RuleSets \cup {{}} : robots' = [robots EXCEPT ![ask.url.origin] = rules]
    /\ UNCHANGED <<obs, clock, starts, pc, state, at, left, ask, page, links, failed, tries,
                   spent, result>>

\* A refusal of the rules themselves is a refusal by the site; the deadline of the page
\* whose redirect waits for them may pass as well.
RobotsRefused ==
    /\ pc = "ask" /\ wire # None /\ wire' = None
    /\ \E code \in {"provider_access_denied", "provider_rate_limited", "total_timeout"} :
          \/ ask.why = "redirect" /\ PageFailed(code)
          \/ ask.why # "redirect" /\ code # "total_timeout" /\ Official(Failure(code))

Permitted(url) == robots[url.origin] # None /\ url.path \in robots[url.origin]

\* Mutant: redirects are not counted.
FaultyHop(p, url) == [p EXCEPT !.url = url]

Hop(p, url) == [p EXCEPT !.url = url, !.hops = @ + 1]

\* The address may be read.
Permit ==
    /\ pc = "ask" /\ wire = None /\ Permitted(ask.url)
    /\ UNCHANGED wire
    /\ IF ask.why = "redirect" /\ page.hops = MaxRedirects
       THEN PageFailed("too_many_redirects")
       ELSE /\ pc' = "page" /\ ask' = None
            /\ page' = IF ask.why = "redirect"
                       THEN Hop(page, ask.url)
                       ELSE [url |-> ask.url, why |-> ask.why, hops |-> 0]
            /\ UNCHANGED <<obs, clock, starts, state, at, left, robots, links, failed, tries,
                           spent, result>>

Forbid ==
    /\ pc = "ask" /\ wire = None /\ robots[ask.url.origin] # None /\ ~Permitted(ask.url)
    /\ UNCHANGED wire
    /\ CASE ask.why = "site" -> Official(Failure("robots_disallowed"))
         [] ask.why = "redirect" -> PageFailed("unsafe_redirect")
         [] OTHER ->
              /\ pc' = "links" /\ failed' = "robots_disallowed" /\ ask' = None
              /\ UNCHANGED <<obs, clock, starts, state, at, left, robots, page, links, tries,
                             spent, result>>

------------------------------------------------------------------------------------
(* SafeHttpClient.get_text and what OfficialEntryDiscoverer makes of a page.       *)

AskPage ==
    /\ pc = "page" /\ wire = None
    /\ Send(Host(at), "page", page.url)
    /\ UNCHANGED <<obs, clock, starts, pc, memory>>

\* Mutant: a redirect is followed without a look at the rules.
FaultyFollows(url) == pc' = "page" /\ ask' = None /\ page' = Hop(page, url)

\* A redirect stays at the host and asks the rules again before it is followed.
Follows(url) == Wants(url, "redirect") /\ UNCHANGED page

Redirected ==
    /\ pc = "page" /\ wire # None /\ wire' = None
    /\ \E url \in Addresses : HostOf[url.origin] = Host(at) /\ Follows(url)
    /\ UNCHANGED <<obs, clock, starts, state, at, left, robots, links, failed, tries, spent, result>>

\* A refusal, another status, a timeout, or a redirect that leaves the host.
PageError ==
    /\ pc = "page" /\ wire # None /\ wire' = None
    /\ \E code \in {"provider_access_denied", "provider_rate_limited", "http_error"} :
          PageFailed(code)

\* The page is a login or a captcha.
Challenged ==
    /\ pc = "page" /\ wire # None /\ wire' = None
    /\ Official(Failure("challenge"))

\* The site names one recruiting platform or subdomain, or several of them.
ExternalEntry ==
    /\ pc = "page" /\ wire # None /\ page.why = "site" /\ wire' = None
    /\ \E status \in {"accepted", "review_required"} :
          Official(Found(status, "official_navigation", "external"))

\* The site links pages of its own; a subdomain counts as another platform.
ReadSite ==
    /\ pc = "page" /\ wire # None /\ page.why = "site" /\ wire' = None
    /\ \E todo \in SUBSET {url \in Entries : HostOf[url.origin] = Host(at)} :
          links' = [todo |-> todo, tried |-> 0]
    /\ pc' = "links" /\ page' = None
    /\ UNCHANGED <<obs, clock, starts, state, at, left, robots, ask, failed, tries, spent, result>>

AcceptPage ==
    /\ pc = "page" /\ wire # None /\ page.why = "link" /\ wire' = None
    /\ Official(Found("accepted", "official_navigation", "page"))

TryLink ==
    /\ pc = "links" /\ links.tried < MaxPages
    /\ \E url \in links.todo :
          /\ links' = [todo |-> links.todo \ {url}, tried |-> links.tried + 1]
          /\ Wants(url, "link")
    /\ UNCHANGED <<obs, clock, starts, state, at, left, robots, page, failed, tries, spent,
                   result, wire>>

NoLinkLeft ==
    /\ pc = "links" /\ (links.todo = {} \/ links.tried = MaxPages)
    /\ Official(IF failed # None THEN Failure(failed)
                ELSE Found("not_found", "official_navigation", "recruitment_entry_not_found"))
    /\ UNCHANGED wire

------------------------------------------------------------------------------------
(* The fallback: a search whose requests are counted.                              *)

FallbackStopped ==
    /\ pc = "fallback" /\ Budget > 0 /\ state.halted
    /\ Conclude(Found("blocked", Zhihu, "fallback_source_stopped"))
    /\ UNCHANGED wire

NothingToSearch ==
    /\ pc = "fallback" /\ (Budget > 0 => ~state.halted /\ at \notin Sited)
    /\ Conclude(Found("not_found", IF Budget = 0 THEN "fallback_disabled" ELSE Zhihu, "unsearched"))
    /\ UNCHANGED wire

Searches == pc = "fallback" /\ Budget > 0 /\ ~state.halted /\ at \in Sited

\* Mutant: the budget is checked one request late.
FaultyWithinBudget == spent <= Budget

WithinBudget == spent < Budget

Search ==
    /\ Searches /\ wire = None /\ WithinBudget
    /\ spent' = spent + 1 /\ tries' = tries + 1
    /\ Send(Zhihu, "search", None)
    /\ UNCHANGED <<obs, clock, starts, pc, state, at, left, robots, ask, page, links, failed, result>>

Halt(code) ==
    /\ pc' = "record" /\ result' = Found("blocked", Zhihu, code)
    /\ state' = [state EXCEPT !.halted = TRUE] /\ tries' = 0
    /\ UNCHANGED <<obs, clock, starts, at, left, robots, ask, page, links, failed, spent>>

OverBudget ==
    /\ Searches /\ wire = None /\ ~WithinBudget
    /\ Halt("request_budget_exhausted")
    /\ UNCHANGED wire

SearchRefused ==
    /\ Searches /\ wire # None /\ wire' = None
    /\ \/ Halt("provider_auth_failed")
       \/ tries = Attempts /\ Halt("provider_rate_limited")

SearchRetries ==
    /\ Searches /\ wire # None /\ tries < Attempts /\ wire' = None
    /\ UNCHANGED <<obs, clock, starts, pc, memory>>

\* An error that is not retried any more, or the deadline of the search.
SearchFailed ==
    /\ Searches /\ wire # None /\ wire' = None
    /\ Conclude(Found("failed", Zhihu, "fallback_request_failed"))

\* Whatever the search found needs a review.
SearchAnswered ==
    /\ Searches /\ wire # None /\ wire' = None
    /\ \E status \in {"not_found", "review_required"} : Conclude(Found(status, Zhihu, "answered"))

------------------------------------------------------------------------------------
\* record_discovery_result, or transition_retryable_discovery_result in place.
Record ==
    /\ pc = "record"
    /\ clock' = clock + 1
    /\ obs' = [obs EXCEPT ![at] = [status |-> result.status, method |-> result.method,
                                   code |-> result.code, at |-> clock + 1,
                                   first |-> obs[at] = None]]
    /\ pc' = "loop" /\ at' = at + 1 /\ left' = left - 1 /\ result' = None
    /\ UNCHANGED <<starts, state, robots, ask, page, links, failed, tries, spent, wire>>

Step ==
    \/ Finish \/ Skip \/ LeaveAlone \/ TakeEvidenced \/ WithoutSite \/ VisitSite
    \/ AskRobots \/ LearnRobots \/ RobotsRefused \/ Permit \/ Forbid
    \/ AskPage \/ Redirected \/ PageError \/ Challenged \/ ExternalEntry \/ ReadSite
    \/ AcceptPage \/ TryLink \/ NoLinkLeft
    \/ FallbackStopped \/ NothingToSearch \/ Search \/ OverBudget \/ SearchRefused
    \/ SearchRetries \/ SearchFailed \/ SearchAnswered \/ Record

LiveNext == Start \/ Crash \/ Step

LiveSpec == LiveInit /\ [][LiveNext]_liveVars

\* The command goes on while it lives: every wait for an answer has a timeout.
FairSpec == LiveSpec /\ WF_liveVars(Step)

------------------------------------------------------------------------------------
\* Types, and the bounds of the code: the requests of one process to the search, the
\* redirects of a page, the pages of a visit.
LiveTypeOK ==
    /\ \A c \in Observed :
          /\ obs[c].status \in Outcomes
          /\ obs[c].at \in 1..clock
    /\ state.stopped \subseteq Hosts /\ state.limits \in [Hosts -> Nat]
    /\ at \in 0..N + 1 /\ left \in 0..N /\ spent \in 0..Budget /\ tries \in 0..Attempts
    /\ \A o \in Origins : robots[o] \in {None} \cup SUBSET Paths
    /\ links.tried \in 0..MaxPages /\ (page # None => page.hops \in 0..MaxRedirects)

\* Hosts that a recorded result of one of their members says must be left alone.
RecordedStops ==
    {Host(c) : c \in {d \in Observed \cap Sited :
        /\ obs[d].method = "official_navigation"
        /\ obs[d].code \in {"provider_access_denied", "source_access_stopped",
                            "source_rate_limited"}}}

FinalStopOfSearch ==
    \E c \in Observed : StopsFallback(obs[c]) /\ obs[c].code # "provider_rate_limited"

\* A host whose refusal or third rate limit was recorded, and a search that was stopped
\* for good, get no further request, in this process or after any crash and resume.
StopsOutliveTheProcess ==
    [][wire' # None /\ wire' # wire =>
          /\ wire'.to \notin RecordedStops
          /\ wire'.to = Zhihu => ~FinalStopOfSearch]_liveVars

\* Every page that is requested, redirects included, was permitted by the rules of its
\* own origin as the process read them.
RobotsRespected ==
    wire # None /\ wire.kind = "page" => Permitted(wire.url)

\* Between members a host stands in memory as a resume would rebuild it, as long as none
\* of its observations was rewritten in place: a crash there forgets no stop and no count.
RebuildAgrees ==
    pc = "loop" =>
        \A h \in Hosts :
            (\A c \in Observed : Host(c) = h => obs[c].first) =>
                /\ state.limits[h] = Rebuilt.limits[h]
                /\ h \in state.stopped <=> h \in Rebuilt.stopped

\* The same for every host, rewritten or not.
RebuildAlwaysAgrees ==
    pc = "loop" => state.limits = Rebuilt.limits /\ state.stopped = Rebuilt.stopped

\* A command that was started ends: no redirect, link or retry goes on for ever.
CommandsEnd == (pc # "down") ~> (pc = "down")

\* A resume preserves the stop of the search: once a recorded result says it was stopped,
\* no search is sent any more.
SearchStaysStopped ==
    []((\E c \in Observed : StopsFallback(obs[c])) =>
           [](wire # None => wire.kind # "search"))
====================================================================================
