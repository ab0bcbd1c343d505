-------------------------------- MODULE GitHub --------------------------------
(***************************************************************************)
(* What Fuzit fetches from GitHub: the bounded transport and pagination of *)
(* packages/provider-github/src, and the commands that use them            *)
(* (review, pr, issue and auth of apps/cli, with the runners of core).     *)
(*                                                                         *)
(* A job is one command.  Its requests are in slots: review asks for the   *)
(* pull request and then for its files, pack does so too but can do        *)
(* without the first answer, view asks for the former only, issue asks for *)
(* the issue and its comments at once, pages walks a collection.  The      *)
(* servers and the network answer anything, late, or never; what follows   *)
(* an await runs in the step that settles the request.                     *)
(***************************************************************************)
EXTENDS Naturals, Sequences

CONSTANTS
  Sources,    \* the source arguments that are given
  Responses,  \* what a server may answer
  LastPage,   \* the last page of the collection
  MaxHops     \* bound: how often a server redirects

\* A collection has a page, if an empty one.
ASSUME GitHubAssumption == LastPage \in Nat \ {0} /\ MaxHops \in Nat

Slots == {1, 2}
Jobs == {"review", "view", "pack", "issue", "pages", "resolve", "auth"}

VARIABLES
  job,         \* the job and how it stands, as [kind, state, options, limit]
  credential,  \* the source of the credential
  phase,       \* each request: "idle", "waiting" (for headers), "body" or "settled"
  response,    \* the headers of the response a request reads
  outcome,     \* what each request resolved to
  hops,        \* redirects so far
  aborted,     \* the cancellation signal is aborted
  aborting,    \* the requests that were in flight when it was
  pages,       \* the pages whose items were collected
  partial      \* partialReason, or "none"

githubVars == <<job, credential, phase, response, outcome, hops, aborted, aborting,
                pages, partial>>

NoResponse == [status |-> 0, location |-> "none", exhausted |-> FALSE, fits |-> TRUE,
               body |-> "none"]
Failed(kind) == [kind |-> kind, status |-> 0, body |-> "none"]

GitHubTypeOK ==
  /\ job.kind \in Jobs \cup {"none"} /\ job.state \in {"none", "running", "done", "failed"}
  /\ phase \in [Slots -> {"idle", "waiting", "body", "settled"}]
  /\ \A q \in Slots : response[q] \in Responses \cup {NoResponse}
  /\ hops \in 0..MaxHops /\ aborted \in BOOLEAN /\ aborting \subseteq Slots
  /\ pages \in Seq(1..LastPage)

GitHubInit ==
  /\ job = [kind |-> "none", state |-> "none", options |-> "valid", limit |-> 1]
  /\ credential = "anonymous"
  /\ phase = [q \in Slots |-> "idle"] /\ response = [q \in Slots |-> NoResponse]
  /\ outcome = [q \in Slots |-> Failed("none")]
  /\ hops = 0 /\ aborted = FALSE /\ aborting = {} /\ pages = <<>> /\ partial = "none"

-----------------------------------------------------------------------------
(* Source arguments (source-parser.ts).  A source is its form and its flaws: *)
(* a scheme other than https, credentials, an address for a host, a          *)
(* fragment, a bad owner or name, a bad number.                              *)

\* A URL names a repository, with or without a revision, a pull request or an
\* issue; a flawed one is rejected, a bad number only where there is one.
ParseGitHubUrl(s) ==
  IF s.flaws \ {"number"} # {} THEN "rejected"
  ELSE CASE s.form \in {"repositoryUrl", "treeUrl"} -> "repository"
         [] s.form = "pullUrl" /\ s.flaws = {} -> "pull-request"
         [] s.form = "issueUrl" /\ s.flaws = {} -> "issue"
         [] OTHER -> "rejected"

\* OWNER/REPO#N is what the command takes it for.
ParseOwnerRepoHash(s, kind) == IF s.flaws = {} THEN kind ELSE "rejected"

\* A bare number needs --repo or a clone whose origin can be inferred.
ParseNumber(s, kind) ==
  IF s.flaws = {} /\ (s.repository \/ s.origin) THEN kind ELSE "rejected"

\* What a command makes of its argument; review takes no bare number.
ParseSource(s, kind) ==
  CASE s.form \in {"repositoryUrl", "treeUrl", "pullUrl", "issueUrl", "otherUrl"} ->
         ParseGitHubUrl(s)
    [] s.form = "hash" -> ParseOwnerRepoHash(s, kind)
    [] s.form = "number" -> ParseNumber(s, kind)
    [] OTHER -> "rejected"

\* resolveCredential, with the GitHub CLI as the last resort of most commands.
BestCredential(environment, askCli) ==
  CASE "FUZIT_GITHUB_TOKEN" \in environment -> "FUZIT_GITHUB_TOKEN"
    [] "FUZIT_GITHUB_TOKEN" \notin environment /\ "GH_TOKEN" \in environment -> "GH_TOKEN"
    [] OTHER -> IF askCli /\ "github-cli" \in environment THEN "github-cli" ELSE "anonymous"

-----------------------------------------------------------------------------
(* githubRequest.                                                           *)

\* What the headers of a response decide.
Classified(r) ==
  CASE r.status \in 300..399 -> IF r.location = "allowed" THEN "follow" ELSE "untrusted-redirect"
    [] r.status = 429 \/ (r.status = 403 /\ r.exhausted) -> "rate-limited"
    [] r.status >= 500 -> "server-error"
    [] OTHER -> "body"

Passed(o) == o.kind = "ok" /\ o.status = 200

\* runPrReview: both requests must pass, one after the other.
ReviewState(out) ==
  IF ~Passed(out[1]) THEN "failed"
  ELSE IF phase[2] = "idle" THEN "running"
  ELSE IF Passed(out[2]) /\ out[1].body # "garbage" /\ out[2].body = "array" THEN "done"
  ELSE "failed"

\* acquirePrItems: the details may be missing, the files may not.
PackState(out) ==
  IF phase[2] = "idle" THEN "running"
  ELSE IF Passed(out[2]) /\ out[2].body = "array" THEN "done" ELSE "failed"

\* (mutant: the comments are not waited for)
IssueStateEarly(out, settled) ==
  IF \E q \in Slots : out[q].kind = "thrown" THEN "failed"
  ELSE IF 1 \notin settled THEN "running"
  ELSE IF Passed(out[1]) /\ out[1].body # "garbage" THEN "done" ELSE "failed"

\* runIssueContext: Promise.all rejects with the first request that rejects and
\* otherwise waits for both.
IssueState(out, settled) ==
  IF \E q \in Slots : out[q].kind = "thrown" THEN "failed"
  ELSE IF settled # Slots THEN "running"
  ELSE IF Passed(out[1]) /\ Passed(out[2]) /\ out[1].body # "garbage" /\ out[2].body = "array"
  THEN "done" ELSE "failed"

\* resolveRepository, and the view of a pull request.
SingleState(out) == IF Passed(out[1]) /\ out[1].body # "garbage" THEN "done" ELSE "failed"

\* The account lookup of auth, which succeeds whatever the answer says.
AuthState(out) == IF out[1].kind = "thrown" THEN "failed" ELSE "done"

\* The budget, the format and the output file are looked at when all is fetched.
Finished(state) == IF state = "done" /\ job.options = "rejectedLate" THEN "failed" ELSE state

\* One turn of fetchAllPages: why it stops, if it does.
PageStops(o, page) ==
  IF o.kind # "ok" THEN o.kind
  ELSE IF o.body # "array" THEN "parse failed"
  ELSE IF page < LastPage /\ page = job.limit THEN "page ceiling" ELSE "none"

\* Request q resolves to o and the job goes on.
Resolve(q, o) ==
  LET out == [outcome EXCEPT ![q] = o]
      settled == {p \in Slots : phase[p] = "settled"} \cup {q}
      page == Len(pages) + 1
      state == IF job.state # "running" THEN job.state
               ELSE CASE job.kind = "review" -> Finished(ReviewState(out))
                      [] job.kind = "pack"   -> PackState(out)
                      [] job.kind = "auth"   -> AuthState(out)
                      [] job.kind = "issue"  -> Finished(IssueState(out, settled))
                      [] job.kind = "pages"  -> IF o.kind = "thrown" THEN "failed"
                                                ELSE IF PageStops(o, page) = "none" /\ page < LastPage
                                                THEN "running" ELSE "done"
                      [] OTHER               -> SingleState(out)
      again == IF state # "running" THEN 0
               ELSE CASE job.kind \in {"review", "pack"} -> 2 [] job.kind = "pages" -> 1 [] OTHER -> 0
  IN  /\ outcome' = out
      /\ phase' = [p \in Slots |-> IF p = again THEN "waiting" ELSE IF p = q THEN "settled"
                                   ELSE phase[p]]
      /\ job' = [job EXCEPT !.state = state]
      /\ IF job.kind = "pages" /\ o.kind # "thrown"
         THEN /\ partial' = PageStops(o, page)
              /\ pages' = IF o.kind = "ok" /\ o.body = "array" THEN Append(pages, page) ELSE pages
         ELSE UNCHANGED <<partial, pages>>
      /\ response' = [response EXCEPT ![q] = NoResponse]
      /\ aborting' = aborting \ {q}
      /\ UNCHANGED <<credential, aborted>>

\* The headers arrive.  A redirect to an allowed host is followed by a request
\* of its own with a timer of its own; the allowance that is handed on is never
\* looked at.
Respond(q, r) ==
  /\ phase[q] = "waiting"
  /\ CASE Classified(r) = "follow" ->
            /\ hops < MaxHops /\ hops' = hops + 1
            /\ aborting' = aborting \ {q}
            /\ UNCHANGED <<job, credential, phase, response, outcome, aborted, pages, partial>>
       [] Classified(r) = "body" ->
            /\ phase' = [phase EXCEPT ![q] = "body"]
            /\ response' = [response EXCEPT ![q] = r]
            /\ UNCHANGED <<job, credential, outcome, hops, aborted, aborting, pages, partial>>
       [] OTHER ->
            Resolve(q, [Failed(Classified(r)) EXCEPT !.status = r.status]) /\ UNCHANGED hops

\* readBoundedBody comes to its end or to the limit.
BodyEnds(q) ==
  /\ phase[q] = "body"
  /\ Resolve(q, IF response[q].fits
                THEN [kind |-> "ok", status |-> response[q].status, body |-> response[q].body]
                ELSE Failed("oversized"))
  /\ UNCHANGED hops

\* The request is torn down: before the headers that is a result, while the
\* body is read it is thrown out of githubRequest.
TornDown(q, kind) ==
  /\ phase[q] \in {"waiting", "body"}
  /\ Resolve(q, Failed(IF phase[q] = "waiting" THEN kind ELSE "thrown"))
  /\ UNCHANGED hops

\* (mutant: the timer is cleared when the headers arrive)
TimeoutOfHeaders(q) == phase[q] = "waiting" /\ TornDown(q, "timeout")

TimeoutFires(q) == TornDown(q, "timeout")
NetworkFails(q) == TornDown(q, "network-error")

\* The abort event reaches the requests in flight, one after the other; a
\* request that starts after it has no event to listen for.
CancelJob ==
  /\ ~aborted
  /\ aborted' = TRUE
  /\ aborting' = {q \in Slots : phase[q] \in {"waiting", "body"}}
  /\ UNCHANGED <<job, credential, phase, response, outcome, hops, pages, partial>>

CancelReaches(q) == q \in aborting /\ TornDown(q, "cancelled")

\* Profile and source are checked first; only review takes a bare number, and
\* the other two have no profile.
AcceptsPullRequest(kind, s, options) ==
  /\ ParseSource(s, "pull-request") = "pull-request"
  /\ IF kind = "review" THEN options # "rejectedEarly" ELSE s.form # "number"

AcceptsIssue(s, options) == options # "rejectedEarly" /\ ParseSource(s, "issue") = "issue"

Accepts(kind, s, options) ==
  CASE kind \in {"review", "view", "pack"} -> AcceptsPullRequest(kind, s, options)
    [] kind = "issue"   -> AcceptsIssue(s, options)
    [] kind = "resolve" -> ParseGitHubUrl(s) = "repository"
    [] OTHER            -> TRUE

StartJob(kind, s, environment, options, limit) ==
  LET accepted == Accepts(kind, s, options)
      known == BestCredential(environment, kind # "issue")
      asks == accepted /\ ~(kind = "auth" /\ known = "anonymous")
  IN  /\ job.kind = "none"
      /\ credential' = known
      /\ job' = [kind |-> kind, options |-> options, limit |-> limit,
                 state |-> IF asks THEN "running" ELSE IF accepted THEN "done" ELSE "failed"]
      /\ phase' = [q \in Slots |-> IF asks /\ (q = 1 \/ kind = "issue") THEN "waiting" ELSE "idle"]
      /\ UNCHANGED <<response, outcome, hops, aborted, aborting, pages, partial>>

GitHubNext ==
  \/ \E kind \in Jobs, s \in Sources, limit \in 1..(LastPage + 1),
        environment \in SUBSET {"FUZIT_GITHUB_TOKEN", "GH_TOKEN", "github-cli"},
        options \in {"valid", "rejectedEarly", "rejectedLate"} :
       StartJob(kind, s, environment, options, limit)
  \/ \E q \in Slots : \/ \E r \in Responses : Respond(q, r)
                      \/ BodyEnds(q) \/ TimeoutFires(q) \/ NetworkFails(q) \/ CancelReaches(q)
  \/ CancelJob

\* The timer of a request runs until it is settled, headers or body.
GitHubFairness == \A q \in Slots : WF_githubVars(TimeoutFires(q))

GitHubSpec == GitHubInit /\ [][GitHubNext]_githubVars /\ GitHubFairness

-----------------------------------------------------------------------------
(* Properties.                                                              *)

\* isComplete of fetchAllPages.
Complete == job.kind = "pages" /\ job.state = "done" /\ partial = "none"

\* A job that reports success rests on whole answers: review and issue on two
\* requests that both ended with status 200, although the two of issue end in
\* any order and one may fail after the other, pack on the list of files; a collection that is reported
\* complete has every page once and in order, one that is not has a reason and
\* the pages before it (fetchAllPages, runPrReview, runIssueContext).
ResultsAreWhole ==
  /\ job.state = "done" /\ job.kind \in {"review", "issue"} =>
       \A q \in Slots : phase[q] = "settled" /\ Passed(outcome[q])
  /\ job.state = "done" /\ job.kind = "pack" => phase[2] = "settled" /\ Passed(outcome[2])
  /\ pages = [i \in 1..Len(pages) |-> i]
  /\ Complete => Len(pages) = LastPage
  /\ job.kind = "pages" /\ job.state = "done" /\ Len(pages) < LastPage => partial # "none"

\* Whatever the servers do, a command comes to an end, except through endless
\* redirects, which nothing limits: MaxHops does (the timer of githubRequest,
\* which covers the body as well).
JobsSettle == job.state = "running" ~> job.state \in {"done", "failed"}

=============================================================================
