---------------------------- MODULE QueryService ----------------------------
(***************************************************************************)
(* One API process: requests to POST /v1/query that share a pool of        *)
(* database connections, the extractor's semaphore and its readiness flag, *)
(* in front of an upstream that can be up, in an outage or refusing us.    *)
(*                                                                         *)
(* A request embeds the question, takes a connection for its first         *)
(* statement and keeps it until the response, gathers the sources, waits   *)
(* for a slot, calls Claude, resolves the links and responds.  What a      *)
(* request only does to itself is one step, however many awaits it has.    *)
(***************************************************************************)
EXTENDS Extraction, FiniteSets

CONSTANTS
    Requests,     \* request contexts: each serves one request after another
    Oversized,    \* those whose requests Claude refuses whatever its state
    HitLists,     \* what retrieval can come back with
    Replies,      \* replies of the model
    PoolSize,     \* connections of the SQLAlchemy engine
    MaxInFlight,  \* extraction_max_concurrency
    PublicUrls    \* TRUE: R2_PUBLIC_BASE_URL is set

ASSUME RequestsAssumption == IsFiniteSet(Requests) /\ Oversized \subseteq Requests
ASSUME HitListsAssumption == HitLists \subseteq Seq(Hit)
ASSUME RepliesAssumption == Replies \subseteq Reply
ASSUME PoolAssumption == PoolSize \in Nat \ {0} /\ MaxInFlight \in Nat \ {0}
ASSUME PublicUrlsAssumption == PublicUrls \in BOOLEAN

VARIABLES
    upstream,  \* the state Anthropic is in
    ready,     \* ClaudeExtractor._last_upstream_ok, what /readyz answers
    conns,     \* requests that hold a database connection
    slots,     \* requests inside the semaphore
    req        \* req[r]: the request r serves and its last response

vars == <<upstream, ready, conns, slots, req>>

\* An exception nobody maps ends in the framework's 500; it is kept apart here.
Response == [status     : {"none", "200", "404", "500", "502", "503",
                            "IngestionError", "DatabaseError"},
             retryAfter : BOOLEAN,
             paged      : BOOLEAN,             \* captured to Sentry
             abstained  : BOOLEAN,
             cited      : Nat,                 \* the hit source_url links to
             torque     : BOOLEAN,             \* it states a torque
             failure    : Failures             \* why Claude's answer is missing
                            \cup {"malformed", "none"}]

ReqState == [pc         : {"idle", "embed", "connect", "search", "gather",
                           "queue", "call", "links"},
             identified : BOOLEAN,     \* the question names a product
             hits       : Seq(Hit),
             pointed    : Nat,         \* the source the model named, 0 for none
             outcome    : Outcome,
             response   : Response]

Plain(status) == [status |-> status, retryAfter |-> FALSE, paged |-> FALSE,
                  abstained |-> FALSE, cited |-> 0, torque |-> FALSE,
                  failure |-> "none"]

TypeOK ==
    /\ upstream \in {"up", "outage", "refusing"}
    /\ ready \in BOOLEAN
    /\ conns \in SUBSET Requests
    /\ slots \in SUBSET Requests
    /\ req \in [Requests -> ReqState]

Init ==
    /\ upstream = "up"
    /\ ready = TRUE
    /\ conns = {}
    /\ slots = {}
    /\ req = [r \in Requests |-> [pc |-> "idle", identified |-> FALSE,
                                  hits |-> <<>>, pointed |-> 0,
                                  outcome |-> Abstained,
                                  response |-> Plain("none")]]

\* mutant: the session is closed on success only
EndWithoutRollback(r, response) ==
    /\ req' = [req EXCEPT ![r] = [@ EXCEPT !.pc = "idle", !.response = response]]
    /\ conns' = IF response.status = "200" THEN conns \ {r} ELSE conns

\* The response is sent and get_session commits or rolls back: either way the
\* connection goes back to the pool.
End(r, response) ==
    /\ req' = [req EXCEPT ![r] = [@ EXCEPT !.pc = "idle", !.response = response]]
    /\ conns' = conns \ {r}

-----------------------------------------------------------------------------
(* The upstream and the clients.                                           *)

Upstream ==
    /\ upstream' \in {"up", "outage", "refusing"} \ {upstream}
    /\ UNCHANGED <<ready, conns, slots, req>>

Arrive(r) ==
    /\ req[r].pc = "idle"
    /\ \E identified \in BOOLEAN :
         req' = [req EXCEPT ![r] =
                   [pc |-> "embed", identified |-> identified, hits |-> <<>>,
                    pointed |-> 0, outcome |-> Abstained, response |-> Plain("none")]]
    /\ UNCHANGED <<upstream, ready, conns, slots>>

-----------------------------------------------------------------------------
(* Retrieval.                                                              *)

\* embed_query, before the first statement.
Embed(r) ==
    /\ req[r].pc = "embed"
    /\ req' = [req EXCEPT ![r] = [@ EXCEPT !.pc = "connect"]]
    /\ UNCHANGED <<upstream, ready, conns, slots>>

Connect(r) ==
    /\ req[r].pc = "connect"
    /\ Cardinality(conns) < PoolSize
    /\ conns' = conns \cup {r}
    /\ req' = [req EXCEPT ![r] = [@ EXCEPT !.pc = "search"]]
    /\ UNCHANGED <<upstream, ready, slots>>

\* Voyage fails, no connection comes free in time, a statement fails.
RetrievalFails(r) ==
    /\ req[r].pc \in {"embed", "connect", "search"}
    /\ End(r, Plain("503"))
    /\ UNCHANGED <<upstream, ready, slots>>

Search(r) ==
    /\ req[r].pc = "search"
    /\ \E hits \in HitLists :
         IF hits = <<>> THEN End(r, Plain("404"))
         ELSE /\ req' = [req EXCEPT ![r] =
                           [@ EXCEPT !.pc = "gather", !.hits = hits]]
              /\ UNCHANGED conns
    /\ UNCHANGED <<upstream, ready, slots>>

-----------------------------------------------------------------------------
(* The sources: page images from the bucket, module texts from the index.  *)

Pdfs(r) == {k \in 1 .. Len(req[r].hits) : req[r].hits[k].src = "pdf"}
Imageless(r) == {k \in Pdfs(r) : ~req[r].hits[k].image}

Gather(r) ==
    /\ req[r].pc = "gather"
    /\ Imageless(r) = {}
    /\ req' = [req EXCEPT ![r] = [@ EXCEPT !.pc = "queue"]]
    /\ UNCHANGED <<upstream, ready, conns, slots>>

\* A page without an image key: 500.
ImageMissing(r) ==
    /\ req[r].pc = "gather"
    /\ Imageless(r) # {}
    /\ End(r, Plain("500"))
    /\ UNCHANGED <<upstream, ready, slots>>

\* The image cannot be fetched: 502 for an httpx error, but the IngestionError
\* of a URL that cannot be signed is nobody's, as is a database error.
GatherFails(r) ==
    /\ req[r].pc = "gather"
    /\ \E k \in 1 .. Len(req[r].hits) :
         /\ \A j \in Imageless(r) : k < j
         /\ \E status \in IF req[r].hits[k].src = "pdf"
                            THEN {"502", "IngestionError"} ELSE {"DatabaseError"} :
              End(r, Plain(status))
    /\ UNCHANGED <<upstream, ready, slots>>

-----------------------------------------------------------------------------
(* extract.                                                                *)

\* "Claude answered wrong".
MalformedReply == [Plain("502") EXCEPT !.failure = "malformed"]

EnterSlot(r) ==
    /\ req[r].pc = "queue"
    /\ Cardinality(slots) < MaxInFlight
    /\ slots' = slots \cup {r}
    /\ req' = [req EXCEPT ![r] = [@ EXCEPT !.pc = "call"]]
    /\ UNCHANGED <<upstream, ready, conns>>

\* mutant: the flag goes down and stays down
CallSucceedsQuietly(r) ==
    /\ req[r].pc = "call"
    /\ upstream = "up" /\ r \notin Oversized
    /\ slots' = slots \ {r}
    /\ \E reply \in Replies :
         LET outcome == ParseResponse(req[r].identified, req[r].hits, reply) IN
         IF outcome.kind = "error" THEN End(r, MalformedReply)
         ELSE /\ req' = [req EXCEPT ![r] =
                           [@ EXCEPT !.pc = "links", !.pointed = reply.index,
                                     !.outcome = outcome]]
              /\ UNCHANGED conns
    /\ UNCHANGED <<upstream, ready>>

\* Claude answers: the flag goes up before the reply is looked at.
CallSucceeds(r) ==
    /\ req[r].pc = "call"
    /\ upstream = "up" /\ r \notin Oversized
    /\ slots' = slots \ {r}
    /\ ready' = TRUE
    /\ \E reply \in Replies :
         LET outcome == ParseResponse(req[r].identified, req[r].hits, reply) IN
         IF outcome.kind = "error" THEN End(r, MalformedReply)
         ELSE /\ req' = [req EXCEPT ![r] =
                           [@ EXCEPT !.pc = "links", !.pointed = reply.index,
                                     !.outcome = outcome]]
              /\ UNCHANGED conns
    /\ UNCHANGED upstream

\* The errors an upstream in that state answers with.
FailuresOf(r) ==
    CASE upstream = "outage" -> {"429", "529", "conn", "timeout", "500", "503"}
      [] upstream = "refusing" -> {"401", "403", "400credit"}
      [] OTHER -> IF r \in Oversized THEN {"413", "400", "422"} ELSE {}

\* mutant: the upstream's status is passed on
ErrorResponsePassedOn(f) ==
    [Plain(f) EXCEPT !.retryAfter = (Classify(f) = "Unavailable"),
                     !.paged = (Classify(f) = "Unauthorized"), !.failure = f]

\* The route's three except arms.
ErrorResponse(f) ==
    CASE Classify(f) = "Unavailable" ->
           [Plain("503") EXCEPT !.retryAfter = TRUE, !.failure = f]
      [] Classify(f) = "Unauthorized" ->
           [Plain("503") EXCEPT !.paged = TRUE, !.failure = f]
      [] OTHER -> [Plain("502") EXCEPT !.failure = f]

\* mutant: the semaphore is released on success only
CallFailsLeaky(r) ==
    /\ req[r].pc = "call"
    /\ \E f \in FailuresOf(r) : End(r, ErrorResponse(f))
    /\ ready' = FALSE
    /\ UNCHANGED <<upstream, slots>>

\* The call fails, after the retries of the SDK: the flag goes down whatever
\* the error is.
CallFails(r) ==
    /\ req[r].pc = "call"
    /\ \E f \in FailuresOf(r) : End(r, ErrorResponse(f))
    /\ slots' = slots \ {r}
    /\ ready' = FALSE
    /\ UNCHANGED upstream

-----------------------------------------------------------------------------
(* The response.                                                           *)

\* Every candidate's links are resolved, also those of an abstention.
Respond(r) ==
    /\ req[r].pc = "links"
    /\ End(r, [Plain("200") EXCEPT
                 !.abstained = (req[r].outcome.kind = "abstained"),
                 !.cited = req[r].outcome.index,
                 !.torque = req[r].outcome.torque])
    /\ UNCHANGED <<upstream, ready, slots>>

\* A URL that cannot be signed, after the answer was paid for.
LinksFail(r) ==
    /\ req[r].pc = "links"
    /\ ~PublicUrls /\ Pdfs(r) # {}
    /\ End(r, Plain("IngestionError"))
    /\ UNCHANGED <<upstream, ready, slots>>

-----------------------------------------------------------------------------
Step(r) == \/ Embed(r) \/ Connect(r) \/ Search(r)
           \/ Gather(r) \/ ImageMissing(r)
           \/ EnterSlot(r) \/ CallSucceeds(r) \/ CallFails(r) \/ Respond(r)

Fault(r) == RetrievalFails(r) \/ GatherFails(r) \/ LinksFail(r)

Next == \/ Upstream
        \/ \E r \in Requests : Arrive(r) \/ Step(r) \/ Fault(r)

Spec == Init /\ [][Next]_vars

\* Every await ends (httpx and the SDK have timeouts), asyncio.Semaphore is
\* first come first served, and so is the pool.
Fairness == \A r \in Requests : SF_vars(Step(r))
FairSpec == Spec /\ Fairness

\* A question that finds sources, all of which can be shown.
SearchFinds(r) ==
    Search(r) /\ req'[r].pc = "gather" /\ Imageless(r)' = {}

\* Clients whose requests Claude takes keep asking, /readyz or not, and not
\* every request of theirs runs into a fault that is none of Anthropic's.
BusySpec ==
    /\ FairSpec
    /\ \A r \in Requests \ Oversized :
         /\ WF_vars(Arrive(r))
         /\ SF_vars(Embed(r)) /\ SF_vars(Connect(r)) /\ SF_vars(SearchFinds(r))
         /\ SF_vars(Gather(r)) /\ SF_vars(EnterSlot(r))

-----------------------------------------------------------------------------
(* Properties.                                                             *)

\* A response links to a source only if the model pointed at it, it is one of
\* the hits and, when the question names a product, some hit is about that
\* product; a torque is stated only together with such a source, whatever the
\* model made up (_parse_response, _abstain and the route).
CitationIsHonest ==
    \A r \in Requests :
      LET resp == req[r].response IN
      /\ resp.status = "200" /\ ~resp.abstained =>
           /\ resp.cited = req[r].pointed
           /\ resp.cited \in 1 .. Len(req[r].hits)
           /\ req[r].identified => \E k \in 1 .. Len(req[r].hits) : req[r].hits[k].match
      /\ resp.status # "200" \/ resp.abstained => resp.cited = 0 /\ ~resp.torque

\* The contract of the README: what may pass is 503 with Retry-After, what an
\* operator has to fix is 503 and pages on-call, any other reason why there is
\* no answer of Claude's (a reply that cannot be parsed, a request it finds
\* malformed) is 502 with neither, and no other response has either.
Transient == {"429", "529", "conn", "timeout", "500", "503"}
OperatorFault == {"400credit", "401", "403", "413"}
AsPromised(resp) ==
    CASE resp.failure \in Transient ->
           resp.status = "503" /\ resp.retryAfter /\ ~resp.paged
      [] resp.failure \in OperatorFault ->
           resp.status = "503" /\ ~resp.retryAfter /\ resp.paged
      [] resp.failure = "none" -> ~resp.retryAfter /\ ~resp.paged
      [] OTHER -> resp.status = "502" /\ ~resp.retryAfter /\ ~resp.paged
FailuresAreToldApart == \A r \in Requests : AsPromised(req[r].response)

\* Connections and slots are held by requests at work, by no more than there
\* are, and a request that waits for a slot already has its connection, so
\* the two cannot be waited for in a circle.
NothingLeaks ==
    /\ conns = {r \in Requests :
                  req[r].pc \in {"search", "gather", "queue", "call", "links"}}
    /\ slots = {r \in Requests : req[r].pc = "call"}
    /\ Cardinality(conns) <= PoolSize
    /\ Cardinality(slots) <= MaxInFlight

\* Every request is answered: none is at work for ever.
RequestsEnd == \A r \in Requests : []<>(req[r].pc = "idle")

\* "A transient/auth outage flips this False; the next success flips it back":
\* once the upstream stays up, /readyz does not stay down.
ReadyAgain == <>[](upstream = "up") => []<>ready
=============================================================================
