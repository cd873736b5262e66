------------------------- MODULE QueryServiceProofs -------------------------
(***************************************************************************)
(* What holds of every API process, however many requests it serves, and   *)
(* whatever retrieval finds, Claude replies and the upstream does.         *)
(*                                                                         *)
(* All properties but NothingLeaks are about one request; what carries     *)
(* them from the reply to the response is RequestInv: a request at work    *)
(* has no response yet, and one that is about to respond has an outcome    *)
(* that _parse_response made of its own hits.                              *)
(***************************************************************************)
EXTENDS QueryService, FiniteSetTheorems, TLAPS

HonestAnswer(q) ==
    LET resp == q.response IN
    /\ resp.status = "200" /\ ~resp.abstained =>
         /\ resp.cited = q.pointed
         /\ resp.cited \in 1 .. Len(q.hits)
         /\ q.identified => \E k \in 1 .. Len(q.hits) : q.hits[k].match
    /\ resp.status # "200" \/ resp.abstained => resp.cited = 0 /\ ~resp.torque

ToldApart(q) == AsPromised(q.response)

\* What _parse_response has made of a reply before the links are resolved.
ParsedWell(q) ==
    /\ q.outcome.kind \in {"answer", "abstained"}
    /\ q.outcome.kind = "abstained" => q.outcome.index = 0 /\ ~q.outcome.torque
    /\ q.outcome.kind = "answer" =>
         /\ q.outcome.index = q.pointed
         /\ q.pointed \in 1 .. Len(q.hits)
         /\ q.identified => \E k \in 1 .. Len(q.hits) : q.hits[k].match

RequestInv(q) ==
    /\ HonestAnswer(q)
    /\ ToldApart(q)
    /\ q.pc # "idle" => q.response = Plain("none")
    /\ q.pc = "links" => ParsedWell(q)

QueryInv ==
    /\ TypeOK
    /\ NothingLeaks
    /\ \A r \in Requests : RequestInv(req[r])

HoldsConnection == {"search", "gather", "queue", "call", "links"}

-----------------------------------------------------------------------------
(* The operators.                                                          *)

\* A response of the given status, with nothing else to it.
LEMMA PlainIsPlain ==
    ASSUME NEW status \in {"none", "200", "404", "500", "502", "503",
                           "IngestionError", "DatabaseError"}
    PROVE  /\ Plain(status) \in Response
           /\ Plain(status) = [status |-> status, retryAfter |-> FALSE,
                               paged |-> FALSE, abstained |-> FALSE,
                               cited |-> 0, torque |-> FALSE,
                               failure |-> "none"]
BY DEF Plain, Response

LEMMA MalformedIs502 ==
    /\ MalformedReply \in Response
    /\ MalformedReply.status = "502" /\ MalformedReply.failure = "malformed"
    /\ MalformedReply.cited = 0 /\ MalformedReply.torque = FALSE
    /\ MalformedReply.retryAfter = FALSE /\ MalformedReply.paged = FALSE
<1> DEFINE plain == [status |-> "502", retryAfter |-> FALSE, paged |-> FALSE,
                     abstained |-> FALSE, cited |-> 0, torque |-> FALSE,
                     failure |-> "none"]
<1>1. Plain("502") = plain
  BY DEF Plain
<1>2. plain \in Response
  BY DEF Response
<1>3. [plain EXCEPT !.failure = "malformed"] \in Response
  BY <1>2 DEF Response
<1>4. MalformedReply = [plain EXCEPT !.failure = "malformed"]
  BY <1>1, Zenon DEF MalformedReply
<1>5. /\ [plain EXCEPT !.failure = "malformed"].status = "502"
      /\ [plain EXCEPT !.failure = "malformed"].failure = "malformed"
      /\ [plain EXCEPT !.failure = "malformed"].cited = 0
      /\ [plain EXCEPT !.failure = "malformed"].torque = FALSE
      /\ [plain EXCEPT !.failure = "malformed"].retryAfter = FALSE
      /\ [plain EXCEPT !.failure = "malformed"].paged = FALSE
  OBVIOUS
<1> HIDE DEF plain
<1> QED BY <1>3, <1>4, <1>5

\* No other response has the header or pages.
LEMMA PlainIsAsPromised ==
    ASSUME NEW resp, resp.failure = "none", resp.retryAfter = FALSE,
           resp.paged = FALSE
    PROVE  AsPromised(resp)
BY DEF AsPromised, Transient, OperatorFault

\* Every failure is classified, and as the README's contract has it.
LEMMA ClassifiedAsPromised ==
    ASSUME NEW f \in Failures
    PROVE  /\ Classify(f) = "Unavailable" <=> f \in Transient
           /\ Classify(f) = "Unauthorized" <=> f \in OperatorFault
<1>1. CASE f \in {"429", "529", "conn", "timeout"}
  BY <1>1 DEF Classify, IsA, Classes, Transient, OperatorFault
<1>2. CASE f \in {"401", "403", "413"}
  BY <1>2 DEF Classify, IsA, Classes, Transient, OperatorFault
<1>3. CASE f \in {"400credit", "400"}
  BY <1>3 DEF Classify, IsA, Classes, Transient, OperatorFault
<1>4. CASE f \in {"500", "503"}
  BY <1>4 DEF Classify, IsA, Classes, Transient, OperatorFault
<1>5. CASE f \in {"404", "422"}
  BY <1>5 DEF Classify, IsA, Classes, Transient, OperatorFault
<1> QED BY <1>1, <1>2, <1>3, <1>4, <1>5 DEF Failures

\* What the route answers to a failure tells it apart.
LEMMA ErrorResponseTells ==
    ASSUME NEW f \in Failures
    PROVE  /\ ErrorResponse(f) \in Response
           /\ ErrorResponse(f).status # "200"
           /\ ErrorResponse(f).cited = 0 /\ ErrorResponse(f).torque = FALSE
           /\ AsPromised(ErrorResponse(f))
<1> DEFINE R(status, retry, paged) ==
      [status |-> status, retryAfter |-> retry, paged |-> paged,
       abstained |-> FALSE, cited |-> 0, torque |-> FALSE, failure |-> f]
<1>1. CASE Classify(f) = "Unavailable"
  <2>1. ErrorResponse(f) = R("503", TRUE, FALSE)
    BY <1>1 DEF ErrorResponse, Plain
  <2>2. f \in Transient /\ f \notin OperatorFault /\ f # "none"
    BY <1>1, ClassifiedAsPromised DEF Failures
  <2> QED BY <2>1, <2>2 DEF Response, AsPromised
<1>2. CASE Classify(f) = "Unauthorized"
  <2>1. ErrorResponse(f) = R("503", FALSE, TRUE)
    BY <1>2 DEF ErrorResponse, Plain
  <2>2. f \notin Transient /\ f \in OperatorFault /\ f # "none"
    BY <1>2, ClassifiedAsPromised DEF Failures
  <2> QED BY <2>1, <2>2 DEF Response, AsPromised
<1>3. CASE Classify(f) \notin {"Unavailable", "Unauthorized"}
  <2>1. ErrorResponse(f) = R("502", FALSE, FALSE)
    BY <1>3 DEF ErrorResponse, Plain
  <2>2. f \notin Transient /\ f \notin OperatorFault /\ f # "none"
    BY <1>3, ClassifiedAsPromised DEF Failures
  <2> QED BY <2>1, <2>2 DEF Response, AsPromised
<1> QED BY <1>1, <1>2, <1>3

\* An upstream in whatever state fails in one of the ways that are classified.
LEMMA FailuresAreKnown ==
    ASSUME NEW r \in Requests
    PROVE  FailuresOf(r) \subseteq Failures
BY DEF FailuresOf, Failures

\* An answer is about a source the reply points at, and if a product is named,
\* some hit is about it.
LEMMA ParsedIsWell ==
    ASSUME NEW identified \in BOOLEAN, NEW hits \in Seq(Hit), NEW reply \in Reply,
           NEW outcome, outcome = ParseResponse(identified, hits, reply)
    PROVE  /\ outcome \in Outcome
           /\ outcome.kind = "abstained" => outcome.index = 0 /\ ~outcome.torque
           /\ outcome.kind = "answer" =>
                /\ outcome.index = reply.index
                /\ reply.index \in 1 .. Len(hits)
                /\ identified => \E k \in 1 .. Len(hits) : hits[k].match
<1>1. reply.index \in Nat /\ reply.torque \in BOOLEAN
  BY DEF Reply
<1>2. CASE OutOfCorpus(identified, hits)
  <2>1. outcome = Abstained
    BY <1>2 DEF ParseResponse
  <2> QED BY <2>1 DEF Abstained, Outcome
<1>3. CASE ~OutOfCorpus(identified, hits) /\ reply.form = "json" /\ reply.index = 0
  <2>1. outcome = Abstained
    BY <1>3 DEF ParseResponse
  <2> QED BY <2>1 DEF Abstained, Outcome
<1>4. CASE /\ ~OutOfCorpus(identified, hits) /\ reply.form = "json" /\ reply.valid
           /\ reply.index \in 1 .. Len(hits)
  <2>1. outcome = [kind |-> "answer", index |-> reply.index, torque |-> reply.torque]
    BY <1>1, <1>4 DEF ParseResponse
  <2> QED BY <1>1, <1>4, <2>1 DEF Outcome, OutOfCorpus
<1>5. CASE /\ ~OutOfCorpus(identified, hits)
           /\ ~(reply.form = "json" /\ reply.index = 0)
           /\ ~(/\ reply.form = "json" /\ reply.valid
                /\ reply.index \in 1 .. Len(hits))
  <2>1. outcome = Malformed
    BY <1>5 DEF ParseResponse
  <2> QED BY <2>1 DEF Malformed, Outcome
<1> QED BY <1>2, <1>3, <1>4, <1>5

-----------------------------------------------------------------------------
(* The steps.                                                              *)

\* Sets of requests are finite, and no larger without one of them.
LEMMA Counting ==
    ASSUME NEW S \in SUBSET Requests, NEW r \in Requests, NEW n \in Nat
    PROVE  /\ Cardinality(S) <= n => Cardinality(S \ {r}) <= n
           /\ Cardinality(S) < n => Cardinality(S \cup {r}) <= n
<1>1. IsFiniteSet(S)
  BY RequestsAssumption, FS_Subset
<1>2. Cardinality(S) \in Nat
  BY <1>1, FS_CardinalityType
<1>3. Cardinality(S \ {r}) = IF r \in S THEN Cardinality(S) - 1 ELSE Cardinality(S)
  BY <1>1, FS_RemoveElement
<1>4. Cardinality(S \cup {r}) = IF r \in S THEN Cardinality(S) ELSE Cardinality(S) + 1
  BY <1>1, FS_AddElement
<1> QED BY <1>2, <1>3, <1>4

\* A step of one request: it holds a connection and a slot where it should, and
\* it takes either only if one is free.
LEMMA OneRequestMoves ==
    ASSUME QueryInv, NEW r \in Requests, NEW q \in ReqState, RequestInv(q),
           req' = [req EXCEPT ![r] = q],
           conns' = IF q.pc \in HoldsConnection THEN conns \cup {r}
                    ELSE conns \ {r},
           slots' = IF q.pc = "call" THEN slots \cup {r} ELSE slots \ {r},
           q.pc \in HoldsConnection =>
             r \in conns \/ Cardinality(conns) < PoolSize,
           q.pc = "call" => r \in slots \/ Cardinality(slots) < MaxInFlight,
           upstream' \in {"up", "outage", "refusing"}, ready' \in BOOLEAN
    PROVE  QueryInv'
<1>1. req \in [Requests -> ReqState] /\ conns \in SUBSET Requests
        /\ slots \in SUBSET Requests
  BY DEF QueryInv, TypeOK
<1>2. \A s \in Requests : req'[s] = IF s = r THEN q ELSE req[s]
  BY <1>1
<1>3. TypeOK'
  BY <1>1 DEF TypeOK
<1>4. \A s \in Requests : RequestInv(req'[s])
  BY <1>2 DEF QueryInv
<1>5. conns' = {s \in Requests : req'[s].pc \in HoldsConnection}
  <2>1. conns = {s \in Requests : req[s].pc \in HoldsConnection}
    BY DEF QueryInv, NothingLeaks, HoldsConnection
  <2> QED BY <1>2, <2>1
<1>6. slots' = {s \in Requests : req'[s].pc = "call"}
  <2>1. slots = {s \in Requests : req[s].pc = "call"}
    BY DEF QueryInv, NothingLeaks
  <2> QED BY <1>2, <2>1
<1>7. Cardinality(conns') <= PoolSize
  <2>1. Cardinality(conns) <= PoolSize /\ PoolSize \in Nat
    BY PoolAssumption DEF QueryInv, NothingLeaks
  <2>2. CASE r \in conns /\ q.pc \in HoldsConnection
    <3>1. conns' = conns
      BY <2>2
    <3> QED BY <2>1, <3>1
  <2> QED BY <1>1, <2>1, <2>2, Counting
<1>8. Cardinality(slots') <= MaxInFlight
  <2>1. Cardinality(slots) <= MaxInFlight /\ MaxInFlight \in Nat
    BY PoolAssumption DEF QueryInv, NothingLeaks
  <2>2. CASE r \in slots /\ q.pc = "call"
    <3>1. slots' = slots
      BY <2>2
    <3> QED BY <2>1, <3>1
  <2> QED BY <1>1, <2>1, <2>2, Counting
<1>9. NothingLeaks'
  BY <1>5, <1>6, <1>7, <1>8 DEF NothingLeaks, HoldsConnection
<1>10. (\A s \in Requests : RequestInv(req[s]))'
  <2>1. \A s \in Requests : RequestInv(req[s])' <=> RequestInv(req'[s])
    BY DEF RequestInv, HonestAnswer, ToldApart, ParsedWell, Plain
  <2> QED BY <1>4, <2>1
<1> QED BY <1>3, <1>9, <1>10 DEF QueryInv

\* What the invariant says of one request.
LEMMA RequestFacts ==
    ASSUME QueryInv, NEW r \in Requests
    PROVE  /\ req[r] \in ReqState
           /\ RequestInv(req[r])
           /\ r \in conns <=> req[r].pc \in HoldsConnection
           /\ r \in slots <=> req[r].pc = "call"
           /\ upstream \in {"up", "outage", "refusing"} /\ ready \in BOOLEAN
           /\ conns \subseteq Requests /\ slots \subseteq Requests
BY DEF QueryInv, TypeOK, NothingLeaks, HoldsConnection

\* A request goes on to its next await and changes nothing but that.
LEMMA RequestGoesOn ==
    ASSUME QueryInv, NEW r \in Requests,
           NEW pc \in {"connect", "search", "queue", "call"},
           req[r].pc # "idle",
           req' = [req EXCEPT ![r] = [req[r] EXCEPT !.pc = pc]],
           conns' = IF pc \in HoldsConnection THEN conns \cup {r}
                    ELSE conns \ {r},
           slots' = IF pc = "call" THEN slots \cup {r} ELSE slots \ {r},
           pc \in HoldsConnection =>
             r \in conns \/ Cardinality(conns) < PoolSize,
           pc = "call" => r \in slots \/ Cardinality(slots) < MaxInFlight,
           UNCHANGED <<upstream, ready>>
    PROVE  QueryInv'
<1> DEFINE q == [req[r] EXCEPT !.pc = pc]
<1>1. req[r] \in ReqState /\ RequestInv(req[r])
      /\ upstream \in {"up", "outage", "refusing"} /\ ready \in BOOLEAN
  BY RequestFacts
<1>2. q \in ReqState
  BY <1>1 DEF ReqState
<1>3. /\ q.pc = pc /\ q.response = req[r].response /\ q.hits = req[r].hits
      /\ q.pointed = req[r].pointed /\ q.identified = req[r].identified
  BY <1>1 DEF ReqState
<1>4. RequestInv(q)
  BY <1>1, <1>3 DEF RequestInv, HonestAnswer, ToldApart
<1> HIDE DEF q
<1> QED BY <1>1, <1>2, <1>3, <1>4, OneRequestMoves DEF q

\* A request ends with a response that is honest about its hits.
LEMMA RequestEnds ==
    ASSUME QueryInv, NEW r \in Requests, NEW response \in Response,
           End(r, response), slots' = slots \ {r},
           upstream' \in {"up", "outage", "refusing"}, ready' \in BOOLEAN,
           HonestAnswer([req[r] EXCEPT !.pc = "idle", !.response = response]),
           AsPromised(response)
    PROVE  QueryInv'
<1> DEFINE q == [req[r] EXCEPT !.pc = "idle", !.response = response]
<1>1. req[r] \in ReqState
  BY RequestFacts
<1>2. q \in ReqState
  BY <1>1 DEF ReqState
<1>3. q.pc = "idle" /\ q.response = response
  BY <1>1 DEF ReqState
<1>4. RequestInv(q)
  BY <1>3 DEF RequestInv, ToldApart
<1>5. req' = [req EXCEPT ![r] = q] /\ conns' = conns \ {r}
  BY DEF End, QueryInv, TypeOK
<1> HIDE DEF q
<1> QED BY <1>2, <1>3, <1>4, <1>5, OneRequestMoves DEF HoldsConnection

\* One that cites nothing is.
LEMMA RequestEndsPlainly ==
    ASSUME QueryInv, NEW r \in Requests,
           NEW status \in {"404", "500", "502", "503", "IngestionError",
                           "DatabaseError"},
           End(r, Plain(status)), slots' = slots \ {r},
           upstream' \in {"up", "outage", "refusing"}, ready' \in BOOLEAN
    PROVE  QueryInv'
<1> DEFINE q == [req[r] EXCEPT !.pc = "idle", !.response = Plain(status)]
<1>1. req[r] \in ReqState
  BY RequestFacts
<1>2. Plain(status) \in Response
      /\ Plain(status) = [status |-> status, retryAfter |-> FALSE, paged |-> FALSE,
                          abstained |-> FALSE, cited |-> 0, torque |-> FALSE,
                          failure |-> "none"]
  BY PlainIsPlain
<1>3. q.response = Plain(status)
  BY <1>1 DEF ReqState
<1>4. HonestAnswer(q)
  BY <1>2, <1>3 DEF HonestAnswer
<1>5. AsPromised(Plain(status))
  BY <1>2, PlainIsAsPromised
<1> QED BY <1>2, <1>4, <1>5, RequestEnds

\* A reply that cannot be parsed.
LEMMA RequestEndsMalformed ==
    ASSUME QueryInv, NEW r \in Requests,
           End(r, MalformedReply), slots' = slots \ {r},
           upstream' \in {"up", "outage", "refusing"}, ready' \in BOOLEAN
    PROVE  QueryInv'
<1> DEFINE q == [req[r] EXCEPT !.pc = "idle", !.response = MalformedReply]
<1>1. req[r] \in ReqState
  BY RequestFacts
<1>2. /\ MalformedReply \in Response
      /\ MalformedReply.status = "502" /\ MalformedReply.failure = "malformed"
      /\ MalformedReply.cited = 0 /\ MalformedReply.torque = FALSE
      /\ MalformedReply.retryAfter = FALSE /\ MalformedReply.paged = FALSE
  BY MalformedIs502
<1>3. AsPromised(MalformedReply)
  BY <1>2 DEF AsPromised, Transient, OperatorFault
<1>4. q.response = MalformedReply
  BY <1>1 DEF ReqState
<1>5. HonestAnswer(q)
  BY <1>2, <1>4 DEF HonestAnswer
<1> QED BY <1>2, <1>3, <1>5, RequestEnds

-----------------------------------------------------------------------------
LEMMA QueryInvInit == Init => QueryInv
<1> SUFFICES ASSUME Init PROVE QueryInv
  OBVIOUS
<1> DEFINE q == [pc |-> "idle", identified |-> FALSE, hits |-> <<>>, pointed |-> 0,
                 outcome |-> Abstained, response |-> Plain("none")]
<1>1. Plain("none") \in Response
      /\ Plain("none") = [status |-> "none", retryAfter |-> FALSE, paged |-> FALSE,
                          abstained |-> FALSE, cited |-> 0, torque |-> FALSE,
                          failure |-> "none"]
  BY PlainIsPlain
<1>2. q \in ReqState
  BY <1>1 DEF ReqState, Outcome, Abstained
<1>3. RequestInv(q)
  BY <1>1 DEF RequestInv, HonestAnswer, ToldApart, AsPromised, Transient,
      OperatorFault
<1>4. \A r \in Requests : req[r] = q
  BY DEF Init
<1>5. TypeOK
  BY <1>2 DEF Init, TypeOK
<1>6. Cardinality({}) = 0
  BY FS_EmptySet
<1>7. NothingLeaks
  BY <1>4, <1>6, PoolAssumption DEF Init, NothingLeaks
<1> HIDE DEF q
<1> QED BY <1>3, <1>4, <1>5, <1>7 DEF QueryInv

LEMMA QueryInvNext == QueryInv /\ [Next]_vars => QueryInv'
<1> SUFFICES ASSUME QueryInv, [Next]_vars PROVE QueryInv'
  OBVIOUS
<1> USE RequestFacts
<1>1. CASE UNCHANGED vars
  BY <1>1 DEF vars, QueryInv, TypeOK, NothingLeaks, RequestInv, HonestAnswer,
              ToldApart, ParsedWell, Plain
<1>2. CASE Upstream
  BY <1>2 DEF Upstream, QueryInv, TypeOK, NothingLeaks, RequestInv, HonestAnswer,
              ToldApart, ParsedWell, Plain
<1>3. ASSUME NEW r \in Requests, Arrive(r) PROVE QueryInv'
  <2>1. PICK identified \in BOOLEAN :
          req' = [req EXCEPT ![r] =
                    [pc |-> "embed", identified |-> identified, hits |-> <<>>,
                     pointed |-> 0, outcome |-> Abstained,
                     response |-> Plain("none")]]
    BY <1>3 DEF Arrive
  <2> DEFINE q == [pc |-> "embed", identified |-> identified, hits |-> <<>>,
                   pointed |-> 0, outcome |-> Abstained, response |-> Plain("none")]
  <2>2. Plain("none") \in Response
        /\ Plain("none") = [status |-> "none", retryAfter |-> FALSE, paged |-> FALSE,
                            abstained |-> FALSE, cited |-> 0, torque |-> FALSE,
                            failure |-> "none"]
    BY PlainIsPlain
  <2>3. q \in ReqState
    BY <2>2 DEF ReqState, Outcome, Abstained
  <2>4. RequestInv(q)
    BY <2>2 DEF RequestInv, HonestAnswer, ToldApart, AsPromised, Transient,
      OperatorFault
  <2>5. conns' = conns \ {r} /\ slots' = slots \ {r}
    BY <1>3 DEF Arrive, HoldsConnection
  <2>6. q.pc = "embed" /\ q.pc \notin HoldsConnection
    BY DEF HoldsConnection
  <2>7. upstream' = upstream /\ ready' = ready
    BY <1>3 DEF Arrive
  <2> HIDE DEF q
  <2> QED BY <2>1, <2>3, <2>4, <2>5, <2>6, <2>7, OneRequestMoves DEF q
<1>4. ASSUME NEW r \in Requests, Embed(r) PROVE QueryInv'
  <2>1. r \notin conns /\ r \notin slots
    BY <1>4 DEF Embed, HoldsConnection
  <2> QED BY <1>4, <2>1, RequestGoesOn DEF Embed, HoldsConnection
<1>5. ASSUME NEW r \in Requests, Connect(r) PROVE QueryInv'
  <2>1. r \notin slots
    BY <1>5 DEF Connect
  <2> QED BY <1>5, <2>1, RequestGoesOn DEF Connect, HoldsConnection
<1>6. ASSUME NEW r \in Requests, Search(r) PROVE QueryInv'
  <2>1. r \in conns /\ r \notin slots
    BY <1>6 DEF Search, HoldsConnection
  <2>2. PICK hits \in HitLists :
          IF hits = <<>> THEN End(r, Plain("404"))
          ELSE /\ req' = [req EXCEPT ![r] =
                            [req[r] EXCEPT !.pc = "gather", !.hits = hits]]
               /\ UNCHANGED conns
    BY <1>6 DEF Search
  <2>3. slots' = slots \ {r} /\ upstream' = upstream /\ ready' = ready
    BY <1>6, <2>1 DEF Search
  <2>4. CASE hits = <<>>
    BY <2>2, <2>3, <2>4, RequestEndsPlainly
  <2>5. CASE hits # <<>>
    <3> DEFINE q == [req[r] EXCEPT !.pc = "gather", !.hits = hits]
    <3>1. q \in ReqState
      BY HitListsAssumption DEF ReqState
    <3>2. q.pc = "gather" /\ q.response = Plain("none")
      BY <1>6 DEF ReqState, Search, RequestInv
    <3>3. Plain("none") = [status |-> "none", retryAfter |-> FALSE, paged |-> FALSE,
                           abstained |-> FALSE, cited |-> 0, torque |-> FALSE,
                           failure |-> "none"]
      BY PlainIsPlain
    <3>4. RequestInv(q)
      BY <3>2, <3>3 DEF RequestInv, HonestAnswer, ToldApart, AsPromised, Transient,
      OperatorFault
    <3>5. conns' = conns \cup {r}
      BY <2>1, <2>2, <2>5
    <3>6. req' = [req EXCEPT ![r] = q]
      BY <2>2, <2>5
    <3> HIDE DEF q
    <3> QED BY <2>1, <2>3, <3>1, <3>2, <3>4, <3>5, <3>6, OneRequestMoves
            DEF HoldsConnection
  <2> QED BY <2>4, <2>5
<1>7. ASSUME NEW r \in Requests, Gather(r) PROVE QueryInv'
  <2>1. r \in conns /\ r \notin slots
    BY <1>7 DEF Gather, HoldsConnection
  <2> QED BY <1>7, <2>1, RequestGoesOn DEF Gather, HoldsConnection
<1>8. ASSUME NEW r \in Requests, ImageMissing(r) PROVE QueryInv'
  <2>1. r \notin slots
    BY <1>8 DEF ImageMissing
  <2> QED BY <1>8, <2>1, RequestEndsPlainly DEF ImageMissing
<1>9. ASSUME NEW r \in Requests, EnterSlot(r) PROVE QueryInv'
  <2>1. r \in conns
    BY <1>9 DEF EnterSlot, HoldsConnection
  <2> QED BY <1>9, <2>1, RequestGoesOn DEF EnterSlot, HoldsConnection
<1>10. ASSUME NEW r \in Requests, CallSucceeds(r) PROVE QueryInv'
  <2>1. r \in conns /\ req[r].pc = "call"
    BY <1>10 DEF CallSucceeds, HoldsConnection
  <2>2. PICK reply \in Replies :
          LET outcome == ParseResponse(req[r].identified, req[r].hits, reply) IN
          IF outcome.kind = "error" THEN End(r, MalformedReply)
          ELSE /\ req' = [req EXCEPT ![r] =
                            [req[r] EXCEPT !.pc = "links", !.pointed = reply.index,
                                           !.outcome = outcome]]
               /\ UNCHANGED conns
    BY <1>10 DEF CallSucceeds
  <2> DEFINE outcome == ParseResponse(req[r].identified, req[r].hits, reply)
  <2>3. slots' = slots \ {r} /\ upstream' = upstream /\ ready' = TRUE
    BY <1>10 DEF CallSucceeds
  <2>4. reply \in Reply /\ reply.index \in Nat
    BY RepliesAssumption DEF Reply
  <2>5. /\ outcome \in Outcome
        /\ outcome.kind = "abstained" => outcome.index = 0 /\ ~outcome.torque
        /\ outcome.kind = "answer" =>
             /\ outcome.index = reply.index
             /\ reply.index \in 1 .. Len(req[r].hits)
             /\ req[r].identified =>
                  \E k \in 1 .. Len(req[r].hits) : req[r].hits[k].match
    <3>1. req[r].identified \in BOOLEAN /\ req[r].hits \in Seq(Hit)
      BY DEF ReqState
    <3> QED BY <2>4, <3>1, ParsedIsWell
  <2>6. IF outcome.kind = "error" THEN End(r, MalformedReply)
        ELSE /\ req' = [req EXCEPT ![r] =
                          [req[r] EXCEPT !.pc = "links", !.pointed = reply.index,
                                         !.outcome = outcome]]
             /\ UNCHANGED conns
    BY <2>2
  <2> HIDE DEF outcome
  <2>7. CASE outcome.kind = "error"
    BY <2>3, <2>6, <2>7, RequestEndsMalformed
  <2>8. CASE outcome.kind # "error"
    <3> DEFINE q == [req[r] EXCEPT !.pc = "links", !.pointed = reply.index,
                                   !.outcome = outcome]
    <3>1. q \in ReqState
      BY <2>4, <2>5 DEF ReqState
    <3>2. /\ q.pc = "links" /\ q.outcome = outcome /\ q.pointed = reply.index
          /\ q.hits = req[r].hits /\ q.identified = req[r].identified
          /\ q.response = Plain("none")
      BY <2>1 DEF ReqState, RequestInv
    <3>3. Plain("none") = [status |-> "none", retryAfter |-> FALSE, paged |-> FALSE,
                           abstained |-> FALSE, cited |-> 0, torque |-> FALSE,
                           failure |-> "none"]
      BY PlainIsPlain
    <3>4. ParsedWell(q)
      BY <2>5, <2>8, <3>2 DEF ParsedWell, Outcome
    <3>5. RequestInv(q)
      BY <3>2, <3>3, <3>4 DEF RequestInv, HonestAnswer, ToldApart, Transient,
                              OperatorFault
    <3>6. conns' = conns \cup {r} /\ req' = [req EXCEPT ![r] = q]
      BY <2>1, <2>6, <2>8
    <3> HIDE DEF q
    <3> QED BY <2>1, <2>3, <3>1, <3>2, <3>5, <3>6, OneRequestMoves
            DEF HoldsConnection
  <2> QED BY <2>7, <2>8
<1>11. ASSUME NEW r \in Requests, CallFails(r) PROVE QueryInv'
  <2>1. PICK f \in FailuresOf(r) : End(r, ErrorResponse(f))
    BY <1>11 DEF CallFails
  <2>2. f \in Failures /\ f # "none"
    BY FailuresAreKnown DEF Failures
  <2>3. /\ ErrorResponse(f) \in Response
        /\ ErrorResponse(f).status # "200"
        /\ ErrorResponse(f).cited = 0 /\ ErrorResponse(f).torque = FALSE
        /\ AsPromised(ErrorResponse(f))
    BY <2>2, ErrorResponseTells
  <2> DEFINE q == [req[r] EXCEPT !.pc = "idle", !.response = ErrorResponse(f)]
  <2>4. q.response = ErrorResponse(f)
    BY DEF ReqState
  <2>5. HonestAnswer(q)
    BY <2>3, <2>4 DEF HonestAnswer
  <2>6. slots' = slots \ {r} /\ ready' = FALSE /\ upstream' = upstream
    BY <1>11 DEF CallFails
  <2> QED BY <2>1, <2>3, <2>5, <2>6, RequestEnds
<1>12. ASSUME NEW r \in Requests, Respond(r) PROVE QueryInv'
  <2>1. ParsedWell(req[r]) /\ req[r].outcome \in Outcome
    BY <1>12 DEF Respond, RequestInv, ReqState
  <2>2. PICK abstained \in BOOLEAN :
          abstained = (req[r].outcome.kind = "abstained")
    OBVIOUS
  <2> DEFINE resp == [Plain("200") EXCEPT !.abstained = abstained,
                                          !.cited = req[r].outcome.index,
                                          !.torque = req[r].outcome.torque]
             q == [req[r] EXCEPT !.pc = "idle", !.response = resp]
  <2>3. /\ resp \in Response
        /\ resp.status = "200" /\ resp.failure = "none"
        /\ resp.cited = req[r].outcome.index
        /\ resp.torque = req[r].outcome.torque
        /\ resp.abstained = abstained
        /\ resp.retryAfter = FALSE /\ resp.paged = FALSE
    <3>1. Plain("200") \in Response
          /\ Plain("200") = [status |-> "200", retryAfter |-> FALSE,
                             paged |-> FALSE, abstained |-> FALSE, cited |-> 0,
                             torque |-> FALSE, failure |-> "none"]
      BY PlainIsPlain
    <3>2. /\ Plain("200").status = "200" /\ Plain("200").failure = "none"
          /\ Plain("200").retryAfter = FALSE /\ Plain("200").paged = FALSE
      BY <3>1
    <3>3. req[r].outcome.index \in Nat /\ req[r].outcome.torque \in BOOLEAN
      BY <2>1 DEF Outcome
    <3> QED BY <3>1, <3>2, <3>3 DEF Response
  <2> HIDE DEF resp
  <2>4. End(r, resp) /\ r \notin slots
    <3>1. End(r, resp)
      BY <1>12, <2>2, Zenon DEF Respond, resp
    <3>2. r \notin slots
      BY <1>12 DEF Respond
    <3> QED BY <3>1, <3>2
  <2>5. /\ q.response = resp /\ q.hits = req[r].hits /\ q.pointed = req[r].pointed
        /\ q.identified = req[r].identified
    BY DEF ReqState
  <2>6. HonestAnswer(q)
    <3>1. resp.abstained <=> req[r].outcome.kind = "abstained"
      BY <2>2, <2>3
    <3> HIDE DEF q
    <3> QED BY <2>1, <2>3, <2>5, <3>1 DEF HonestAnswer, ParsedWell
  <2>7. slots' = slots \ {r} /\ ready' = ready /\ upstream' = upstream
    BY <1>12, <2>4 DEF Respond
  <2>8. AsPromised(resp)
    BY <2>3, PlainIsAsPromised
  <2> QED BY <2>3, <2>4, <2>6, <2>7, <2>8, RequestEnds
<1>13. ASSUME NEW r \in Requests, RetrievalFails(r) PROVE QueryInv'
  <2>1. r \notin slots
    BY <1>13 DEF RetrievalFails
  <2> QED BY <1>13, <2>1, RequestEndsPlainly DEF RetrievalFails
<1>14. ASSUME NEW r \in Requests, GatherFails(r) PROVE QueryInv'
  <2>1. r \notin slots
    BY <1>14 DEF GatherFails
  <2>2. PICK status \in {"502", "IngestionError", "DatabaseError"} :
          End(r, Plain(status))
    BY <1>14 DEF GatherFails
  <2> QED BY <1>14, <2>1, <2>2, RequestEndsPlainly DEF GatherFails
<1>15. ASSUME NEW r \in Requests, LinksFail(r) PROVE QueryInv'
  <2>1. r \notin slots
    BY <1>15 DEF LinksFail
  <2> QED BY <1>15, <2>1, RequestEndsPlainly DEF LinksFail
<1> QED BY <1>1, <1>2, <1>3, <1>4, <1>5, <1>6, <1>7, <1>8, <1>9, <1>10, <1>11,
           <1>12, <1>13, <1>14, <1>15 DEF Next, Step, Fault

-----------------------------------------------------------------------------
\* The service's states are well typed.
THEOREM QueryTypeCorrect == Spec => []TypeOK
<1>1. QueryInv => TypeOK
  BY DEF QueryInv
<1> QED BY <1>1, QueryInvInit, QueryInvNext, PTL DEF Spec

\* However many requests are served, in whatever interleaving, a response
\* cites only a hit that the model pointed at, and states a torque only together
\* with such a source (_parse_response, _abstain, the route).
THEOREM CitationsAreHonest == Spec => []CitationIsHonest
<1>1. QueryInv => CitationIsHonest
  BY DEF QueryInv, RequestInv, HonestAnswer, CitationIsHonest
<1> QED BY <1>1, QueryInvInit, QueryInvNext, PTL DEF Spec

\* Every failure of the upstream reaches the client and the operator as the
\* README's contract says (_classify_upstream_error and the route's arms).
THEOREM FailuresAreAlwaysToldApart == Spec => []FailuresAreToldApart
<1>1. QueryInv => FailuresAreToldApart
  BY DEF QueryInv, RequestInv, ToldApart, FailuresAreToldApart
<1> QED BY <1>1, QueryInvInit, QueryInvNext, PTL DEF Spec

\* No way out of the route keeps a connection or a slot.
THEOREM NothingEverLeaks == Spec => []NothingLeaks
<1>1. QueryInv => NothingLeaks
  BY DEF QueryInv
<1> QED BY <1>1, QueryInvInit, QueryInvNext, PTL DEF Spec
=============================================================================
