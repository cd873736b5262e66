----------------------------- MODULE Extraction -----------------------------
(***************************************************************************)
(* What becomes of one call to Claude: the two decisions of                *)
(* ClaudeExtractor, as functions of their inputs.                          *)
(*                                                                         *)
(*  - Classify: which domain error an SDK exception becomes.  The code is  *)
(*    a chain of isinstance tests over a class hierarchy, so an exception  *)
(*    is the set of its classes and the first test that hits decides.      *)
(*  - ParseResponse: what a reply of the model becomes.  The gate that     *)
(*    recognises a product nobody retrieved runs before the reply is read. *)
(***************************************************************************)
EXTENDS Naturals, Sequences

(* Failures of the call. *)

\* What can go wrong upstream, by HTTP status; "conn" has none.
Failures == {"429", "529", "conn", "timeout", "401", "403", "413",
             "400credit", "400", "500", "503", "404", "422"}

\* The SDK's classes of the exception.  OverloadedError is a sibling of
\* InternalServerError, not a subclass.
Classes(f) ==
    CASE f = "429" -> {"RateLimitError", "APIStatusError", "APIError"}
      [] f = "529" -> {"OverloadedError", "APIStatusError", "APIError"}
      [] f = "conn" -> {"APIConnectionError", "APIError"}
      [] f = "timeout" -> {"APITimeoutError", "APIConnectionError", "APIError"}
      [] f = "401" -> {"AuthenticationError", "APIStatusError", "APIError"}
      [] f = "403" -> {"PermissionDeniedError", "APIStatusError", "APIError"}
      [] f = "413" -> {"RequestTooLargeError", "APIStatusError", "APIError"}
      [] f \in {"400", "400credit"} -> {"BadRequestError", "APIStatusError", "APIError"}
      [] f \in {"500", "503"} -> {"InternalServerError", "APIStatusError", "APIError"}
      [] OTHER -> {"APIStatusError", "APIError"}

IsA(f, classes) == Classes(f) \cap classes # {}

DomainErrors == {"Unavailable", "Unauthorized", "ExtractionError"}

\* mutant: the overload is left to the generic 5xx test
ClassifyWithoutOverloaded(f) ==
    IF IsA(f, {"RateLimitError", "APIConnectionError", "InternalServerError"})
    THEN "Unavailable"
    ELSE IF IsA(f, {"AuthenticationError", "PermissionDeniedError", "RequestTooLargeError"})
              \/ (IsA(f, {"BadRequestError"}) /\ f = "400credit")
    THEN "Unauthorized" ELSE "ExtractionError"

\* _classify_upstream_error.  The credit balance is recognised by the message.
Classify(f) ==
    IF IsA(f, {"OverloadedError", "RateLimitError"}) THEN "Unavailable"
    ELSE IF IsA(f, {"APIConnectionError"}) THEN "Unavailable"
    ELSE IF IsA(f, {"AuthenticationError", "PermissionDeniedError",
                    "RequestTooLargeError"}) THEN "Unauthorized"
    ELSE IF IsA(f, {"BadRequestError"})
         THEN IF f = "400credit" THEN "Unauthorized" ELSE "ExtractionError"
    ELSE IF IsA(f, {"InternalServerError"}) THEN "Unavailable"
    ELSE "ExtractionError"

(* Replies. *)

\* A hit: where it comes from, whether its page has an image key, and whether
\* its document's title matches the product the question names.
Hit == [src : {"pdf", "html"}, image : BOOLEAN, match : BOOLEAN]

\* A reply: how it ends or what it holds, the source it points at (0: null),
\* whether it states a torque (a tool size is treated alike) and whether the
\* Answer model accepts its confidence.
Forms == {"json", "max_tokens", "refusal", "empty", "not_text", "not_json",
          "no_answer_or_confidence", "index_not_a_number"}
Reply == [form : Forms, index : Nat, torque : BOOLEAN, valid : BOOLEAN]

Outcome == [kind : {"answer", "abstained", "error"}, index : Nat,
            torque : BOOLEAN]
Abstained == [kind |-> "abstained", index |-> 0, torque |-> FALSE]
Malformed == [kind |-> "error", index |-> 0, torque |-> FALSE]

\* _is_out_of_corpus: the question names a product and no hit is about it.
OutOfCorpus(identified, hits) ==
    identified /\ \A k \in 1 .. Len(hits) : ~hits[k].match

\* mutant: without a source the first candidate is cited
ParseResponseOrFirst(identified, hits, reply) ==
    IF OutOfCorpus(identified, hits) THEN Abstained
    ELSE IF reply.form # "json" \/ ~reply.valid \/ reply.index > Len(hits) THEN Malformed
    ELSE [kind |-> "answer", torque |-> reply.torque,
          index |-> IF reply.index = 0 THEN 1 ELSE reply.index]

\* mutant: the gate runs only when the model found no source itself
ParseResponseGateLast(identified, hits, reply) ==
    IF reply.form # "json" \/ ~reply.valid \/ reply.index > Len(hits) THEN Malformed
    ELSE IF reply.index = 0 THEN Abstained
    ELSE [kind |-> "answer", index |-> reply.index, torque |-> reply.torque]

\* _parse_response.
ParseResponse(identified, hits, reply) ==
    CASE OutOfCorpus(identified, hits) -> Abstained
      [] ~OutOfCorpus(identified, hits) /\ reply.form = "json" /\ reply.index = 0 ->
           Abstained
      [] ~OutOfCorpus(identified, hits) /\ reply.form = "json" /\ reply.valid
           /\ reply.index \in 1 .. Len(hits) ->
           [kind |-> "answer", index |-> reply.index, torque |-> reply.torque]
      [] OTHER -> Malformed
=============================================================================
