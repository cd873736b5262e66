---------------------------- MODULE EmbedBatches ----------------------------
(***************************************************************************)
(* VoyageEmbedder.embed_documents: the texts of one document are clipped   *)
(* and sent in requests of bounded size, one request after the other, and  *)
(* the vectors that come back are put one behind the other.  A text is its *)
(* length in characters; a vector is the position of the text it embeds.   *)
(***************************************************************************)
EXTENDS Integers, Sequences

CONSTANTS
    MaxBatchTexts,   \* _MAX_BATCH_TEXTS
    MaxBatchTokens,  \* _MAX_BATCH_TOKENS
    MaxTextChars     \* _MAX_TEXT_CHARS

ASSUME LimitsAssumption ==
    /\ MaxBatchTexts \in Nat \ {0}
    /\ MaxBatchTokens \in Nat \ {0}
    /\ MaxTextChars \in Nat
    /\ MaxTextChars \div 3 <= MaxBatchTokens

VARIABLES
    texts,    \* the lengths of the texts to embed
    phase,    \* "idle", "loop", "done", or "failed" after a RetrievalError
    batch,    \* positions of the texts of the request in the making
    tokens,   \* their estimated tokens
    sent,     \* the requests sent
    vectors   \* the vectors returned

embedVars == <<texts, phase, batch, tokens, sent, vectors>>

Request == [items : Seq(Nat), tokens : Nat]

EmbedTypeOK ==
    /\ texts \in Seq(Nat)
    /\ phase \in {"idle", "loop", "done", "failed"}
    /\ batch \in Seq(Nat)
    /\ tokens \in Nat
    /\ sent \in Seq(Request)
    /\ vectors \in Seq(Nat)

EmbedInit ==
    /\ texts = <<>>
    /\ phase = "idle"
    /\ batch = <<>>
    /\ tokens = 0
    /\ sent = <<>>
    /\ vectors = <<>>

Clipped(chars) == IF chars > MaxTextChars THEN MaxTextChars ELSE chars
EstimateTokens(chars) == IF chars \div 3 > 1 THEN chars \div 3 ELSE 1
Tokens(k) == EstimateTokens(Clipped(texts[k]))

\* The texts that are in a vector or in the batch; the loop is at the next one.
Taken == Len(vectors) + Len(batch)

\* An empty list needs no request.
Begin(lengths) ==
    /\ phase = "idle"
    /\ phase' = IF lengths = <<>> THEN "done" ELSE "loop"
    /\ texts' = lengths
    /\ UNCHANGED <<batch, tokens, sent, vectors>>

\* mutant: the limit is looked at after the text was added
IsFullLate(k) == Len(batch) >= MaxBatchTexts \/ tokens >= MaxBatchTokens

\* Text k does not fit into the batch any more.
IsFull(k) == Len(batch) >= MaxBatchTexts \/ tokens + Tokens(k) > MaxBatchTokens

\* The next text joins the batch.
AddText ==
    /\ phase = "loop"
    /\ Taken < Len(texts)
    /\ batch = <<>> \/ ~IsFull(Taken + 1)
    /\ batch' = Append(batch, Taken + 1)
    /\ tokens' = tokens + Tokens(Taken + 1)
    /\ UNCHANGED <<texts, phase, sent, vectors>>

\* _embed: Voyage answers with a vector for every input, in their order.
SendBatch ==
    /\ sent' = Append(sent, [items |-> batch, tokens |-> tokens])
    /\ vectors' = vectors \o batch

\* mutant: the batch is started anew, its tokens are not
FlushAndAddKeeping ==
    /\ phase = "loop"
    /\ Taken < Len(texts)
    /\ batch # <<>> /\ IsFull(Taken + 1)
    /\ SendBatch
    /\ batch' = <<Taken + 1>>
    /\ tokens' = tokens + Tokens(Taken + 1)
    /\ UNCHANGED <<texts, phase>>

\* The batch is sent first and the next text starts a new one.
FlushAndAdd ==
    /\ phase = "loop"
    /\ Taken < Len(texts)
    /\ batch # <<>> /\ IsFull(Taken + 1)
    /\ SendBatch
    /\ batch' = <<Taken + 1>>
    /\ tokens' = Tokens(Taken + 1)
    /\ UNCHANGED <<texts, phase>>

\* mutant: what is left after the loop is not sent
FlushLastForgotten ==
    /\ phase = "loop"
    /\ Taken = Len(texts)
    /\ batch' = <<>>
    /\ tokens' = 0
    /\ phase' = "done"
    /\ UNCHANGED <<texts, sent, vectors>>

\* The loop is over: what is left is sent.
FlushLast ==
    /\ phase = "loop"
    /\ Taken = Len(texts)
    /\ SendBatch
    /\ batch' = <<>>
    /\ tokens' = 0
    /\ phase' = "done"
    /\ UNCHANGED texts

\* A request fails, or comes back with another number of vectors: nothing is
\* returned.
SendFails ==
    /\ phase = "loop"
    /\ batch # <<>>
    /\ Taken < Len(texts) => IsFull(Taken + 1)
    /\ phase' = "failed"
    /\ UNCHANGED <<texts, batch, tokens, sent, vectors>>

\* The caller has the vectors or the exception, or is gone.
Return ==
    /\ texts' = <<>> /\ phase' = "idle" /\ batch' = <<>> /\ tokens' = 0
    /\ sent' = <<>> /\ vectors' = <<>>

EmbedStep == AddText \/ FlushAndAdd \/ FlushLast \/ SendFails

EmbedNext == (\E lengths \in Seq(Nat) : Begin(lengths)) \/ EmbedStep \/ Return

EmbedSpec == EmbedInit /\ [][EmbedNext]_embedVars

-----------------------------------------------------------------------------
(* Properties.                                                             *)

\* Every request has a text and stays within Voyage's limits, also for a text
\* that is as large as it may be and for a batch that is exactly full.
RequestsFit ==
    \A k \in DOMAIN sent : /\ Len(sent[k].items) \in 1 .. MaxBatchTexts
                           /\ sent[k].tokens <= MaxBatchTokens

\* The vectors that are returned belong to the texts one by one: none is
\* missing, repeated or in another's place.
VectorsInOrder ==
    phase = "done" => vectors = [k \in 1 .. Len(texts) |-> k]

\* Why they do: the vectors and the batch count through the texts.
CountsThrough ==
    /\ Taken <= Len(texts)
    /\ \A k \in 1 .. Len(vectors) : vectors[k] = k
    /\ \A k \in 1 .. Len(batch) : batch[k] = Len(vectors) + k
    /\ phase = "done" => batch = <<>> /\ Taken = Len(texts)
    /\ phase = "idle" => batch = <<>> /\ vectors = <<>> /\ sent = <<>> /\ texts = <<>>
    /\ phase = "loop" => texts # <<>>
    /\ phase = "loop" /\ batch = <<>> => vectors = <<>>

\* Why they fit: the batch does.
BatchFits ==
    /\ Len(batch) <= MaxBatchTexts
    /\ tokens <= MaxBatchTokens
    /\ batch = <<>> => tokens = 0

EmbedInv == EmbedTypeOK /\ CountsThrough /\ BatchFits /\ RequestsFit
=============================================================================
