------------------------------ MODULE Embedding -----------------------------
(* The embedding stage of an import (doc_intel/embedding.py, the HTTP embedder *)
(* of embedding_service): the texts go to the provider in batches, a batch that *)
(* meets a passing trouble again after a pause.  Texts are numbers, and a      *)
(* vector is the number of its text.  The tokens and the reasons are left out. *)
EXTENDS Naturals, Sequences, FiniteSets

CONSTANTS MaxTexts, BatchSize,
          EmbedRetries \* max_retries

VARIABLES texts,  \* how many there are
          embed

embedVars == <<texts, embed>>

EmbedTypeOK ==
  /\ texts \in 0..MaxTexts
  /\ embed.at \in {"ask", "read", "pause", "done", "failed"}
  /\ embed.start \in 1..(MaxTexts + BatchSize) /\ embed.attempt \in 0..EmbedRetries
  /\ embed.vectors \in Seq(1..MaxTexts) /\ embed.reply \subseteq 1..MaxTexts

EmbedInit ==
  /\ texts \in 0..MaxTexts
  /\ embed = [at |-> IF texts = 0 THEN "done" ELSE "ask", start |-> 1, attempt |-> 0, vectors |-> <<>>, reply |-> {}]

Batch == embed.start..(IF embed.start + BatchSize > texts THEN texts ELSE embed.start + BatchSize - 1)

\* The rows of a batch by their index: the i-th has i - 1 before it.
Nth(batch, i) == CHOOSE t \in batch : Cardinality({s \in batch : s < t}) = i - 1
InOrder(batch) == [i \in 1..Cardinality(batch) |-> Nth(batch, i)]

\* The provider answers, in any order, for some of the texts.
Reply ==
  /\ embed.at = "ask"
  /\ \E batch \in SUBSET Batch : embed' = [embed EXCEPT !.at = "read", !.reply = batch]
  /\ UNCHANGED texts

\* The rows are sorted by their index.  A text without a vector, or a vector of another dimension than the corpus has, fails it all.
Collect ==
  /\ embed.at = "read"
  /\ IF Cardinality(embed.reply) # Cardinality(Batch)
     THEN embed' = [embed EXCEPT !.at = "failed", !.vectors = <<>>, !.reply = {}]
     ELSE embed' = [at |-> IF embed.start + BatchSize > texts THEN "done" ELSE "ask",
                    start |-> embed.start + BatchSize, attempt |-> 0,
                    vectors |-> embed.vectors \o InOrder(embed.reply), reply |-> {}]
  /\ UNCHANGED texts

\* 429, 5xx, a timeout or no connection: the batch is asked for again after the pause.
Trouble ==
  /\ embed.at = "ask" /\ embed.attempt < EmbedRetries
  /\ embed' = [embed EXCEPT !.at = "pause", !.attempt = @ + 1]
  /\ UNCHANGED texts

\* _backoff, "Retry-After honoured", a minute at most.
Resume ==
  /\ embed.at = "pause"
  /\ embed' = [embed EXCEPT !.at = "ask"]
  /\ UNCHANGED texts

\* Mutant: a batch that cannot be had is passed over.
PassOver ==
  /\ embed.at = "ask"
  /\ embed' = [embed EXCEPT !.at = IF embed.start + BatchSize > texts THEN "done" ELSE "ask",
                            !.start = @ + BatchSize, !.attempt = 0]
  /\ UNCHANGED texts

\* A trouble once more than max_retries, or one that does not pass: no key, another status,
\* an answer that cannot be read, the database.
Refused ==
  /\ embed.at = "ask"
  /\ embed' = [embed EXCEPT !.at = "failed", !.vectors = <<>>]
  /\ UNCHANGED texts

EmbedNext == Reply \/ Collect \/ Trouble \/ Resume \/ Refused

EmbedSpec == EmbedInit /\ [][EmbedNext]_embedVars /\ WF_embedVars(EmbedNext)

-----------------------------------------------------------------------------
(* Properties.                                                             *)

\* Every text has its own vector in the end, or there are none at all, whatever batches were
\* asked for again.
OneVectorPerText ==
  /\ embed.at = "done" => embed.vectors = [i \in 1..texts |-> i]
  /\ embed.at = "failed" => embed.vectors = <<>>

EmbedIsOver == embed.at \in {"done", "failed"}

\* A provider in trouble is not asked forever.
EmbedEnds == <>EmbedIsOver
=============================================================================
