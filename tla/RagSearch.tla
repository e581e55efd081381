----------------------------- MODULE RagSearch -----------------------------
(***************************************************************************)
(* Search of the knowledge base: a semantic and a keyword query, their     *)
(* fusion by reciprocal rank (rag/retriever.py), and a cross-encoder that  *)
(* may order the candidates anew (services/rag_service.py,                 *)
(* rag/reranker.py).                                                       *)
(*                                                                         *)
(* What a model or an index finds similar is not of interest here: a query *)
(* may return what it selects in any order.                                *)
(***************************************************************************)
EXTENDS Integers, PythonLists

CONSTANTS
  Asker,              \* the user who searches
  Oversampling,       \* "top_k * 3", once in the service and once in the retriever
  Destination,        \* the filter {"destination": ...}
  None

ASSUME RagAssumption == Oversampling \in Nat \ {0}

RrfK == 60

\* The two WHERE clauses.  The worker gives a chunk no metadata but its document
\* and its index, so no chunk has a destination to be filtered by.
Selected(corpus, request) ==
  {c \in corpus : /\ request.mine => c.owner = Asker
                  /\ request.filter \in {None, c.document}}

\* The possible results of a query with LIMIT n.  The HNSW index, like the
\* trigram threshold, may leave out rows that are selected.
Rankings(rows, n) == {r \in SetToAllKPermutations(rows) : Len(r) <= n}

\* The LIMIT of both queries.
Limit(request) == Oversampling * Oversampling * request.top_k

\* _semantic_search: the nearest embeddings.
SemanticResults(corpus, request) == Rankings(Selected(corpus, request), Limit(request))

\* _keyword_search: the most similar texts, or for a short query those that contain
\* it.
KeywordResults(corpus, request) == Rankings(Selected(corpus, request), Limit(request))

-----------------------------------------------------------------------------
\* _reciprocal_rank_fusion.  A score is a fraction <<numerator, denominator>>.

Share(weight, results, c) ==
  IF c \in ToSet(results)
  THEN <<weight, RrfK + CHOOSE rank \in DOMAIN results : results[rank] = c>>
  ELSE <<0, 1>>

Higher(x, y) == x[1] * y[2] > y[1] * x[2]

\* MUTANT of RrfScore: the keyword loop assigns the score rather than adds to it.
RrfScoreOverwritten(c, semantic, keyword, request) ==
  IF c \in ToSet(keyword) THEN Share(request.keyword_weight, keyword, c)
  ELSE Share(request.semantic_weight, semantic, c)

RrfScore(c, semantic, keyword, request) ==
  LET s == Share(request.semantic_weight, semantic, c)
      k == Share(request.keyword_weight, keyword, c)
  IN <<s[1] * k[2] + k[1] * s[2], s[2] * k[2]>>

\* Sorted by descending score, from the order in which the chunks were first seen.
Fused(semantic, keyword, request) ==
  LET found == semantic \o Kept(keyword, LAMBDA c : c \notin ToSet(semantic))
      Before(c, d) == Higher(RrfScore(c, semantic, keyword, request),
                             RrfScore(d, semantic, keyword, request))
  IN Sorted(found, Before)

\* HybridRetriever.search
Candidates(semantic, keyword, request) ==
  FirstOf(Fused(semantic, keyword, request), Oversampling * request.top_k)

\* The orders in which the cross-encoder may put the candidates: its scores are
\* free.
Reranked(candidates, n) == {FirstOf(order, n) : order \in SetToSeqs(ToSet(candidates))}

\* RAGService.search: the possible answers.
Answers(semantic, keyword, request) ==
  LET candidates == Candidates(semantic, keyword, request)
  IN IF request.rerank /\ Len(candidates) > 1 THEN Reranked(candidates, request.top_k)
     ELSE {FirstOf(candidates, request.top_k)}
=============================================================================
