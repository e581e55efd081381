---------------------------- MODULE MCAgentTools ----------------------------
EXTENDS AgentTools

CONSTANTS u1, u2

\* A document of two chunks and one of another user.
DocA == {[id |-> 1, document |-> "A", owner |-> u1], [id |-> 2, document |-> "A", owner |-> u1]}
DocB == {[id |-> 3, document |-> "B", owner |-> u2]}

MCCorpora == {DocA, DocB, DocA \union DocB}

MCSearchRequests ==
  {[top_k |-> k, semantic_weight |-> w[1], keyword_weight |-> w[2], rerank |-> r,
    mine |-> m, filter |-> f] :
     k \in 1..2, w \in {<<3, 2>>, <<1, 0>>, <<0, 1>>}, r \in BOOLEAN, m \in BOOLEAN,
     f \in {None, "A", Destination}}

MCBookingRequests == [budget : {1200, 12000, 40000}, days : {1, 3}, approved : BOOLEAN]

MCRoutes ==
  {[known |-> TRUE, train |-> FALSE, flight |-> FALSE],
   [known |-> TRUE, train |-> TRUE, flight |-> TRUE],
   [known |-> FALSE, train |-> TRUE, flight |-> FALSE]}

Hotels ==
  {[price |-> 400, rating |-> 40], [price |-> 2000, rating |-> 46],
   [price |-> 9000, rating |-> 48]}

MCHotelReplies ==
  [1..3 -> Hotels]
  \union {Failed, <<[price |-> 400, rating |-> 40], [price |-> 2000, rating |-> 46]>>,
          <<[price |-> Misfit, rating |-> 40], [price |-> 400, rating |-> 40],
            [price |-> 2000, rating |-> 46]>>}
  \union {<<[price |-> p, rating |-> 40], [price |-> 9000, rating |-> 48],
             [price |-> q, rating |-> Misfit]>> : p, q \in {400, 2000}}

Transport ==
  {[type |-> "bus", price |-> 300], [type |-> "bus", price |-> 800],
   [type |-> "train", price |-> 600], [type |-> "flight", price |-> 7000]}

MCTransportReplies ==
  UNION {[1..n -> Transport] : n \in 2..3}
  \union {Failed, <<[type |-> "bus", price |-> Misfit], [type |-> "bus", price |-> 300]>>,
          <<[type |-> "bus", price |-> 300], [type |-> "train", price |-> 600],
            [type |-> Misfit, price |-> 800]>>}

Passages == {[key |-> 1, tail |-> 1], [key |-> 1, tail |-> 2], [key |-> 2, tail |-> 1]}
MCWebReplies == SeqOf(Passages, 2) \union {Down}

MCDefaultPlaces == <<"market", "temple", "museum">>
MCCurations ==
  [named : {<<>>, <<"fort", "palace">>},
   alike : {<<>>, <<(<<"beach", "falls", "cape">>), (<<"pass">>)>>}]

\* Only an array can be cut off, in the last of its elements, or have loose ones.
MCModelAnswers ==
  LET Upto(n) == [i \in 1..n |-> i]
      Cuts(n, loose) == {"no", "prose"} \union (IF n = 0 THEN {} ELSE {"flat"})
                        \union (IF n = 0 \/ n \in loose THEN {} ELSE {"nested"})
  IN UNION {UNION {[form : {"array"}, cut : Cuts(n, loose), days : {Upto(n)}, loose : {loose},
                    headed : SUBSET (1..n)] : loose \in SUBSET (1..n)} : n \in 0..3}
     \union UNION {[form : {"object", "markdown"}, cut : {"no"}, days : {Upto(n)},
                    loose : {{}}, headed : SUBSET (1..n)] : n \in 0..3}
     \union {[form |-> "empty", cut |-> "no", days |-> <<>>, loose |-> {}, headed |-> {}]}

MCPlaceReplies == SeqOf({"lake", "zoo", Nameless}, 3) \union {Down}
=============================================================================
