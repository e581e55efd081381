----------------------------- MODULE AgentTools -----------------------------
(***************************************************************************)
(* The tools at work.  A tool is asked once; its action chooses what the   *)
(* services outside reply, and keeps with the answer what the properties   *)
(* compare it with.                                                        *)
(***************************************************************************)
EXTENDS RagSearch, Booking, Lookups, Itinerary, FiniteSets

CONSTANTS
  Corpora,            \* the sets of chunks the database may hold
  SearchRequests,
  BookingRequests,
  Routes,             \* what _ROUTE_PROFILES says of the route
  HotelPercents,      \* price levels of the destinations
  HotelReplies, TransportReplies,
  WebReplies,         \* what a query to a search engine may return
  WebLimit,           \* max_results
  Days,               \* how many days of weather are asked for
  PlaceReplies,       \* what the places service may reply
  Curations,          \* what may be curated for a destination
  PlaceLimit,         \* max_results
  ModelAnswers,       \* what the model may answer to the finalizer
  TripDays            \* how many days a trip may have

\* The database and a request's numbers are finite and not negative.
ASSUME SearchAssumption ==
  /\ \A corpus \in Corpora : IsFiniteSet(corpus)
  /\ \A request \in SearchRequests :
       {request.top_k, request.semantic_weight, request.keyword_weight} \subseteq Nat

\* A price and a rating are numbers, or else one Misfit like another.
ASSUME BookingAssumption ==
  /\ \A request \in BookingRequests : {request.budget, request.days} \subseteq Nat
  /\ HotelPercents \subseteq Nat
  /\ Misfit \notin Int
  /\ \A options \in (HotelReplies \union TransportReplies) \ {Failed} :
       /\ options \in Seq(ToSet(options))
       /\ \A o \in ToSet(options) : o.price \in Int \union {Misfit}
  /\ \A options \in HotelReplies \ {Failed} :
       \A o \in ToSet(options) : o.rating \in Int \union {Misfit}

\* What a service replies is a list, unless it fails; what is curated has names.
ASSUME LookupsAssumption ==
  /\ Days \subseteq Nat
  /\ WebLimit \in Nat /\ PlaceLimit \in Nat \ {0}
  /\ \A texts \in WebReplies \ {Down} : texts \in Seq(ToSet(texts))
  /\ Unconfigured \notin [1..3 -> WebReplies]
  /\ \A places \in PlaceReplies \ {Down} : places \in Seq(ToSet(places))
  /\ \A curated \in Curations : curated.alike \in Seq(ToSet(curated.alike))
  /\ \A places \in {DefaultPlaces} \union {curated.named : curated \in Curations}
                    \union UNION {ToSet(curated.alike) : curated \in Curations} :
       places \in Seq(ToSet(places) \ {Nameless}) \ {Down, Unconfigured}
  /\ DefaultPlaces # <<>>
  /\ \A curated \in Curations : <<>> \notin ToSet(curated.alike)

\* An answer tells of finitely many days, and they can be told from no array.
ASSUME ItineraryAssumption ==
  /\ TripDays \subseteq Nat
  /\ \A text \in ModelAnswers :
       /\ text.days \in Seq(ToSet(text.days))
       /\ Unparsed \notin {text.days, Repaired(text)}

VARIABLES
  asked,              \* what was asked, or None
  reply,              \* what the services have replied
  answer              \* what the tool answers

vars == <<asked, reply, answer>>

Init == asked = None /\ reply = None /\ answer = None

\* Documents may be processed or deleted between the two queries.
Search ==
  /\ asked = None
  /\ \E request \in SearchRequests, atFirst, later \in Corpora :
       \E s \in SemanticResults(atFirst, request), k \in KeywordResults(later, request) :
         /\ asked' = [tool |-> "search", request |-> request]
         /\ reply' = [semantic |-> s, keyword |-> k]
         /\ answer' \in Answers(s, k, request)

\* booking_node: hotels and transport are searched for at the same time.
Book ==
  /\ asked = None
  /\ \E request \in BookingRequests, route \in Routes, percent \in HotelPercents,
        h \in HotelReplies, t \in TransportReplies :
       LET hotels == HotelsFound(h, percent)
           transport == TransportFound(t, route)
           offer == [hotels |-> HotelsOffered(hotels, request),
                     transport |-> TransportOffered(transport, request)]
       IN /\ asked' = [tool |-> "booking", request |-> request]
          /\ reply' = [hotels |-> hotels, transport |-> transport]
          /\ answer' = [hotels |-> offer.hotels, transport |-> offer.transport,
                        approval |-> NeedsApproval(offer.hotels, offer.transport, request)]

SearchWeb ==
  /\ asked = None
  /\ \E tavily \in [1..3 -> WebReplies] \union {Unconfigured} :
     \E duckduckgo \in IF HandsOver(tavily, WebLimit) THEN [1..3 -> WebReplies]
                       ELSE {Unconfigured} :
       /\ asked' = [tool |-> "web"]
       /\ reply' = [tavily |-> tavily, duckduckgo |-> duckduckgo]
       /\ answer' = WebText(tavily, duckduckgo, WebLimit)

Forecast ==
  /\ asked = None
  /\ \E days \in Days, slot \in 0..7, service \in {"works", Unconfigured, Down} :
       /\ asked' = [tool |-> "weather", days |-> days]
       /\ reply' = [service |-> service, slot |-> slot]
       /\ answer' = ForecastDates(service, days, slot)

SearchPlaces ==
  /\ asked = None
  /\ \E service \in PlaceReplies \union {Unconfigured}, curated \in Curations :
       /\ asked' = [tool |-> "places", curated |-> curated]
       /\ reply' = [service |-> service]
       /\ answer' = PlacesFound(service, curated, PlaceLimit)

Finalize ==
  /\ asked = None
  /\ \E text \in ModelAnswers, days \in TripDays :
       /\ asked' = [tool |-> "finalizer", days |-> days]
       /\ reply' = text
       /\ answer' = IF ItemsRaise(text) THEN [raised |-> TRUE]
                    ELSE [raised |-> FALSE, days |-> DaysPlanned(text, days),
                          summary |-> Summary(text, days)]

Next == Search \/ Book \/ SearchWeb \/ Forecast \/ SearchPlaces \/ Finalize

Spec == Init /\ [][Next]_vars

-----------------------------------------------------------------------------
(* What must hold. *)

\* Chunk c is ahead of chunk d in a ranking.
Ahead(c, d, ranking) ==
  \E i \in DOMAIN ranking : ranking[i] = c /\ \A j \in 1..i : ranking[j] # d

\* No search with a weight puts d ahead of c, and one of them puts c ahead of d.
Dominates(c, d) ==
  LET request == asked.request
  IN /\ request.semantic_weight > 0 => ~Ahead(d, c, reply.semantic)
     /\ request.keyword_weight > 0 => ~Ahead(d, c, reply.keyword)
     /\ \/ request.semantic_weight > 0 /\ Ahead(c, d, reply.semantic)
        \/ request.keyword_weight > 0 /\ Ahead(c, d, reply.keyword)

\* A search of one's own documents finds no others; no chunk is there twice; none
\* that was found is missing while there is room; and without a reranker none is
\* passed over for a chunk that both searches put below it.
SearchIsSound ==
  asked # None /\ asked.tool = "search" =>
    LET found == ToSet(reply.semantic) \union ToSet(reply.keyword)
        given == ToSet(answer)
    IN /\ asked.request.mine => \A c \in given : c.owner = Asker
       /\ Cardinality(given) = Len(answer)
       /\ Len(answer) <= asked.request.top_k
       /\ Len(answer) < asked.request.top_k => given = found
       /\ ~asked.request.rerank =>
            \A c \in found, d \in given : Dominates(c, d) => Ahead(c, d, answer)

\* What costs the user every hotel: one price that is no number, or one rating that
\* is none, of a hotel within its share or of the first one that is not.
HotelsAreSpoilt(request) ==
  LET found == reply.hotels
      Within(i) == WithinShare(found[i].price * request.days, request.budget)
  IN \/ Unpriced(found)
     \/ \E i \in DOMAIN found :
          /\ found[i].rating = Misfit
          /\ Within(i) \/ \A j \in 1..i - 1 : Within(j)

\* The cheapest hotel and the cheapest transport that were found are offered,
\* unless they are beyond their share of the budget, or what the LLM says of some
\* option cannot be used.
CheapestIsOffered(request) ==
  LET Cheapest(o, found) == \A p \in ToSet(found) : o.price <= p.price
  IN /\ \A h \in ToSet(reply.hotels) :
          /\ ~HotelsAreSpoilt(request)
          /\ Cheapest(h, reply.hotels)
          /\ WithinShare(h.price * request.days, request.budget)
          => \E o \in ToSet(answer.hotels) : o.price = h.price
     /\ \A t \in ToSet(reply.transport) :
          /\ \A o \in ToSet(reply.transport) :
               WithinShare(o.price, request.budget) => o.type # Misfit
          /\ Cheapest(t, reply.transport)
          /\ WithinShare(t.price, request.budget)
          => \E o \in ToSet(answer.transport) : o.price = t.price

\* The user is offered at most one hotel beyond its share, and transport that
\* needs an approval only when there is no other; an approval is asked for only
\* when the shares cannot be kept.
DearIsException(request) ==
  /\ Cardinality({i \in DOMAIN answer.hotels :
        ~WithinShare(answer.hotels[i].price * request.days, request.budget)}) <= 1
  /\ \A t \in ToSet(answer.transport) :
       IsDear(t.price, request.budget) =>
         \A o \in ToSet(reply.transport) : ~WithinShare(o.price, request.budget)
  /\ answer.approval =>
       \/ /\ ~Unpriced(reply.hotels)
          /\ \E h \in ToSet(reply.hotels) : ~WithinShare(h.price * request.days, request.budget)
       \/ \A t \in ToSet(reply.transport) : ~WithinShare(t.price, request.budget)

\* However the options are filtered, sorted and picked from, the choice offered
\* is one the budget was made for.
OffersAreFair ==
  asked # None /\ asked.tool = "booking" =>
    CheapestIsOffered(asked.request) /\ DearIsException(asked.request)

\* The failure of some queries costs no more than their own results, nothing is
\* told twice; a forecast has each of the first days once: all of them, as long
\* as the service's 40 intervals reach; and there are places to see unless the
\* service itself knows of none, all from one source and all of them named.
LookupsDegrade ==
  /\ asked # None /\ asked.tool = "web" =>
       LET told == {t.key : t \in ToSet(answer)}
           replies == IF answer = <<>> \/ reply.duckduckgo # Unconfigured
                      THEN reply.duckduckgo ELSE reply.tavily
           keys == UNION {{t.key : t \in ToSet(r)} : r \in ToSet(replies) \ {Down}}
       IN /\ Cardinality(told) = Len(answer)
          /\ told \subseteq keys
          /\ Len(answer) < WebLimit => told = keys
  /\ asked # None /\ asked.tool = "weather" =>
       /\ \A i \in DOMAIN answer : answer[i] = i - 1
       /\ Len(answer) <= asked.days
       /\ reply.service # "works" \/ asked.days <= 5 => Len(answer) = asked.days
  /\ asked # None /\ asked.tool = "places" =>
       /\ answer = <<>> => reply.service = <<>>
       /\ Nameless \notin ToSet(answer)
       /\ \E source \in {reply.service, asked.curated.named, DefaultPlaces}
                        \union ToSet(asked.curated.alike) :
            /\ source \notin {Down, Unconfigured}
            /\ IsPrefix(answer, source)
            /\ Len(answer) < PlaceLimit => answer = source

\* An answer that can be cut off anywhere, or be of another form than it should:
\* only a text in the place of a day makes the finalizer raise, and not when the rest
\* of the array cannot be read, nor when it comes after all the days.  Otherwise its
\* days are told once and in their order; a day that it tells of to the end, under its
\* heading, is lost only to a trip that has no room for it; and an answer that gives
\* no days is shown as it is.
AnswerIsSalvaged ==
  asked # None /\ asked.tool = "finalizer" =>
    LET whole == IF reply.cut = "flat" THEN Front(reply.days) ELSE reply.days
        told == ToSet(answer.days)
    IN IF answer.raised
       THEN /\ reply.form = "array" /\ reply.cut # "nested"
            /\ \E i \in DOMAIN whole :
                 /\ whole[i] \in reply.loose
                 /\ reply.cut # "no" => \E j \in DOMAIN whole : i < j /\ whole[j] \notin reply.loose
       ELSE /\ \E at \in [DOMAIN answer.days -> DOMAIN reply.days] :
                 /\ \A i \in DOMAIN at : answer.days[i] = reply.days[at[i]]
                 /\ \A i, j \in DOMAIN at : i < j => at[i] < at[j]
            /\ \A n \in (ToSet(whole) \ reply.loose) \intersect reply.headed :
                 n \notin told => Len(answer.days) = asked.days
            /\ told = {} =>
                 answer.summary = IF reply.form = "empty" THEN "placeholder" ELSE "answer"
=============================================================================
