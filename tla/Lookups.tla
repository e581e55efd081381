------------------------------ MODULE Lookups ------------------------------
(***************************************************************************)
(* What the research node looks up outside: the web                        *)
(* (agents/tools/web_search.py), the weather (agents/tools/weather.py) and *)
(* places to see (agents/tools/places.py).  Each falls back when a service *)
(* is not configured or fails.                                             *)
(***************************************************************************)
EXTENDS Integers, PythonLists

CONSTANTS
  Down,               \* a query or a service that failed
  Unconfigured,       \* a service there is no API key for
  Nameless,           \* a place without a name or a type
  DefaultPlaces       \* _DEFAULT_PLACES

-----------------------------------------------------------------------------
\* search_web.  The replies of an engine are those of its three queries, each a
\* sequence of texts or Down.  A text has a key, its first 50 characters.

Gathered(replies) ==
  FlattenSeq([q \in DOMAIN replies |-> IF replies[q] = Down THEN <<>> ELSE replies[q]])

\* MUTANT of Found: one query that fails loses the results of the others.
FoundIfAllAnswer(replies, limit) ==
  IF Down \in ToSet(replies) THEN <<>>
  ELSE FirstOf(FirstOfEach(Gathered(replies), LAMBDA t : t.key), limit)

\* _search_tavily and _search_duckduckgo
Found(replies, limit) ==
  FirstOf(FirstOfEach(Gathered(replies), LAMBDA t : t.key), limit)

\* Tavily without a result, or without a key, hands over to DuckDuckGo.
HandsOver(tavily, limit) ==
  IF tavily = Unconfigured THEN TRUE ELSE Found(tavily, limit) = <<>>

WebText(tavily, duckduckgo, limit) ==
  IF HandsOver(tavily, limit) THEN Found(duckduckgo, limit) ELSE Found(tavily, limit)

-----------------------------------------------------------------------------
\* get_weather_forecast.  Dates are numbered from today.

\* The API has eight intervals a day, the first of them in the given slot of
\* today, and gives 40 at most.
Intervals(days) == IF days * 8 < 40 THEN days * 8 ELSE 40

IntervalDates(days, slot) == [i \in 1..Intervals(days) |-> (slot + i - 1) \div 8]

\* _mock_weather, when the service cannot be used
MockDates(days) == [i \in 1..days |-> i - 1]

\* _parse_forecasts: the forecast of a date is its first interval's.
ParsedDates(days, slot) ==
  FirstOf(FirstOfEach(IntervalDates(days, slot), LAMBDA date : date), days)

ForecastDates(service, days, slot) ==
  IF service \in {Unconfigured, Down} THEN MockDates(days) ELSE ParsedDates(days, slot)

-----------------------------------------------------------------------------
\* search_places.  What is curated for a destination: the list under its very
\* name, if there is one, and those under the names that are part of its name or
\* that its name is part of, in the order of _MOCK_PLACES.

MockPlaces(curated, limit) ==
  FirstOf(CASE curated.named # <<>> -> curated.named
            [] curated.named = <<>> /\ curated.alike # <<>> -> Head(curated.alike)
            [] OTHER -> DefaultPlaces,
          limit)

\* _search_google_places raises on a status that is an error, and on a place that
\* is not what it expects; it is content with no results.
PlacesRead(service, limit) ==
  IF service = Down THEN Down
  ELSE IF Nameless \in ToSet(FirstOf(service, limit)) THEN Down
  ELSE FirstOf(service, limit)

PlacesFound(service, curated, limit) ==
  IF service = Unconfigured THEN MockPlaces(curated, limit)
  ELSE IF PlacesRead(service, limit) = Down THEN MockPlaces(curated, limit)
  ELSE PlacesRead(service, limit)
=============================================================================
