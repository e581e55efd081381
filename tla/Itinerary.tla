----------------------------- MODULE Itinerary -----------------------------
(***************************************************************************)
(* What the finalizer makes of the model's answer                          *)
(* (agents/final_itinerary_agent.py).  The answer is meant to be a JSON    *)
(* array of days, and may be wrapped in prose, cut off at the token limit, *)
(* or something else.                                                      *)
(***************************************************************************)
EXTENDS Integers, PythonLists

CONSTANT
  Unparsed            \* no array can be read from the answer

\* An answer is
\*   form    "array", "object" (an array inside an object), "markdown" or "empty";
\*   cut     "no", or what comes after the last complete element of an array: "prose",
\*           or its last element, cut off: "flat", where no object in it is complete,
\*           or "nested", after one that is;
\*   days    the numbers of the days it tells of, the one that is cut off included;
\*   loose   those of an array that are a text, where there should be an object;
\*   headed  those with a heading "Day n:".
\* Its texts hold no brackets and no braces.

\* The objects of an array that are complete.
Objects(text) ==
  {i \in DOMAIN text.days : /\ text.days[i] \notin text.loose
                            /\ text.cut = "flat" => i < Len(text.days)}

\* The repair keeps everything up to the last brace that closes.
Repaired(text) == Picked(text.days, {i \in DOMAIN text.days : \E j \in Objects(text) : i <= j})

\* MUTANT of ParsedDays: what cannot be repaired counts as an array without days.
ParsedDaysOrNone(text) ==
  CASE text.form = "array" /\ text.cut = "no" -> text.days
    [] text.form = "array" /\ text.cut \in {"prose", "flat"} -> Repaired(text)
    [] OTHER -> <<>>

\* _extract_json_array, and json.loads.  After the last brace the repair closes all
\* brackets before all braces: right only if nothing but the array is open there.
\* What comes before an array falls away, and an object is not an array.
ParsedDays(text) ==
  CASE text.form = "array" /\ text.cut = "no" -> text.days
    [] text.form = "array" /\ text.cut \in {"prose", "flat"} /\ Objects(text) # {} ->
         Repaired(text)
    [] OTHER -> Unparsed

\* An element that is no object has no items(), which is not among the errors that
\* _generate_itinerary catches: the finalizer raises, and the answer is lost.
ItemsRaise(text) ==
  ParsedDays(text) # Unparsed /\ ToSet(ParsedDays(text)) \intersect text.loose # {}

\* _extract_days_from_markdown, which also finds the headings inside JSON.
HeadedDays(text, days) ==
  FirstOf(Kept(text.days, LAMBDA n : n \in text.headed), days)

\* _generate_itinerary
DaysPlanned(text, days) ==
  IF ParsedDays(text) = Unparsed THEN HeadedDays(text, days) ELSE ParsedDays(text)

\* _generate_summary: a sentence about the itinerary, the answer as it is, or a
\* sentence that stands for both.
Summary(text, days) ==
  IF DaysPlanned(text, days) # <<>> THEN "sentence"
  ELSE IF text.form = "empty" THEN "placeholder"
  ELSE "answer"
=============================================================================
