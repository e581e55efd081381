------------------------------ MODULE Booking ------------------------------
(***************************************************************************)
(* What the booking node offers: the searches for hotels and transport     *)
(* (agents/tools/hotels.py, agents/tools/transport.py), which ask an LLM   *)
(* and fall back to lists of their own, the choice of three options each,  *)
(* and the question whether they need the user's approval                  *)
(* (agents/booking_agent.py).                                              *)
(*                                                                         *)
(* An LLM's reply is a sequence of options, or Failed: no call succeeded,  *)
(* or it is not JSON, or lacks a price.  What an option says need not be   *)
(* of the kind that is expected: a price or a rating may be a text, a      *)
(* rating may be null, a type may be a list.                               *)
(***************************************************************************)
EXTENDS Integers, PythonLists

CONSTANTS
  Failed,
  Misfit              \* a price or a rating that is not a number, or a type that
                      \* cannot be a key

\* 35% of the budget for transport, 35% of it for the hotel's nights, and half of
\* it before somebody is asked.
WithinShare(cost, budget) == 20 * cost <= 7 * budget
IsDear(cost, budget) == 2 * cost > budget

Unpriced(options) == \E o \in ToSet(options) : o.price = Misfit

-----------------------------------------------------------------------------
\* search_hotels

\* The built-in hotels, where prices are `percent` of those on the plains.
MockHotels(percent) ==
  LET Hotel(price, rating) == [price |-> (price * percent) \div 100, rating |-> rating]
  IN <<Hotel(500, 41), Hotel(1200, 39), Hotel(2500, 43), Hotel(4000, 45),
       Hotel(7500, 47)>>

\* _generate_llm_hotels, or else the built-in ones.
HotelsFound(reply, percent) ==
  IF reply = Failed THEN MockHotels(percent)
  ELSE IF Len(reply) < 3 THEN MockHotels(percent)
  ELSE FirstOf(reply, 5)

BetterValue(h, g) ==
  LET AtLeastOne(price) == IF price > 1 THEN price ELSE 1
  IN h.rating * AtLeastOne(g.price) > g.rating * AtLeastOne(h.price)

\* MUTANT of HotelsKept: every hotel beyond the share is kept.
HotelsKeptAll(found, request) == found

\* All hotels within the share, and the first one that is not.
HotelsKept(found, request) ==
  LET Within(h) == WithinShare(h.price * request.days, request.budget)
      Beyond(h) == ~Within(h)
  IN Kept(found, Within) \o FirstOf(Kept(found, Beyond), 1)

HotelsListed(found, request) == Sorted(HotelsKept(found, request), BetterValue)

Cheaper(o, p) == o.price < p.price

\* A price that cannot be compared with the share, and a rating of a hotel kept
\* that cannot be divided by a price, raise outside of search_hotels' try.
HotelsFail(found, request) ==
  Unpriced(found) \/ \E h \in ToSet(HotelsKept(found, request)) : h.rating = Misfit

\* _search_hotels_safe: the cheapest, the middle and the dearest, or none when the
\* search has raised.
HotelsOffered(found, request) ==
  IF HotelsFail(found, request) THEN <<>>
  ELSE LET listed == HotelsListed(found, request)
           byPrice == Sorted(listed, Cheaper)
       IN IF Len(listed) < 3 THEN listed
          ELSE <<byPrice[1], byPrice[Len(listed) \div 2 + 1], byPrice[Len(listed)]>>

-----------------------------------------------------------------------------
\* search_transport

\* The built-in options of a route; a route that is not known has trains only.
MockTransport(route) ==
  LET Option(type, price) == [type |-> type, price |-> price]
  IN <<Option("bus", 650), Option("bus", 900)>>
     \o (IF route.train THEN <<Option("train", 450), Option("train", 1200)>> ELSE <<>>)
     \o (IF route.flight THEN <<Option("flight", 4500)>> ELSE <<>>)

\* The LLM is asked for routes that are not known.  Here a price that cannot be
\* compared falls back like any other failure.
TransportFound(reply, route) ==
  IF route.known \/ reply = Failed THEN MockTransport(route)
  ELSE IF Len(reply) < 2 \/ Unpriced(reply) THEN MockTransport(route)
  ELSE reply

\* Nothing affordable leaves the first option, as it came.
TransportListed(found, request) ==
  LET affordable == Kept(found, LAMBDA t : WithinShare(t.price, request.budget))
  IN Sorted(IF affordable = <<>> THEN FirstOf(found, 1) ELSE affordable, Cheaper)

\* _search_transport_safe: by_type has the first, and so the cheapest, of each
\* type.  A type that cannot be a key of it raises, and nothing is offered.
TransportOffered(found, request) ==
  LET listed == TransportListed(found, request)
      byType == FirstOfEach(listed, LAMBDA t : t.type)
  IN IF Len(listed) >= 3 /\ (\E t \in ToSet(listed) : t.type = Misfit) THEN <<>>
     ELSE FirstOf(IF Len(byType) >= 3 THEN byType ELSE listed, 3)

-----------------------------------------------------------------------------
\* _check_approval_needed, which a resumed run skips
NeedsApproval(hotels, transport, request) ==
  /\ ~request.approved
  /\ \/ \E h \in ToSet(hotels) : IsDear(h.price * request.days, request.budget)
     \/ \E t \in ToSet(transport) : IsDear(t.price, request.budget)
=============================================================================
