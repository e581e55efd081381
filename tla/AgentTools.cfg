CONSTANTS
  u1 = u1
  u2 = u2
  None = None
  Failed = Failed
  Down = Down
  Unconfigured = Unconfigured
  Misfit = Misfit
  Destination = Destination
  Asker = u1
  Oversampling = 2
  Corpora <- MCCorpora
  SearchRequests <- MCSearchRequests
  BookingRequests <- MCBookingRequests
  Routes <- MCRoutes
  HotelPercents = {130}
  HotelReplies <- MCHotelReplies
  TransportReplies <- MCTransportReplies
  WebReplies <- MCWebReplies
  WebLimit = 2
  Nameless = Nameless
  DefaultPlaces <- MCDefaultPlaces
  PlaceReplies <- MCPlaceReplies
  Curations <- MCCurations
  PlaceLimit = 2
  Unparsed = Unparsed
  ModelAnswers <- MCModelAnswers
  TripDays = {1, 2, 3}
  Days = {1, 3, 5, 6, 7, 15}
SPECIFICATION Spec
CHECK_DEADLOCK FALSE
INVARIANTS SearchIsSound OffersAreFair LookupsDegrade AnswerIsSalvaged
