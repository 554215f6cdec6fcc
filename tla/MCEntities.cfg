SPECIFICATION MCSpec
CONSTANTS
  Kinds <- MCKinds
  MaxReading = 3
  MinDelta = 2
  Interval = 2
  Window = 2
  MaxAsked = 2
  u1 = u1
  u2 = u2
  Users <- MCUsers
  Groups = {"wellness", "timer", "bath"}
  Amounts = {1, 2}
  DefaultMinutes = 1
  MaxUnheard = 1
  MaxTwists = 1
  Nil = Nil
  Stations = {"fm", "web"}
  Label <- MCLabel
  Favorites <- MCFavorites
  MaxOptions = 2
  MaxSlot = 1
  Heats = {1, 2}
  Names = {"shower", "bath"}
  DefaultTemp = 1
  DefaultName = "shower"
  Locations = {"home", "away"}
  Favored <- MCFavored
  Forecasts = {1, 2}
  Subscribers <- MCUsers
SYMMETRY Symmetry
CHECK_DEADLOCK FALSE
INVARIANTS
  LagIsBounded
  ShownIsRead
  PlayerFollows
  ForecastIsDelivered
PROPERTIES
  ControlsFollow
  OtherHalfIsKept
