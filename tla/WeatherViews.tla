------------------------------ MODULE WeatherViews ------------------------------
(***************************************************************************)
(* The weather: what the client knows of it (client_runtime_media.py), the *)
(* select entity for the location (select.py) and the weather entity with  *)
(* its forecast (weather.py), to which users of Home Assistant subscribe.  *)
(*                                                                         *)
(* One background task at a time hands the forecast to the subscribers; a  *)
(* change while it runs is remembered and handed on afterwards.  Home      *)
(* Assistant's part (external): it lets the entity know of subscriptions,  *)
(* gives a new subscriber the forecast at once, and an update takes the    *)
(* forecast when it begins and delivers it when it ends, or fails.         *)
(*                                                                         *)
(* A forecast is a number, 0 when there is none; locations are names.      *)
(***************************************************************************)
EXTENDS DeviceLink, FiniteSets

CONSTANTS
  Locations,
  Favored,        \* the favourites the device may have
  Forecasts,
  Subscribers

ASSUME WeatherAssumption ==
  /\ Forecasts \subseteq Nat \ {0} /\ Favored \subseteq SUBSET Locations /\ Nil \notin Locations

VARIABLES
  station,     \* the device: its location and favourites
  weather,     \* _last_weather_state: location, forecast and favourites, or Nil
  choice,      \* the select entity
  outlook,     \* the weather entity
  update,      \* _forecast_listener_update_task and _..._pending
  subscribed,  \* who has subscribed to the daily forecast
  count,       \* _forecast_subscription_counts
  seen,        \* the forecast each subscriber has
  excused      \* history: since the forecast last changed, an update has failed
               \* or has been running with nobody subscribed

weatherVars == <<station, weather, choice, outlook, update, subscribed, count, seen, excused, linkVars>>
clientOnly == <<station, weather, linkVars>>
forecastVars == <<update, subscribed, count, seen, excused>>

Nowhere == [location |-> Nil, forecast |-> 0, favorites |-> Nil]
Fetched == [location : Locations, forecast : Forecasts, favorites : Favored]

-----------------------------------------------------------------------------
\* The select entity.

\* _apply_weather_state: the favourites and the current location.
Chosen(w) ==
  LET own == IF w.favorites = Nil THEN {} ELSE w.favorites
      options == own \cup ({w.location} \ {Nil})
  IN [options |-> options, current |-> w.location, have |-> options # {},
      available |-> live /\ options # {}]

-----------------------------------------------------------------------------
\* The weather entity.

\* _apply_weather_state, _reset_weather_state
Forecasting(w) ==
  IF w.location = Nil THEN [forecast |-> 0, have |-> FALSE, available |-> FALSE]
  ELSE [forecast |-> w.forecast, have |-> TRUE, available |-> live]

\* _schedule_forecast_listener_update: "done" is a task that has ended without
\* having been cleared; its callback is then still to come.
\* Mutant: the changes are dropped as long as an update is under way.
ForgetfulSchedule(up) ==
  IF count = 0 THEN [up EXCEPT !.pending = FALSE]
  ELSE IF up.task \in {"new", "reading"} THEN up
  ELSE [up EXCEPT !.pending = FALSE, !.task = "new", !.late = @ \/ up.task = "done"]
Schedule(up) ==
  IF count = 0 THEN [up EXCEPT !.pending = FALSE]
  ELSE IF up.task \in {"new", "reading"} THEN [up EXCEPT !.pending = TRUE]
  ELSE [up EXCEPT !.pending = FALSE, !.task = "new", !.late = @ \/ up.task = "done"]

\* _handle_weather_update, and the same of the select entity.
Shows(w) ==
  /\ choice' = Chosen(w) /\ outlook' = Forecasting(w)
  /\ IF outlook'.forecast # outlook.forecast
     THEN update' = Schedule(update) /\ excused' = (count = 0 /\ update.task = "reading")
     ELSE UNCHANGED <<update, excused>>

\* _handle_availability_update of both
WeatherLive(now) ==
  /\ choice' = [choice EXCEPT !.available = now /\ choice.have]
  /\ outlook' = [outlook EXCEPT !.available = now /\ outlook.have]

WeatherInit ==
  /\ LinkInit
  /\ station \in Fetched
  /\ weather = Nowhere /\ choice = Chosen(Nowhere) /\ outlook = Forecasting(Nowhere)
  /\ update = [task |-> "none", got |-> 0, pending |-> FALSE, late |-> FALSE]
  /\ subscribed = {} /\ count = 0 /\ seen = [s \in Subscribers |-> 0] /\ excused = FALSE

-----------------------------------------------------------------------------
\* The device.

Here == [location |-> station.location, forecast |-> station.forecast]

FetchWeather ==
  /\ Opens(<<Here, [favorites |-> station.favorites]>>)
  /\ UNCHANGED <<station, weather, choice, outlook, forecastVars>>

WeatherProved ==
  /\ Proves
  /\ IF live THEN UNCHANGED <<choice, outlook>> ELSE WeatherLive(TRUE)
  /\ UNCHANGED <<station, weather, forecastVars>>

WeatherDrop == Drops /\ UNCHANGED <<station, weather, choice, outlook, forecastVars>>

WeatherGraceOver == Expires /\ WeatherLive(FALSE) /\ UNCHANGED <<station, weather, forecastVars>>

\* The weather changes, or somebody changes the settings at the device.
WeatherTurns ==
  /\ Twists
  /\ \E w \in Fetched \ {station} : station' = w
  /\ UNCHANGED <<weather, choice, outlook, forecastVars>>

\* It reports where it is and the forecast for it, its favourites, or that it
\* has no location to report.
WeatherSays ==
  /\ \/ Announces(Here)
     \/ Announces([favorites |-> station.favorites])
     \/ Announces([none |-> TRUE])
  /\ UNCHANGED <<station, weather, choice, outlook, forecastVars>>

\* _handle_weather_value: without a location everything is forgotten, and a
\* location keeps the favourites.
Weather(r) ==
  IF "none" \in DOMAIN r THEN Nowhere
  ELSE [i \in DOMAIN Nowhere |-> IF i \in DOMAIN r THEN r[i] ELSE weather[i]]

\* _set_weather_state: the entities hear only of what is new.
WeatherHeard ==
  /\ reports # <<>> /\ reports' = Tail(reports)
  /\ weather' = Weather(Head(reports))
  /\ IF weather' = weather THEN UNCHANGED <<choice, outlook, update, excused>> ELSE Shows(weather')
  /\ job' = [u \in Users |-> IF job[u].pc = "wait" /\ weather'.location = job[u].to
                             THEN [job[u] EXCEPT !.pc = "confirmed"] ELSE job[u]]
  /\ UNCHANGED <<station, subscribed, count, seen, link, live, line, twists>>

-----------------------------------------------------------------------------
\* async_select_option, select_weather_location

Chooses(u) ==
  /\ live /\ \E l \in choice.options : Orders(u, [to |-> l])
  /\ UNCHANGED <<station, weather, choice, outlook, forecastVars>>

\* The device goes there and says so, or takes no notice.
Asks(u) ==
  /\ job[u].pc = "ready" /\ Usable
  /\ Goes(u, IF weather.location = job[u].to THEN "confirmed" ELSE "wait")
  /\ \/ UNCHANGED <<station, reports>>
     \/ /\ Len(reports) < MaxUnheard
        /\ station' = [station EXCEPT !.location = job[u].to]
        /\ reports' = Append(reports, [Here EXCEPT !.location = job[u].to])
  /\ UNCHANGED <<link, live, line, twists, weather, choice, outlook, forecastVars>>

Unanswered == {"ready", "wait", "lost"}

AsksAgain(u) == Repeats(u, Unanswered) /\ UNCHANGED <<station, weather, choice, outlook, forecastVars>>

\* The select entity shows what the client knows, whatever it was before.
ChoiceFails(u) ==
  /\ Fails(u, Unanswered) /\ Ends(u)
  /\ choice' = [choice EXCEPT !.available = live /\ choice.have]
  /\ UNCHANGED <<station, weather, outlook, forecastVars>>

ChoiceEnds(u) ==
  /\ job[u].pc = "confirmed" /\ Ends(u)
  /\ choice' = Chosen(weather)
  /\ UNCHANGED <<station, weather, outlook, forecastVars>>

-----------------------------------------------------------------------------
\* Forecast subscriptions.

\* _async_subscription_started
Subscribe(s) ==
  /\ s \notin subscribed
  /\ subscribed' = subscribed \cup {s} /\ count' = count + 1
  /\ seen' = [seen EXCEPT ![s] = outlook.forecast]
  /\ UNCHANGED <<clientOnly, choice, outlook, update, excused>>

\* _async_subscription_ended
Unsubscribe(s) ==
  /\ s \in subscribed /\ subscribed' = subscribed \ {s} /\ seen' = [seen EXCEPT ![s] = 0]
  /\ IF count > 1 THEN count' = count - 1 /\ UNCHANGED <<update, excused>>
     ELSE /\ count' = 0 /\ update' = [update EXCEPT !.pending = FALSE]
          /\ excused' = (excused \/ update.task = "reading")
  /\ UNCHANGED <<clientOnly, choice, outlook>>

\* async_update_listeners (external) begins and takes the forecast.
UpdateReads ==
  /\ update.task = "new"
  /\ update' = [update EXCEPT !.task = "reading", !.got = outlook.forecast]
  /\ UNCHANGED <<clientOnly, choice, outlook, subscribed, count, seen, excused>>

\* It delivers the forecast to whoever is subscribed by then, or fails.
UpdateEnds ==
  /\ update.task = "reading"
  /\ update' = [update EXCEPT !.task = "done", !.got = 0]
  /\ \/ seen' = [s \in Subscribers |-> IF s \in subscribed THEN update.got ELSE seen[s]]
        /\ UNCHANGED excused
     \/ UNCHANGED seen /\ excused' = TRUE
  /\ UNCHANGED <<clientOnly, choice, outlook, subscribed, count>>

\* _handle_forecast_listener_update_done, of this task or of an older one.
UpdateDone ==
  /\ update.task = "done" \/ update.late
  /\ LET cleared == [update EXCEPT !.late = FALSE, !.task = IF @ = "done" THEN "none" ELSE @]
     IN update' = IF update.pending THEN Schedule([cleared EXCEPT !.pending = FALSE]) ELSE cleared
  /\ UNCHANGED <<clientOnly, choice, outlook, subscribed, count, seen, excused>>

WeatherNext ==
  \/ FetchWeather \/ WeatherProved \/ WeatherDrop \/ WeatherGraceOver
  \/ WeatherTurns \/ WeatherSays \/ WeatherHeard
  \/ \E u \in Users : Chooses(u) \/ Asks(u) \/ AsksAgain(u) \/ ChoiceFails(u) \/ ChoiceEnds(u)
  \/ \E s \in Subscribers : Subscribe(s) \/ Unsubscribe(s)
  \/ UpdateReads \/ UpdateEnds \/ UpdateDone

WeatherSpec == WeatherInit /\ [][WeatherNext]_weatherVars

-----------------------------------------------------------------------------
\* Once no update is under way or pending, every subscriber has the forecast
\* that the client knows; unless, since it changed, an update has failed or has
\* for a while been running with nobody subscribed (weather.py:111, 161, 184).
ForecastIsDelivered ==
  /\ outlook.forecast = weather.forecast
  /\ update.task = "none" /\ ~update.pending /\ ~excused =>
        \A s \in subscribed : seen[s] = weather.forecast

=============================================================================
