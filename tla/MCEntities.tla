----------------------------- MODULE MCEntities -----------------------------
(***************************************************************************)
(* The entities that TLC looks at together, because they share nothing but *)
(* their link to the device: `scene' says which of them a behaviour is     *)
(* about, and the others rest in their initial state.                      *)
(*   sensor    one sensor, of each kind that sensor_descriptions.py has    *)
(*   controls  numbers and switches, two users                             *)
(*   radio     the media player, two users                                 *)
(*   place     the weather's location, one user, no forecast subscribers   *)
(*   forecast  the forecast and its subscribers, who are two users         *)
(*   memories  the temperature memories, one user                          *)
(***************************************************************************)
EXTENDS SensorView, Controls, RadioPlayer, WeatherViews, MemorySlots

CONSTANTS u1, u2

Live    == {"initial", "filtered"}                      \* water flow, power
Plain   == {"initial"}                                  \* nominal power
Total   == {"initial", "keep", "bare", "guarded"}       \* ids 29 and 30
Saving  == {"initial", "bare", "guarded"}               \* ids 63 and 64
Runtime == {"bare", "default", "guarded"}               \* wellness runtime
Week    == {"app", "keep", "filtered"}                  \* weekly consumption

MCKinds == {Live, Plain, Total, Saving, Runtime, Week}

MCUsers == {u1, u2}
Symmetry == Permutations(MCUsers)

\* Two stations of one name, of which the second may be no favourite.
MCLabel == [s \in {"fm", "web"} |-> "one"]
MCFavorites == {<<"fm">>, <<"fm", "web">>}

\* Two places, the second of which is a favourite.
MCFavored == {{"away"}}

VARIABLE scene

Acting == {u \in Users : job[u] = Unbegun}

MCInit ==
  /\ scene \in {"sensor", "controls", "radio", "place", "forecast", "memories"}
  /\ LinkInit /\ Acting = CASE scene \in {"controls", "radio"}  -> Users
                           [] scene \in {"place", "memories"}  -> {u1}
                           [] scene \in {"sensor", "forecast"} -> {}
  /\ Init /\ (scene # "sensor" => kind = Live)
  /\ ControlsInit
  /\ scene # "controls" =>
        group = "bath" /\ \A i \in Fields : unit[i] = 1 /\ \A c \in Controls : shown[c].value = Nil
  /\ RadioInit /\ tuner = [play |-> FALSE, station |-> "fm", favorites |-> <<"fm">>]
  /\ player.state \in {Nil, "playing"} /\ (scene # "radio" => player.state = Nil)
  /\ WeatherInit /\ station.location = "home" /\ station.forecast = 1
  /\ SlotsInit
  /\ \A s \in SlotIds : memory[s] \in {Nil, [temp |-> 1, name |-> "bath"]} /\ texts[s].value = Nil
  /\ scene # "memories" => \A s \in SlotIds : memory[s] = Nil

\* What each part has apart from the link.
controlsOwn == <<group, unit, known, shown, said>>
radioOwn == <<tuner, radio, player, historyVars>>
weatherOwn == <<station, weather, choice, outlook, forecastVars>>
slotsOwn == <<memory, cached, fullList, slotViews, touched>>

MCNext ==
  /\ \/ scene = "sensor" /\ Next /\ UNCHANGED <<linkVars, controlsOwn, radioOwn, weatherOwn, slotsOwn>>
     \/ scene = "controls" /\ ControlsNext /\ UNCHANGED <<vars, radioOwn, weatherOwn, slotsOwn>>
     \/ scene = "radio" /\ RadioNext /\ UNCHANGED <<vars, controlsOwn, weatherOwn, slotsOwn>>
     \/ /\ scene \in {"place", "forecast"} /\ WeatherNext /\ (scene = "place" => count' = 0)
        /\ UNCHANGED <<vars, controlsOwn, radioOwn, slotsOwn>>
     \/ scene = "memories" /\ MemoryNext /\ UNCHANGED <<vars, controlsOwn, radioOwn, weatherOwn>>
  /\ UNCHANGED scene

MCSpec ==
  MCInit /\ [][MCNext]_<<vars, controlsOwn, radioOwn, weatherOwn, slotsOwn, linkVars, scene>>

=============================================================================
