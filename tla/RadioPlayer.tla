------------------------------ MODULE RadioPlayer ------------------------------
(***************************************************************************)
(* The radio: what the client knows of it (client_runtime_media.py), the   *)
(* commands (client_radio_commands.py) and the media player that shows it  *)
(* (media_player.py, radio_mapping.py).                                    *)
(*                                                                         *)
(* The device has no "off": that the player is off rather than paused is   *)
(* something only the entity knows.  And it shows a selected station as    *)
(* playing before the device has said so.  Reports that tell the client    *)
(* nothing new do not reach the entity.                                    *)
(*                                                                         *)
(* Stations are names with a label; the volume, which is set as `play' is, *)
(* and the texts about a station are left out, but for being news now and  *)
(* then ("title").                                                         *)
(***************************************************************************)
EXTENDS DeviceLink, SequencesExt

CONSTANTS
  Stations,
  Label,        \* the name of each station
  Favorites,    \* lists of favourites the device may have
  MaxOptions    \* MAX_FALLBACK_SOURCE_OPTIONS

ASSUME RadioAssumption ==
  /\ DOMAIN Label = Stations /\ Favorites \subseteq Seq(Stations)
  /\ MaxOptions \in Nat \ {0}
  /\ Nil \notin Stations /\ Nil \notin BOOLEAN /\ Nil \notin {"off", "paused", "playing"}

VARIABLES
  tuner,     \* the device: play, station and favourites
  radio,     \* _last_radio_state; Nil before the first report of a field
  player,    \* the entity
  told,      \* history: what the device has last said of play and station
  assumed,   \* history: a command has set radio.play since
  picked,    \* history: a selection has ended since the entity last heard
  wish      \* history: "off" or "on", as was last asked for or reported

radioVars == <<tuner, radio, player, told, assumed, picked, wish, linkVars>>
historyVars == <<told, assumed, picked, wish>>

RadioFields == {"station", "play", "favorites"}

-----------------------------------------------------------------------------
\* radio_mapping.py

\* source_option_map: a name that several stations have is told apart.
Option(s, list) ==
  IF \E x \in ToSet(list) : x # s /\ Label[x] = Label[s] THEN <<Label[s], s>> ELSE <<Label[s]>>

\* _merge_current_station
Merged(list, s) ==
  LET others == SelectSeq(list, LAMBDA x : x # s)
      surplus == Len(others) - (MaxOptions - 1)
  IN Append(IF surplus > 0 THEN SubSeq(others, surplus + 1, Len(others)) ELSE others, s)

\* source_option_map_for_state
Sources(state, current) ==
  CASE state.favorites \notin {Nil, <<>>}                -> state.favorites
    [] state.favorites = <<>> /\ state.station # Nil     -> <<state.station>>
    [] state.favorites = <<>> /\ state.station = Nil     -> <<>>
    [] state.favorites = Nil /\ state.station # Nil      -> Merged(current, state.station)
    [] OTHER                                             -> current

\* source_for_station, source_for_state
Source(s, list, current) ==
  IF s # Nil THEN IF s \in ToSet(list) THEN Option(s, list) ELSE <<Label[s]>>
  ELSE IF \E x \in ToSet(list) : Option(x, list) = current THEN current
  ELSE IF list # <<>> THEN Option(list[1], list)
  ELSE Nil

-----------------------------------------------------------------------------
\* The entity.

\* _apply_playback_state
Playback(state, p) ==
  IF state.play = TRUE THEN [p EXCEPT !.off = FALSE, !.state = "playing"]
  ELSE IF state.play = FALSE
  THEN [p EXCEPT !.state = IF p.off \/ p.state \in {Nil, "off"} THEN "off" ELSE "paused"]
  ELSE [p EXCEPT !.state = IF @ = Nil THEN "off" ELSE @]

\* _apply_radio_state, _handle_radio_update
Applied(state, p) ==
  LET list == Sources(state, p.sources)
  IN [Playback(state, p) EXCEPT
        !.sources = list, !.source = Source(state.station, list, p.source),
        !.content = state.station, !.have = TRUE, !.available = live]

\* async_added_to_hass, with the playback state that was restored.
PlayerRestored(s) ==
  [state |-> s, off |-> s = "off", sources |-> <<>>, source |-> Nil, content |-> Nil,
   have |-> FALSE, available |-> FALSE]

\* _handle_availability_update
PlayerLive(now) == player' = [player EXCEPT !.available = now /\ player.have]

RadioInit ==
  /\ LinkInit
  /\ tuner \in [play : BOOLEAN, station : Stations, favorites : Favorites]
  /\ radio = [i \in RadioFields |-> Nil]
  /\ \E s \in {Nil, "off", "paused", "playing"} :
        player = PlayerRestored(s) /\ wish = IF s \in {Nil, "off"} THEN "off" ELSE "on"
  /\ told = [i \in {"station", "play"} |-> Nil] /\ assumed = FALSE /\ picked = FALSE

-----------------------------------------------------------------------------
\* The device.

\* The requests of a new session, in RADIO_STATE_FIELDS' order.
TuneIn ==
  /\ Opens(<<[station |-> tuner.station], [play |-> tuner.play], [favorites |-> tuner.favorites]>>)
  /\ UNCHANGED <<tuner, radio, player, historyVars>>

RadioProved ==
  /\ Proves
  /\ IF live THEN UNCHANGED player ELSE PlayerLive(TRUE)
  /\ UNCHANGED <<tuner, radio, historyVars>>

RadioDrop == Drops /\ UNCHANGED <<tuner, radio, player, historyVars>>

RadioGraceOver == Expires /\ PlayerLive(FALSE) /\ UNCHANGED <<tuner, radio, historyVars>>

\* Somebody uses the radio at the device.
Tune ==
  /\ Twists
  /\ \/ tuner' = [tuner EXCEPT !.play = ~@]
     \/ \E s \in Stations \ {tuner.station} : tuner' = [tuner EXCEPT !.station = s]
     \/ \E f \in Favorites \ {tuner.favorites} : tuner' = [tuner EXCEPT !.favorites = f]
  /\ UNCHANGED <<radio, player, historyVars>>

\* It reports a value that the client does not have, or again one it has said.
Tells(i) ==
  /\ i \in {"station", "play"} \/ radio[i] # tuner[i]
  /\ Announces([k \in {i} |-> tuner[k]])
  /\ UNCHANGED <<tuner, radio, player, historyVars>>

\* The title, say, changes.
TellsMore ==
  /\ Announces([title |-> TRUE])
  /\ UNCHANGED <<tuner, radio, player, historyVars>>

\* _handle_radio_value, _handle_radio_favorites_value: the entity hears only of
\* what is new.
Knows(r) ==
  LET new == [i \in RadioFields |-> IF i \in DOMAIN r THEN r[i] ELSE radio[i]]
  IN /\ radio' = new
     /\ player' = IF new # radio \/ "title" \in DOMAIN r THEN Applied(new, player) ELSE player

RadioHeard ==
  /\ reports # <<>>
  /\ LET r == Head(reports)
     IN /\ Knows(r)
        /\ told' = [i \in DOMAIN told |-> IF i \in DOMAIN r THEN r[i] ELSE told[i]]
        /\ assumed' = (assumed /\ "play" \notin DOMAIN r)
        /\ picked' = (picked /\ player' = player)
        /\ wish' = IF "play" \in DOMAIN r /\ r.play = TRUE THEN "on" ELSE wish
  /\ reports' = Tail(reports)
  /\ job' = [u \in Users |->
                IF job[u].pc = "wait" /\ radio'.station = job[u].station
                THEN [job[u] EXCEPT !.pc = "sent"] ELSE job[u]]
  /\ UNCHANGED <<tuner, link, live, line, twists>>

-----------------------------------------------------------------------------
\* Commands.

\* _current_source_index, 0 for none
CurrentIndex ==
  LET same == {k \in DOMAIN player.sources : Option(player.sources[k], player.sources) = player.source}
      tuned == {k \in DOMAIN player.sources : player.sources[k] = player.content}
      ks == IF same # {} THEN same ELSE tuned
  IN IF ks = {} THEN 0 ELSE CHOOSE k \in ks : \A x \in ks : k <= x

\* async_media_play, async_media_pause, async_turn_off; async_select_source;
\* async_media_next_track, async_media_previous_track: what to do, and what to
\* show for it (a playback state or a source), is decided when the command is
\* given.
Selects(u, k) ==
  /\ k \in DOMAIN player.sources
  /\ Orders(u, [op |-> "select", play |-> Nil, station |-> player.sources[k],
                shows |-> Option(player.sources[k], player.sources)])

Listen(u) ==
  /\ live
  /\ \/ \E s \in {"playing", "paused", "off"} :
           Orders(u, [op |-> "play", play |-> s = "playing", station |-> Nil, shows |-> <<s>>])
     \/ \E k \in 1 .. MaxOptions : Selects(u, k)
     \/ LET n == Len(player.sources)
        IN n > 0 /\ \/ Selects(u, IF CurrentIndex = 0 THEN 1 ELSE (CurrentIndex % n) + 1)
                    \/ Selects(u, IF CurrentIndex \in {0, 1} THEN n ELSE CurrentIndex - 1)
  /\ UNCHANGED <<tuner, radio, player, historyVars>>

\* The packet is sent; the device does as told or ignores it.  A selection
\* waits for the station, unless the device has reported it already.
Sends(u) ==
  /\ job[u].pc = "ready" /\ Usable
  /\ Goes(u, IF job[u].op = "select" /\ radio.station # job[u].station THEN "wait" ELSE "sent")
  /\ \/ UNCHANGED tuner
     \/ tuner' = IF job[u].op = "play" THEN [tuner EXCEPT !.play = job[u].play]
                 ELSE [tuner EXCEPT !.station = job[u].station]
  /\ UNCHANGED <<link, live, reports, line, twists, radio, player, historyVars>>

\* Sending fails, or seems to: the device may have got it.
Sending == {"ready", "sent", "wait", "lost"}

SendAgain(u) == Repeats(u, Sending) /\ UNCHANGED <<tuner, radio, player, historyVars>>

GivesUp(u) == Fails(u, Sending) /\ Ends(u) /\ UNCHANGED <<tuner, radio, player, historyVars>>

\* What the client makes of a command it has sent: set_radio_play.
\* Mutant: the client waits for the device to report it.
WaryAssumption(u) == radio
Assumption(u) == [radio EXCEPT !.play = job[u].play]

\* set_radio_play, _set_playing
Played(u) ==
  /\ job[u].pc = "sent" /\ job[u].op = "play" /\ Ends(u)
  /\ radio' = Assumption(u)
  /\ player' = [IF radio' # radio THEN Applied(radio', player) ELSE player EXCEPT
                  !.off = job[u].shows = <<"off">>, !.state = job[u].shows[1], !.available = TRUE]
  /\ assumed' = TRUE /\ wish' = IF job[u].shows = <<"off">> THEN "off" ELSE "on"
  /\ UNCHANGED <<tuner, told, picked>>

\* async_select_source, also when no answer has come.
Selected(u) ==
  /\ job[u].pc \in {"sent", "wait", "lost"} /\ job[u].op = "select" /\ Ends(u)
  /\ player' = [player EXCEPT !.source = job[u].shows, !.off = FALSE, !.state = "playing",
                              !.available = TRUE]
  /\ picked' = TRUE /\ wish' = "on"
  /\ UNCHANGED <<tuner, radio, told, assumed>>

RadioNext ==
  \/ TuneIn \/ RadioProved \/ RadioDrop \/ RadioGraceOver \/ Tune \/ TellsMore \/ RadioHeard
  \/ \E i \in RadioFields : Tells(i)
  \/ \E u \in Users : Listen(u) \/ Sends(u) \/ SendAgain(u) \/ GivesUp(u) \/ Played(u) \/ Selected(u)

RadioSpec == RadioInit /\ [][RadioNext]_radioVars

-----------------------------------------------------------------------------
\* Properties.

\* The player shows playing exactly if the device's last word was that it plays,
\* and the station the device named last; only a command has it otherwise, until
\* the device speaks of it again or, after a selection, until anything new is
\* reported.  And it is off only if that was the last that anybody asked for
\* (client_runtime_media.py:128, media_player.py:311).
PlayerFollows ==
  /\ told.play # Nil /\ ~assumed /\ ~picked => (player.state = "playing") = told.play
  /\ told.station # Nil /\ ~picked =>
        player.source = Source(told.station, player.sources, Nil)
  /\ player.state = "off" => wish = "off"

=============================================================================
