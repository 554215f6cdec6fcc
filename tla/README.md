# TLA+ specifications of the Stiebel DHE Connect integration

This directory holds TLA+ models of `custom_components/stiebel_dhe_connect`, the
Home Assistant integration for Stiebel Eltron DHE Connect water heaters, the TLC
configurations that check them on small instances, and TLAPS proofs of
properties that hold for every instance.  Paths below are relative to
`src/custom_components/stiebel_dhe_connect/` unless they start with `src/`.

    tlc -workers 2 -config MCTokenStorage.cfg MCTokenStorage
    tlapm ConfigEntryProofs.tla

## 1. The system

The integration keeps one Engine.IO/Socket.IO session to the device, publishes
what it receives as entities, and sends commands on it.  All of it runs on one
asyncio event loop; only file operations run in executor threads.  "Concurrent"
therefore means: between two `await`s of one task any other task may run, a task
can be cancelled at an `await`, and the process can stop anywhere.  An action of
every module is the code between two awaits of one task.

### Inventory

| Component | State | Operations | Interacts with | Modelled by |
|---|---|---|---|---|
| Reconnect policy (`client_connection_supervisor.py`) | attempts, delay, times of connection and loss | mark connected / disconnected, delay, grace test | the client | `ConnectionSupervisor` |
| Session lifecycle (`client.py`, `client_transport.py`, `client_connection_state.py`, `client_command_runner.py`) | session, `_ready`, `_stopped`, availability, session-loop, heartbeat and grace tasks | start, stop, session loop, watchdog, forced reconnect, command retry, repair, reauth | policy, authentication, entities | `DHEClientSession` |
| Pairing and authentication (`client_transport_auth.py`, `client_pairing.py`) | pairing flags, tokens, failure counter | token request, handshake, confirmation, retry, pause | session loop, token storage | `PairingHandshake` |
| Token storage (`token_storage.py`) | entry token, generation, revision, markers, files | load, save, clear, migrate | entry, executor threads, setup, flows | `TokenStorage` |
| Value commands (`client_commands.py`, `client_runtime.py`) | command lock, pending write future, last values | write, wait for the readback, price with rollback | session, entities | `DHECommands` |
| Radio, weather and memory commands (`client_radio_commands.py` and others) | lists, generation counters | toggle favourites, search, set and delete memories | command lock, reports | `AppCommands` |
| Wellness, timer and bath controls (`client_wellness_timer_commands.py`, parts of `switch.py`, `number.py`) | last values, what a command makes the client assume | start and stop programs, set and reset timers, fill the bath | command lock, reports, availability | `Controls` |
| Radio player (`media_player.py`, `client_runtime_media.py`) | playback state, sources, "off" | play, pause, turn off, select a source, next, previous | command lock, reports | `RadioPlayer` |
| Weather (`weather.py`, `select.py`, `client_runtime_media.py`) | location, forecast, subscriptions, update task | choose a location, subscribe, deliver the forecast | command lock, reports, Home Assistant's subscribers | `WeatherViews` |
| Temperature memories (`client_temperature_memory_commands.py`, `number.py`, `text.py`, `button.py`) | list; number, name and button of each | set, rename, delete | command lock, reports | `MemorySlots` |
| Water-heating entities (`climate.py`, parts of `switch.py`, `number.py`) | shown values, remembered target | switch heating, set targets and limits | value commands, reports, availability | `WaterHeating` |
| Sensors (`sensor.py`, `client_runtime*.py`) | reading, written state, delayed write | report, zero readback, availability | client callbacks | `SensorView` |
| Discovery cache (`discovery_state.py`) | records, lock, writer, timer | record, load, deferred save, final flush | Zeroconf flows, scan, diagnostics | `DiscoveryCache` (implements `SnapshotStore`); what the records say and suppress: `DiscoveryPrompts` |
| Setup and reconfigure flows (`config_flow.py`) | flows in progress, entries | user setup, Zeroconf, reconfigure | entries, pairing, discovery cache | `SetupFlows`; the discovery cards: `DiscoveryPrompts` |
| Entry setup and unload (`__init__.py`) | runtime data, reload signature | set up, retry, unload, reload, remove | client, entry, issues | `EntryRepairs` |
| Repair issues (`repair_issues.py`, `repairs.py`) | issues, active issue | create, replace, delete, repair flow | client diagnostics, entry | `EntryRepairs` |
| Runtime events, wire format, diagnostics (`client_runtime_app.py`, `*_mapping.py`, `protocol.py`, ...) | parsed values | one handler per event | entities, futures | in part, as events of the modules above |
| Subnet scan and forms (`setup_scan.py`, `config_flow_*.py`) | scan task, candidates, form data | scan, choose, options | flows, discovery cache | – |
| Other entities and services (`binary_sensor.py`, `services.py`, the remaining buttons) | views of client state | read, call commands | client | – |
| Release scripts | – | – | – | – |

### Where it is hard, and what must hold

* **One session, four tasks that may replace it.**  The session loop, the
  heartbeat of the websocket, a command that timed out, and stop/repair/reauth
  each drop or replace the session while another of them is suspended with an
  old reference.  No websocket or heartbeat may be left behind; "ready" must
  agree with what the supervisor thinks; unloading must release everything and
  must return; an outage must be shown after the grace window and not before.
* **Backoff.**  A device that connects and drops at once must not reset the
  backoff; further failures in an outage must not restart the grace window.
* **Token resets against migrations.**  A migration reads a token from a file
  in a thread, a reset revokes tokens, pairing saves a new one, a task may be
  cancelled with its thread still running, the process may crash.  A revoked
  token may never come back, a new one may not be swept away by an older reset,
  and a crash may not lose the pairing.
* **Pairing beside a running session loop.**  The device may confirm, reject, ask
  again or stay silent in any order, a repair may discard the token while the
  loop authenticates with it, and failures of an old attempt arrive late.  No
  session may be established without a confirmation that still stands, a
  discarded token may not be used, and the loop may give up only after the
  failures it is allowed, and must notice a repair.
* **Confirmation by readback.**  A write is confirmed by a report of its value,
  which may be an older one; a retry repeats a write that was done; a price is
  two writes with a rollback.  The lock must come back, a future must belong to
  who waits for it, and a price command that ends must leave a whole price.
* **Toggles and lists.**  The device adds and removes a favourite by the same
  command and creates a memory for every write without an id; the answer is
  recognised by a counter that any list advances.  What must happen once may not
  be repeated, and what is reported as done must have been done.
* **Entities between report and command.**  A command of several writes may be
  overtaken by reports, other commands, an outage; a filtered sensor writes late;
  a zero readback is no value; the two halves of a memory are only written
  together; some commands make the client assume what the device never says.
  What is shown must be what was last read, no target above the limit may be
  written, the half a command is not about must stay, and an entity may be
  available only while the client is.
* **Subscriptions.**  One task at a time hands out the forecast while the weather
  changes and subscribers come and go; none may be left with an old one.
* **Debounced writing.**  An update during a save, a save that fails or is
  cancelled, the final flush, a crash: nothing recorded may be forgotten.
* **Discovery cards.**  A device the user has ignored announces itself again, to
  several flows, beside scans that push records out, and after a restart: no
  second card may be shown within the window.
* **Flows side by side.**  Two flows check the same target or learn the same
  device while each awaits the other's work; entries are removed or retargeted
  under a flow's feet.  No two entries may have one id, and an announcement may
  change only the entry it belongs to.
* **An entry and its issues.**  Issues are created and deleted from five places;
  the callback remembers which one it takes for active.  A refusal must stay
  visible, nothing may be shown for a removed or connected entry, and a changed
  target must be used.

`PROJECT.json` lists these hazards one by one with their source line and the
property that covers each, and maps every definition to the lines it models.

## 2. The models

### ConnectionSupervisor

Models `ConnectionSupervisor` completely, but for the statistics only
diagnostics read.  A monotonic timestamp is represented by its age, which
`Tick` advances; an age stops growing once it has passed every threshold that it
is compared with, and `attempts` once it no longer changes the delay, so the
state space is finite without a bound on time.  `Unset` is Python's `None`.
`ConnectionSupervisor` is also the base of the next module: its operators are
called by the session's actions as its methods are called by the client.

### DHEClientSession

One action is the code between two awaits of one task.

| Model | Code |
|---|---|
| `ctx`, `ready`, `stopped`, `available`, `online`, `proven` | `_ctx`, the events `_ready` and `_stopped`, `_available`, the online state, whether the session has shown device data |
| `graceTimer` | the grace expiry task is pending |
| `runner`, `rpc[r]`, `rctx[r]`, `cancelled` | the session loop task the client owns; where each such task is suspended, the session it holds, and a cancellation not yet delivered |
| `sess[s]`, `ping[s]` | a websocket and its heartbeat task |
| `cpc`, `ckind`, `cctx`, `attempt` | the task holding the command lock |
| `spc[k]`, `swait[k]`, `sctx[k]` | each running `stop()`: from unloading, and from repair/reauth |
| `RunnerStep` | `_run_sessions`, `_open_authenticated_session`, the watchdog and the cleanup in its `finally` |
| `ForceReconnect`, `MarkReconnecting`, `MarkConnected` | the synchronous parts of `_force_reconnect`, `_mark_reconnecting`, `_record_session_connected` |
| `HeartbeatFails` ... | `_send_heartbeats` |
| `CommandStep` | the command runner (`run` with `retry` or without), `repair_pairing`, `restart_after_reauth` |
| `BeginStop`, `StopStep` | `stop` |
| `EntrySetup`, `EntryUnload` | the client's part of `async_setup_entry` and `async_unload_entry` |

The device may answer, fail, refuse the token, stay silent or drop the session
at every await.  Choices that keep the model small:

* The lock serialises commands, so one holder stands for any number of waiting
  callers.  `Ensure` has the code's own test (session and *availability*, not
  `_ready`).
* The handshake inside `_open_authenticated_session` is one await with its
  outcomes (success, failure, failure that pauses reconnecting, refusal).  Its
  steps are those of `PairingHandshake`.
* When a backoff ends is left open; its length is the policy's business.
* `_close_session` awaits a cancelled heartbeat and swallows `CancelledError`:
  if the closing task itself is cancelled there, the cancellation is lost
  (`CancellationLost`).  The model allows this in every close, also in one that
  finds no heartbeat to await, which only adds behaviours.
* The idle receive timeout is a loss by the device followed by a failed read.
* A session identity is used again once nothing refers to it.

### TokenStorage

The config-entry token store, its resets and its migrations of legacy token
files.

| Model | Code |
|---|---|
| `token`, `marker`, `deferred` | the entry's token and its list of imported legacy files, as Home Assistant holds them in memory; whether this process imported them (`_PENDING_MIGRATIONS`) |
| `diskToken`, `diskMarker` | what Home Assistant has written of them (`Persist`, `Restart`: external) |
| `file` | the content of each legacy file: a token, malformed, or none |
| `mpc`, `src`, `todo`, `cur`, `got`, `keep`, `tok` | a running migration: where it waits, and its local variables |
| `rpc`, `rcur`, `deleted`, `resetSources` | a running reset, and the sources all resets share |
| `outdated`, `rewritten` | the comparisons of `generation` and `write_revision`, see below |
| `orphans` | deletions in executor threads whose task was cancelled |
| `MigrationBegins`, `ReadDone`, `ClearDone`, `RetireNext`, `MigrationGivesUp` | `async_migrate_legacy_token_files`, from one await to the next |
| `ResetBegins`, `ResetNext` | `async_clear_token` |
| `MigrationReads`, `MigrationDeletes`, `ResetDeletes`, `OrphanDeletes` | the file operation in the executor thread |
| `MigrationFails`, `ResetFails` | an I/O error or a cancelled task |
| `Save` | `async_save_token` |
| `latest`, `revoked`, `dead`, `wiped` | history variables that only properties read |

The code compares a generation (bumped by each reset) and a write revision
(bumped by each write) with copies a task took before an await.  The model
keeps the outcome of each comparison with the task instead: a reset makes every
running migration `outdated`, a write makes every running reset `rewritten`.
This is the same control without unbounded counters, and needs no bound.  The
order in which files are visited is open.  The entry's token is assumed well
formed, legacy files hold distinct tokens, and `Save` writes a token that was
never used before, as a newly paired one is.  A restart loses what was not
written, a revocation included: what it brings back is not held against a reset.

### PairingHandshake

How the session loop gets an authenticated session: `_open_authenticated_session`
with everything it calls, beside `repair_pairing` and `restart_after_reauth`.

| Model | Code |
|---|---|
| `active`, `require`, `confirmed`, `rejected`, `manual`, `paused`, `retries` | the pairing flags of the client |
| `waiting` | the displayed pairing state is "waiting_for_confirmation", on which `_record_pairing_requested` decides |
| `cache`, `stored` | `_token`, and the token in the token store |
| `pc`, `tok`, `usingStored`, `candidate`, `accepted`, `asked`, `sent`, `greeted` | where the session loop waits, and its local variables |
| `rp`, `saved`, `stopped` | where repair or restart waits; whether a token was saved since it began to clear; the `_stopped` event |
| `LoadToken` | `_load_token`, `_prepare_auth_session_token`, `_start_token_pairing_request` |
| `RequestStep` | `_request_initial_token`: one action per event, failure, and end of a batch |
| `AuthStep` | the second half of `_open_authenticated_session`, likewise |
| `RepairStep` | `repair_pairing`, `restart_after_reauth`, `stop`, `start` |
| `revoked`, `trusted` | history variables that only properties read |

The device sends any event at any time, every deadline may pass and every
transport call may fail.  Choices that keep the model small:

* Clearing the stored token is what `TokenStorage` shows of it: it ends some time
  after it began and spares a token saved meanwhile.  What happens in between is
  that module's business.
* The events of a batch are handled one by one and the end of a batch is a step
  of its own, which may come after any of them.
* `require_confirmation` of the token request equals `require`: it is read when
  the request begins, and nothing withdraws the demand before its end.
* A running session is `pc = "session"`; how it is lost belongs to
  `DHEClientSession`.  The counter stops at `MaxRetries`, since only the
  comparison with it is used.
* Left out: `_pairing_request_seen`, which nothing reads; the branch for an
  active pairing without confirmation, which `ActiveIsStrict` shows to be dead;
  the one-shot validation of the setup flow; progress texts and notifications.

### SnapshotStore and DiscoveryCache

`SnapshotStore` is what the discovery cache promises of its file: observations
are collected in memory, one snapshot at a time replaces the file, nothing is
recorded while it is under way, and a crash keeps the file.  `DiscoveryCache` is
the code: `ImplementsSnapshotStore` is `INSTANCE SnapshotStore` with `stored`
mapped to `disk` and `snapshot` to the one snapshot in an executor job.

| Model | Code |
|---|---|
| `memory`, `disk` | the records of the cache, and of its file |
| `owner`, `queue` | the discovery lock, granted in the order of requests |
| `client[c]` | a call of `async_record_discovery`, of the scan's recording, or of a reader |
| `writer`, `job`, `outcome` | the save task and the final flush, the executor jobs of each and how they ended |
| `timer`, `dirty`, `listening`, `cancelled` | the fields of `_DiscoveryWriter` |
| `phase` | Home Assistant runs, cancels background tasks, fires the final write |

What the records say is left to the next module: an observation is one element
of a set.

### DiscoveryPrompts

What the integration makes of announcements and scan results: the score of each,
the identity it is recorded under, the bounded set of records, and whether a
discovery card is shown.

| Model | Code |
|---|---|
| `records` | `payload["records"]`, by identity: target, score, result, times |
| `homes`, `clashes` | config entries (MAC address and target), targets with a conflict issue |
| `flows` | the flows in progress: announcement, target, where each waits, the result it will record |
| `Confidence`, `Identity`, `Seen`, `Found` | `_zeroconf_confidence`, `_identity_value`, `zeroconf_discovery_record`, `scan_discovery_record` |
| `Pruned`, `Rank` | `_prune_payload` with its retention key; of equal records some are kept |
| `Arrives`, `Check`, `Connects`, `Reaches`, `Record`, `Answers` | `async_step_zeroconf` and what follows it, from one await to the next |
| `Chooses` | a user's flow that takes a discovered device over from its card |
| `calm`, `excused` | history variables that only the property reads |

How the records reach the file is `DiscoveryCache`'s subject, what the flows do
to entries that of `SetupFlows`; here a save is over when it begins, and a
restart finds what was recorded or nothing.

### DHECommands

One price command beside one command that writes another value, each with the
code's two attempts.

| Model | Code |
|---|---|
| `device`, `outbox`, `inbox`, `session` | the device, what is on its way to and from it, whether there is a session |
| `cache` | `_last_measurements` |
| `lock`, `waiting` | `_command_lock` |
| `pending` | the pending write future with its id and expected value |
| `pc`, `mode`, `target`, `old`, `current`, `attempt` | where each caller is in `_run_command_with_reconnect_retry`, `write_odb_value` and the price write with its rollback |
| `alone`, `before`, `premature` | history variables that only properties read |

`before` holds the price a command found, unless the cache was not the device's
or an earlier write of the price was still on its way.  The device may ignore a
write, the session may be lost with all that is on its way, and a wait may end
before its answer comes.  Conversion, clamping and the
setpoint's own future (with the same control) are left out.

### AppCommands

| Model | Code |
|---|---|
| `known`, `heard` | the lists the client has, and which of the generation counters have moved since the command read them |
| `pc`, `call`, `attempt`, `ctx`, `listed` | the caller's command and its local variables |
| `toggles`, `created` | history: the toggles the device took, and the memories it created, for each caller |
| `misled` | history: whose attempt began before earlier ones were `Settled`, that is with a write of its kind on its way, or a list that is not the device's |
| `blind` | history: who wrote a memory by a list that was not `Reliable`: not its own, misled, or with a free slot before the last memory |

The counters are not numbers: a comparison with the value read before is the
membership of the list's kind in `heard`.  Places, searches and temperatures are
names.

### SetupFlows

| Model | Code |
|---|---|
| `entry` | Home Assistant's config entries: target and unique id |
| `flow` | the flows in progress: their source, step, target, id and matched entry |
| `at`, `moves` | where each device answers, and how often it moved |
| `conflicts` | the targets with a discovery-conflict issue |

Home Assistant's part (it serves one step of a flow at a time, aborts flows as
asked, keeps unique ids in progress apart) is modelled as the code uses it.  A
history field of a flow says that its target was taken after its check, which
is how the properties tell a race from an oversight.

### SensorView

One sensor with each description that `sensor_descriptions.py` has (`MCKinds`).
The client calls its callbacks synchronously, so that a report and what the
entity makes of it are one action.  `expected` is the deadline of a read whose
zero is no value, `entity` holds the sensor's value, its write timer and the
state Home Assistant was last given.

### DeviceLink

The part of the world all modules about entities share: the session, the
client's availability with its grace period, the reports on their way, and the
command lock with its line of callers (`Orders`, `Goes`, `Repeats`, `Fails`,
`Ends`).  `Controls`, `RadioPlayer`, `WeatherViews` and `MemorySlots` extend it;
`DHEClientSession` has the session in detail, `DHECommands` the wait and the
retry.

### Controls, RadioPlayer, WeatherViews, MemorySlots

Entities with commands.  A report that tells the client nothing new does not
reach the entities, and what a command leaves behind when it ends is an action of
its own: between confirmation and end other reports come.

| Model | Code |
|---|---|
| `Controls`: `group`, `unit`, `known`, `shown` | which controls a behaviour is about, the device, `_last_measurements`, the switches and numbers |
| `Implied`, `Meaning`, `Assumed` | what values say of a control (`wellness_program_switch_state`), what a report makes known (`_handle_app_timer_value`, ...), and what a command makes the client assume |
| `RadioPlayer`: `tuner`, `radio`, `player` | the device, `_last_radio_state`, the media player: its state, whether it counts as off, its sources and the current one |
| `Sources`, `Source`, `Merged`, `Option` | `radio_mapping.py`: the source options and the current one |
| `WeatherViews`: `station`, `weather`, `choice`, `outlook` | the device, `_last_weather_state`, the location select, the weather entity |
| `update`, `subscribed`, `count`, `seen` | the update task with its pending flag, Home Assistant's subscribers, the entity's counts, what each subscriber has |
| `MemorySlots`: `memory`, `cached`, `fullList` | the device's slots, what the client knows of them, and whether it has had a full list |
| `numbers`, `texts`, `buttons` | the entities of each slot |
| `said`, `told`, `assumed`, `picked`, `wish`, `excused`, `touched` | history variables that only properties read |

Values are small numbers, stations and places are names; volume, media texts and
the forecast's data are left out.  `MCEntities` checks the four and `SensorView`
in one run: `scene` says whose behaviour it is, the others rest.

### WaterHeating

The climate entity, the child safety switch and the child safety limit, with two
commands at a time.

| Model | Code |
|---|---|
| `cache`, `inbox`, `session`, `available` | last values, reports on their way, the session and the client's availability |
| `queue`, `task` | the command lock with its waiting callers; what each command has left to do |
| `climate`, `switch`, `number` | what the entities show, their availability, and the climate entity's remembered target |
| `overtaken` | history: values reported anew while an older one was not yet shown |

Entities start without a restored state, and the initial answers of a session are
handled together.  The device takes or ignores a write when it is sent.

### EntryRepairs

| Model | Code |
|---|---|
| `entry`, `setup` | Home Assistant's state of the entry, the targets of its data and options; the setup or unload in progress |
| `runtime` | the target of the client and `entry_reload_signature` |
| `client` | the diagnostics the client reports |
| `issues`, `watch`, `cleanup` | the issues shown; `active_issue_type` and `connected_cleanup_scheduled`; the clean-up task |
| `fix` | the repair flow a user has opened |
| `listeners`, `reloads` | tasks of the update listener, and reloads that wait for the setup lock |
| `overlooked` | history: the target changed during the setup |

The client is what its diagnostics say; which of them may follow which is taken
from `DHEClientSession`'s code, without its tasks.  The awaits of a change flow
leave nothing stale but what `SetupFlows` models, so that a change of the target
is one step.  Left out: reauthentication flows (nothing in the integration starts
one), services, the device registry, the clean-up of sensor statistics.  The
branch for a discovery conflict in the diagnostics is dead: nothing reports one.

Operators that a comment calls a mutant, or that are named `Wrong...`,
`Hasty...`, `Late...`, `Free...`, `Coarse...`, `Careless...`, `Trusting...`,
`Forgetful...`, `Wary...` and the like, are mistakes a change of the code could
make.  No specification uses them; each one put in the place of its neighbour
makes TLC report the property it belongs to.

## 3. Runs

Deadlock is checked except in `commands`, `app`, `heating` and `entities` (each
caller makes one command, and the device does a bounded number of things),
`setup` (entries and flows may run out) and `entry` (an entry that was removed
stops).

| Run | Constants | Shows |
|---|---|---|
| `session` | 1 loop task, 3 sessions, grace period and longest delay of 2 ticks, 2 attempts, retried and unretried commands, repair, reauth | no leaked websocket or heartbeat; outages are timed; ready means connected; flapping keeps the backoff; the grace window runs from the first loss |
| `session_live` | 1 loop task, 2 sessions, retried commands, unload, fair event loop | unload releases everything and returns; a lasting outage is shown; with a responsive device a loaded client gets ready |
| `token` | 2 files, 2 tokens, 2 migrations, 2 resets, at most 2 of them running (`MaxBusy`) | no resurrection; a saved token stays; a crash keeps a token |
| `prompts` | pairing: 2 tokens, 3 retries (the integration's own); cards: 2 flows, 4 announcements, 1 scan result, 2 records, window and lifetime of 2 ticks, 4 events | a session needs a confirmation that stands; a discarded token is not used; pauses are earned and never outlive a repair; cards for one identity are a window apart |
| `discovery` | 3 observations, 1 reader, 2 failing file operations, fair scheduler | the cache implements the snapshot store; nothing recorded is forgotten, also by the final write; every observation is saved in the end |
| `commands` | 1 price command, 1 value command, 1 lost session, 4 packets, 2 reports, fair commands | the future belongs to the lock's holder; a price that is set alone stays whole; every command ends |
| `app` | 2 callers, 2 places, temperatures 1 and 2, 2 slots, 1 lost session, 4 packets, 2 reports | toggles and creations happen once, in the asked direction; what is reported as done was done; searches return their own results |
| `setup` | 2 devices, 3 ids, 2 targets, 2 entries, 2 flows, 2 moves | one entry per id; targets clash only after a race; an announcement retargets only its own entry |
| `entities` | sensor: readings 0..3, delta 2, interval 2, window 2, 2 open reads; the others: 2 users, 1 report on its way, 1 change or lost session, 2 programs, amounts, stations, places, forecasts, subscribers, slots each | no value is withheld longer than the interval; what is shown was read; controls and player show what the device said last, but for named races; subscribers have the forecast once no update is under way; a command about one half of a memory keeps the other |
| `heating` | 2 commands, temperatures 1..3, jumper 2, 1 report, 1 change, 2 device states | no target above the limit is written; what is shown was reported; entities are available only while the client is |
| `entry` | 2 targets, 2 changes, 1 pending task and reload each | issues are justified; of a loaded entry at most one is shown, the one the callback takes for active, and a refusal stays visible; the entry runs for its target |
| `loop` | 1 loop task, 2 sessions | the first finding, a violation |

Bounds.  In the session runs the thresholds are one or two ticks: the order of
loss, timer and reconnection is what matters, and each order occurs.  Three
sessions let one be current, one be in the process of being closed by another
task and one be newly opened, which is as many as one loop task, one command
and one `stop()` can hold apart.  In the token run,
`MaxBusy = 2` allows every pair of concurrent migrations and resets.  In
`commands` and `app` a second caller gives every interleaving at the lock, one
lost session hits every step of a command, and four packets are what two
attempts of one command leave on the way.  In `setup` two of everything give
each race its two sides.  In `entities` readings of 0..3 with a delta of two have
values within and beyond the delta, and ages up to two ticks reach each
comparison; a second user overtakes the first at the lock, and one report and one
change come at every step of either.  In `prompts` two records are less than the
identities there are, so that records are pushed out, and three ticks outlast
the window.  In `heating` the limit can lie below, at and above the target.  In
`entry` a second change overtakes the first; two pending tasks of each kind hold
as well.  Symmetry is over names used only for identity, and no liveness is
checked with it.  The proofs of section 5 have none of these bounds.

Fairness.  `session_live` (`SchedulerFairness`): the event loop resumes
each task whose await has ended, and every await of a command has a timeout in
the code.  Nothing is assumed about users: no start, unload or new command ever
has to happen.  `GetsReady` assumes a device (`DeviceFairness`) that accepts a
session, takes the requests and answers, if asked again and again; it excludes
by name the ends from which the code does not come back by itself: paused
pairing, a refused token, `stop()`, and a loop that died (first finding).
`discovery`: the executor finishes its jobs, the timer fires and tasks run on.
`commands`: a wait ends by an answer or its timeout, and the lock's holder runs on.

## 4. Findings

1. **The session loop can die** (`loop`; `client.py:471`).  `_run_sessions` reads
   `self._ctx` again after awaiting the initial requests.  If a failed heartbeat
   or a timed-out command dropped the session meanwhile, `None` is passed on,
   `AttributeError` ends the task, and nothing starts it again.
   `docs/troubleshooting.md` promises automatic reconnection.

Observations met while modelling, without a run of their own (the property that
shows each is kept in its module):

* **Unavailable after the outage** (`RecoversWhenBack`; `sensor.py:574`).  When an
  outage outlasts the grace window, the readback of an unchanged initial value
  arrives before the client is available again: the sensor takes itself for
  available and writes nothing, and the availability callback then sees no
  change.  Home Assistant shows it as unavailable until the value changes.
* **Available while offline** (`OfflineIsTimed`; `client.py:472`).  If the session
  is dropped after the startup value was received and before the loop resumes,
  the loop still marks it connected and cancels the grace timer.
* **Unload against repair** (`UnloadReleases` with repair; `client.py:413`).  A
  repair that awaits the token reset while the entry is unloaded then starts a
  session loop that survives the unload.
* **Overlapping migrations** (`SourcesStayKnown`; `token_storage.py:293`).
  Retiring drops the whole marker list, also the marker of a file another
  migration imported in between.
* **A confirmed token is not reused** (`ConfirmedTokenIsReused`;
  `client_transport_auth.py:275`), if opening the authentication session fails
  after it was stored; `docs/protocol.md:66` says it is.
* **Misled by what was left on its way** (`misled` in `AppCommands`;
  `client_radio_commands.py:186`, `client_weather_commands.py:129`).  When a
  command gives up waiting, its late list, or its toggle, is still on its way;
  the next command takes the list for its own answer and may toggle the wrong
  way, or report what is not so.  The properties hold of all other attempts.
* **A memory created twice** (`blind`; `client_temperature_memory_commands.py:87`).
  With a free slot before the last memory, or by a list that is not its own, a
  command that is repeated may create a second memory.
* **Two entries for one target** (`NoSharedTarget`; `config_flow.py:1089-1098`,
  `1140-1166`).  Two flows may each find a target free and both set it up, which
  `src/docs/troubleshooting.md:212` excludes.
* **A zero readback is published** (`client_runtime.py:664-705`) when two reads
  overlap: the first answer takes the mark of both (`src/docs/protocol.md:295`).
* Two price commands at a time may leave a mixed price (`client_commands.py:250`),
  and so may a write that was given up and is still on its way when the next
  command begins, which then restores what it overwrote.
* A repair that overlaps an unload can leave two session loops, of which only one
  is known to the client: `OneLoop`, on which `OutageIsTimed` and the other
  invariants of the session rest, fails there.
* Radio: after a source was selected while `play` was known to be false, the next
  report of a title shows the player as paused, and a repeated "not playing" does
  not reach it (`media_player.py:311`); two quick presses of "next" select the same
  favourite (`media_player.py:209`).
* Weather: a location report that is no object forgets the favourites
  (`client_runtime_media.py:239`); who subscribes while an update started for
  earlier subscribers is still running may be left with the old forecast
  (`weather.py:111-119`).
* The delayed write of a sensor that keeps its value is cancelled by an outage and
  not scheduled again (`sensor.py:637`).
* A target changed by a form while the entry is being set up is not reloaded
  (`__init__.py:158`), unless a later save of a token does it.
* Climate: a restore of the target that fails, or a command that ends late, makes
  the entity available while the client is not (`climate.py:428-444`); a confirmed
  result may overwrite a newer report (`climate.py:394`); `set_temperature` can
  complete while another command switches heating off in between.
* Issues: after a repair or reauthentication `auth_failure` stays set until the
  client connects, so that an outage in between shows `pairing_required` rather
  than `device_unreachable`; every `DHEAuthError` is classified as
  `token_invalid`; paused pairing shows no issue; an unreachable device at setup
  leaves an older token issue beside its own (`__init__.py:539-561`).

With two loop tasks alive (unload against repair) `OutageIsTimed` does not hold
either; the session runs therefore have one loop task and do not combine repair
with unload.

## 5. Proofs

A module of theorems extends the modules it is about.  The constants' assumptions
stand, named, in the modules that declare them: that `None` or `Nil`, the value for
Python's `None`, is no token, issue, record, command, place or list; that a bound
is a number; and that delays and periods are positive or in order.

**DHEClientSessionProofs**, about the policy, for all delays, thresholds and grace
periods that satisfy `SupervisorAssumption`: `SupervisorTypeCorrect`,
`OutageAlwaysHasDelay`, `BackoffIsKept`, `GraceIsNotRestarted`.  The inductive
invariant `SupervisorInv` joins the type invariant and `OutageHasDelay` with
`DelayOfAttempts`: in an outage the delay is the backoff of the attempts counted
so far, and at least one was counted.  That a backoff is positive, limited and
grows with the attempts (`BackoffBounds`) rests on `PowerIsPositive` and
`PowerGrows`, obtained from the cardinality of the set of subsets of `1..n`, as
the provers cannot do induction over an operator.

About the client, for any sessions, loop tasks and kinds of commands:

* `SessionTypeCorrect` from `LoopInv`: a session loop that runs is the client's own
  or one a `stop()` waits for, and a `stop()` runs exactly while its caller waits
  for it.
* `NoSocketLeaks`, `OutageStaysTimed`, `ReadyStaysTrue` hold while `OneLoop` does:
  one session loop runs at most.  `OneLoopRuns` proves `OneLoop` when unloading or
  repairs are excluded (`StopsNeverOverlap`); section 4 says why it fails when the
  two overlap, so that the hypothesis cannot be dropped.  `SocketInv` adds to the
  property that the current session is one its loop task uses or is opening;
  `AvailabilityInv` is what is known at each await of the loop, of who dropped the
  session and whether the timer was set.
* `SessionImplementsSupervisor`: every step of loop, heartbeat, watchdog and
  commands is a step of `ConnectionSupervisor` or a stutter, whence its two laws
  hold of the client, without `OneLoop` (`SessionKeepsBackoff`, `SessionKeepsGrace`).
* `UnloadKeepsReleased` from `UnloadedIsStill`, when no repair or reauthentication
  restarts the client: after an unload, and from its last step on, nothing runs.

**ConfigEntryProofs**, about `TokenStorage`, for any sets of files, tokens,
migrations and resets (finite or not, and any number of them running):

* `TokenTypeCorrect` from `TypeInv`, the type invariant with `BusyWithFile`: a
  busy task waits for a file.
* `ResetIsFinal` and `SavedTokenKept` from `ResetInv`.  A reset ends long after
  it began, and copies of the token it revokes lie in files and in migrations'
  variables; the invariant says where they can be.  `FilesDistinct`: no two
  files hold the same token and none holds a dead one.  `CopiesKnown`: a file
  with the entry's token is one the entry lists.  `ResetOwns`: a running reset
  has taken over each file with a token it revokes, and those it deleted are
  gone.  `FreshMigration`: a migration that is not outdated runs without any
  reset, and what it read is alive and only in files it keeps.
* `CrashIsSafe` from `CrashInv`: `DeletesBacked` says of each deletion under way,
  also one left to an orphaned thread, that a token is on disk already, that
  the file holds none, or that a reset is newer than what is on disk.

About `EntryRepairs`, for any targets and any number of changes, pending tasks and
reloads: `EntryTypeCorrect` from `EntryInv` (`StagesMatch`: which stage of a setup
or unload goes with which state of the entry, and when the callback is
registered).  `NoStaleIssue` and `ActiveIssueIsShown` from `IssueInv`, which adds
`ActiveInv`: what the callback takes for active follows from what the client says,
which is why it may delete by it.  `ReloadsFollowChanges` from `RunInv`:
`UpToDate` says at each stage of a setup what of the target was read and that a
change since has a listener's task to see to it.

**PromptProofs**, about `PairingHandshake`, for any tokens and number of retries
that satisfy `PairingAssumption`:

* `PairingTypeCorrect`, and `PausesAreJustified` from its own two conjuncts.
* `PairingsAreStrict` and `EstablishedOnlyConfirmed` from `ConfirmationInv`.  What
  the last step to a session may rely on was decided several awaits earlier:
  `NewIsPending` says that an attempt to pair demands a confirmation throughout
  and is active or has a result; `OldIsOvertaken` says that a stored token in use
  when a repair begins turns into an active, unconfirmed pairing.
* `RevokedNeverUsed` from `TokenInv`: `NothingRevoked` (without a demand for a
  confirmation neither cache nor store holds a discarded token), which a
  completed pairing re-establishes because of `OwnToken`: whoever may complete
  one holds the only token there is, but for one that a reauthentication stored.

About `DiscoveryPrompts`, for any announcements, scans, flows, windows and number
of events, if the cache has room for all identities that a card can be shown for
(`CardsFit`; the code keeps 32 records).  Without that, cards push the records of
each other out and one is shown again, as TLC shows with one record for two
identities:

* `PromptType` and `CardsStaySpaced` from `PromptInv`, which adds to the types
  that a card that still counts has its record (`CalmIsRecorded`), and that a
  flow past the check is for an identity whose card does not count, or is excused
  (`FlowOK`).  `Suppressed` is what pruning guarantees: records that suppress a
  card outrank all others and fit, so that they stay until they are too old,
  which is not before their window ends.

**DiscoveryProofs**, about `DiscoveryCache`, for any observations, readers and
number of failures: `DiscoveryTypes`; `CacheIsConsistent`, the inductive invariant
`CacheInv` of lock, queue, tasks and jobs (a holder of the lock is where it may
hold it, one snapshot at most is under way and is what the memory holds, a job
outlives the task that awaits it only under the lock); from it
`CacheImplementsStore`, the refinement of `SnapshotStore` step by step, and
`NoObservationForgotten`.  About `SetupFlows`, for any devices, targets, ids,
entries and flows: `FlowsKeepWhatTheyChecked` (a flow past its check that has lost
its target knows it as a race, no two flows in progress hold one id),
`EntryIdsAreUnique`, `ClashesAreRaces`, `RetargetsAreOwn`.

**DHECommandsProofs**, for any callers, prices and bounds: `CommandsAreExclusive`
(who is past the lock holds it, and whoever waits has no future), `CommandTypes`,
`PendingWriteIsOwn`; and `PricesStayWhole` from `PriceInv`.  A price is two writes
of two attempts each, with a rollback of the same kind, and writes that were given
up still arrive.  `Progress` says where a command that runs alone has got: the
component it is writing is, and by every packet on its way stays, between the old
value and the new one, the other is what the order of the writes makes it, and
once the write is confirmed nothing else is on its way.

**AppCommandsProofs**, for any callers, commands, places, temperatures, slots and
bounds: `AppTypeCorrect`, `WhatIsSentHappensOnce`, `TogglesDoAsAsked`,
`SuccessStaysTrue`, from `AppInv`.  Its parts: `StepInv` (one caller is past the
lock, and its attempt and session go with it), `PacketInv` (each packet on its way
is one its command sends, and there is one of a command at most), `RawToggleInv`
(a raw toggle is taken once, and no more when it is on its way), and for attempts
that are not misled `FavoriteInv`, `MemoryInv` and `SearchInv` (the lists on their
way are the device's until the command writes, and afterwards show what was asked
for only if it is so), `ToggleInv` (a toggle on its way finds what its command is
to change), `CreateInv` (the memory a command creates is the one it was to set,
so that its next attempt finds it).

**EntityProofs**, for any readings, thresholds, places, stations, names,
temperatures, amounts, users and bounds:

* Sensors: `SensorIsConsistent` ties value, written state, delayed write and
  availability to the client's cache and session; from it
  `LagNeverExceedsInterval` and `ShownValuesAreRead`.
* Weather: `ForecastReachesSubscribers` from `ForecastInv`, in which `Delivering`
  says that a task which reads an older forecast has another update pending behind
  it, that a subscriber with an old forecast has one or the other coming, and that
  the count of subscriptions is the number of subscribers, so that an update is
  not called off while anyone is left.
* Radio: `PlayerFollowsDevice` from `RadioInv`, in which `Following` goes from the
  device to the player by way of the client: the client holds what the device said
  last unless a command made it assume otherwise, and the player shows what the
  client holds unless a station was picked; a player that is off, or has no state
  yet, was last asked to be off.
* Temperature memories: `CommandsKeepTheOtherHalf` from `SlotInv`.  `Fresh` says
  of a command that asked when nothing older was on its way that all reports, and
  the whole cache once the list has come, are as the device has it, but for what
  was touched; and that nobody else writes meanwhile, because whoever waits for
  the list holds the lock.
* Controls: `ControlsStayTrue` from `ControlsInv`.  `ControlJob` says what each
  command has left to write and what the device has confirmed of it; `Follows`
  that the client still holds what was said of a confirmed value when the command
  ends, and that a control which shows something else than the client holds has
  gone astray, so that a report that is no news leads none astray.

**WaterHeatingProofs**, for any callers and temperatures: `HeatingTypes`, the
inductive `HeatingInv` (types; what a caller has left to write is ordered and its
targets respect the jumper; reports come only in a session);
`ShownValuesAreReported` with `ResultsKnown`; `LiveUnlessLate`; `TargetsAreSafe`
from the lemmas on `Limited` targets.

Each invariant is proved initial, preserved by each action (one step per action,
or per group of actions that leave its variables alone) and sufficient for its
property.

**Only model-checked:** all liveness (`UnloadEnds`, `OutageIsShown`, `GetsReady`,
`ObservationIsSaved`, `CommandEnds`), since neither fairness nor `ENABLED` is in
the provers' reach; and the finding.

## 6. What is not modelled

* Payload parsing and encoding (`protocol.py`, `*_mapping.py`), diagnostics,
  constants: functions of their arguments, without state of their own.
* Services and argument validation in front of the commands.
* The remaining entities (binary sensors, diagnostic sensors, the buttons that
  start a program or reset a counter): views of one value, or one command,
  like those of the modules on entities.
* The subnet scan and the forms of the flows, whose results only fill in a form;
  the options flow's settings of single values.
* Commands of one packet without confirmation: device information, catalogues,
  volume, more search results.
* Release scripts are not part of the integration.  The in-memory token store of
  the setup flow and a file writer used by tests are left out.  Home Assistant
  itself is modelled only as the integration uses it.

## 7. Plan

1. The subnet scan task with its form state, and what a new scan may overwrite.
2. The setup flow's one-shot authentication as a second user of
   `PairingHandshake`, and a refinement that replaces its clearing of the token
   by the steps of `TokenStorage`.
3. A model of unloading beside a repair with two loop tasks, in which the
   invariants that rest on `OneLoop` are restated for the client's own task.
