-------------------------- MODULE PairingHandshake --------------------------
(***************************************************************************)
(* How a session is authenticated, with a stored token or by pairing       *)
(* (client_transport_auth.py, client_pairing.py): the session loop loads   *)
(* the token, asks for a new one if it has none or must not use it, waits  *)
(* for the user's confirmation on the device, and authenticates.  Beside   *)
(* it runs a pairing repair or the restart after a reauthentication        *)
(* (client.py), which share the pairing flags and the token with it.       *)
(*                                                                         *)
(* An action is the handling of one event of a batch or the code between   *)
(* two awaits; the end of a batch is a step of its own.  The device sends  *)
(* any event at any time.  The 120 s deadlines may pass at any time.       *)
(* Clearing the stored token is what TokenStorage promises: it ends later  *)
(* than it begins and spares a token saved meanwhile.                      *)
(***************************************************************************)
EXTENDS Naturals

CONSTANTS
    Tokens,       \* well-formed tokens
    MaxRetries,   \* MAX_PAIRING_AUTO_RETRIES
    None

ASSUME PairingAssumption == MaxRetries \in Nat \ {0} /\ None \notin Tokens

VARIABLES
    active,       \* _pairing_active
    require,      \* _require_pairing_confirmation
    confirmed,    \* _pairing_confirmed_success
    rejected,     \* _pairing_failed_explicit
    manual,       \* _manual_pairing_requested
    paused,       \* _pause_auto_reconnect_for_pairing
    retries,      \* _pairing_retry_attempts, up to MaxRetries
    waiting,      \* the pairing state shown is "waiting_for_confirmation"
    cache,        \* _token
    stored,       \* the token in the token store
    pc,           \* where the session loop waits
    tok,          \* the token it last authenticated with
    usingStored,  \* using_stored_token
    candidate,    \* candidate_token
    accepted,     \* pairing_confirmed of the token request
    asked,        \* saw_pairing_request
    sent,         \* manual_auth_sent
    greeted,      \* authenticated_received
    fault,        \* the failure being handled is a "transport" or "auth" error
    stopped,      \* the _stopped event
    rp,           \* where the repair or restart waits
    saved,        \* a token was saved since the repair began to clear it
    revoked,      \* history: tokens repairs have discarded, until they are
                  \* saved or paired anew
    trusted       \* history: a stored token the device has accepted or the
                  \* user confirmed, until the device refuses it

flagVars   == <<active, require, confirmed, rejected, waiting>>
retryVars  == <<manual, paused, retries>>
tokenVars  == <<cache, stored, saved, revoked, trusted>>
localVars  == <<tok, usingStored, candidate, accepted, asked, sent, greeted>>
repairVars == <<stopped, rp>>
vars == <<flagVars, retryVars, tokenVars, localVars, repairVars, pc, fault>>

Results == {"yes", "no", "unknown"}

FlagsOK ==
    /\ active \in BOOLEAN /\ require \in BOOLEAN /\ confirmed \in BOOLEAN
    /\ rejected \in BOOLEAN /\ waiting \in BOOLEAN
    /\ manual \in BOOLEAN /\ paused \in BOOLEAN
    /\ usingStored \in BOOLEAN /\ accepted \in BOOLEAN /\ asked \in BOOLEAN
    /\ sent \in BOOLEAN /\ greeted \in BOOLEAN
    /\ stopped \in BOOLEAN /\ saved \in BOOLEAN

DataOK ==
    /\ retries \in 0 .. MaxRetries
    /\ cache \in Tokens \cup {None} /\ stored \in Tokens \cup {None}
    /\ tok \in Tokens \cup {None} /\ candidate \in Tokens \cup {None}
    /\ revoked \subseteq Tokens /\ trusted \in Tokens \cup {None}
    /\ pc \in {"load", "open_request", "request", "manual_auth", "request_close",
               "open_auth", "auth", "upgrade", "session", "closing", "backoff",
               "paused", "auth_failed", "off"}
    /\ rp \in {"idle", "clearing", "stopping"}
    /\ fault \in {"transport", "auth"}

PairingTypeOK == FlagsOK /\ DataOK

\* A client is started with the token of its config entry, if it has one.
PairingInit ==
    /\ active = FALSE /\ require = FALSE /\ confirmed = FALSE /\ rejected = FALSE
    /\ waiting = FALSE
    /\ manual = FALSE /\ paused = FALSE /\ retries = 0
    /\ cache = None /\ stored \in Tokens \cup {None}
    /\ saved = FALSE /\ revoked = {} /\ trusted = stored
    /\ pc = "load" /\ fault = "transport"
    /\ tok = None /\ usingStored = FALSE /\ candidate = None
    /\ accepted = FALSE /\ asked = FALSE /\ sent = FALSE /\ greeted = FALSE
    /\ stopped = FALSE /\ rp = "idle"

-----------------------------------------------------------------------------
(* The pairing flags.                                                      *)

(***************************************************************************)
(* The operators named Wrong... are mistakes a change of the code could    *)
(* make; no specification uses them.  Each shows that a property can fail. *)
(***************************************************************************)
\* What every new pairing starts with.
FreshPairing ==
    /\ active' = TRUE /\ require' = TRUE
    /\ confirmed' = FALSE /\ rejected' = FALSE
    /\ waiting' = FALSE

\* A repair trusts the stored token until it is gone.
WrongBeginManualPairing ==
    /\ active' = TRUE /\ confirmed' = FALSE /\ rejected' = FALSE /\ waiting' = FALSE
    /\ UNCHANGED require
    /\ manual' = TRUE /\ paused' = FALSE /\ retries' = 0

\* _begin_manual_pairing
BeginManualPairing ==
    /\ FreshPairing
    /\ manual' = TRUE /\ paused' = FALSE /\ retries' = 0

\* A request after a rejection does not make the pairing active again.
WrongRecordPairingRequested ==
    /\ confirmed' = FALSE /\ rejected' = FALSE
    /\ waiting' = TRUE
    /\ UNCHANGED <<active, require>>

\* _record_pairing_requested
RecordPairingRequested ==
    /\ confirmed' = FALSE /\ rejected' = FALSE
    /\ waiting' = TRUE
    /\ active' = (waiting => active)
    /\ UNCHANGED require

\* _record_pairing_result
RecordPairingResult(result) ==
    /\ confirmed' = (IF result = "unknown" THEN confirmed ELSE result = "yes")
    /\ rejected' = (IF result = "unknown" THEN rejected ELSE result = "no")
    /\ active' = (active /\ result # "no")
    /\ waiting' = FALSE
    /\ UNCHANGED require

\* The failure count of _record_pairing_failed, and what follows from it.
CountFailure ==
    /\ manual' = FALSE
    /\ retries' = IF retries = MaxRetries THEN retries ELSE retries + 1
    /\ paused' = (retries' = MaxRetries)

\* _record_pairing_failed
RecordPairingFailed ==
    /\ CountFailure
    /\ active' = FALSE /\ waiting' = FALSE
    /\ UNCHANGED <<require, confirmed, rejected>>

\* _save_token: a clearing that is under way spares it.
SaveToken(t) ==
    /\ cache' = t /\ stored' = t
    /\ saved' = TRUE
    /\ revoked' = revoked \ {t}

-----------------------------------------------------------------------------
(* The session loop: the token, and what happens after a failure.          *)

(***************************************************************************)
(* _load_token and _prepare_auth_session_token.  A token the client may    *)
(* not use, or none, starts a pairing (_start_token_pairing_request).      *)
(***************************************************************************)
LoadToken ==
    LET t == IF cache # None THEN cache ELSE stored IN
    /\ pc = "load" /\ ~stopped
    /\ cache' = t
    /\ usingStored' = (t # None /\ ~require)
    /\ IF usingStored'
         THEN pc' = "open_auth" /\ tok' = t /\ UNCHANGED flagVars
         ELSE pc' = "open_request" /\ tok' = None /\ FreshPairing
    /\ UNCHANGED <<retryVars, stored, saved, revoked, trusted, candidate, accepted,
                   asked, sent, greeted, repairVars, fault>>

\* _handle_transport_reconnect
Reconnect == pc' = IF paused THEN "paused" ELSE "backoff"

BackoffEnds ==
    /\ pc = "backoff" /\ ~stopped
    /\ pc' = "load"
    /\ UNCHANGED <<flagVars, retryVars, tokenVars, localVars, repairVars, fault>>

\* The failed session is closed; the error goes on to _run_sessions.
FailureClosed ==
    /\ pc = "closing"
    /\ IF fault = "auth" THEN pc' = "auth_failed" ELSE Reconnect
    /\ UNCHANGED <<flagVars, retryVars, tokenVars, localVars, repairVars, fault>>

-----------------------------------------------------------------------------
(* _request_initial_token.  require_confirmation is read when the session  *)
(* is open and stays what "require" is: nothing withdraws it here.         *)

RequestOpened ==
    /\ pc = "open_request"
    /\ pc' = "request"
    /\ candidate' = None /\ accepted' = ~require /\ asked' = FALSE /\ sent' = FALSE
    /\ UNCHANGED <<flagVars, retryVars, tokenVars, tok, usingStored, greeted,
                   repairVars, fault>>

\* Opening is outside the try block of either phase: no failure is recorded.
OpenFails ==
    /\ pc \in {"open_request", "open_auth"}
    /\ Reconnect
    /\ UNCHANGED <<flagVars, retryVars, tokenVars, localVars, repairVars, fault>>

RequestAsked ==
    /\ pc = "request"
    /\ asked' = TRUE
    /\ RecordPairingRequested
    /\ UNCHANGED <<retryVars, tokenVars, tok, usingStored, candidate, accepted, sent,
                   greeted, repairVars, pc, fault>>

\* _handle_token_request_pairing_result
RequestResult(result) ==
    /\ pc = "request" /\ result # "no"
    /\ RecordPairingResult(result)
    /\ accepted' = (accepted \/ result = "yes")
    /\ UNCHANGED <<retryVars, tokenVars, tok, usingStored, candidate, asked, sent,
                   greeted, repairVars, pc, fault>>

\* The user rejects the pairing: recorded as a result and as a failure.
RequestRejected ==
    /\ pc = "request"
    /\ RecordPairingResult("no")
    /\ CountFailure
    /\ pc' = "closing" /\ fault' = "transport"
    /\ UNCHANGED <<tokenVars, localVars, repairVars>>

\* A transport error, a closed session, the deadline, or stop().
RequestFails ==
    /\ pc \in {"request", "manual_auth"}
    /\ RecordPairingFailed
    /\ pc' = "closing" /\ fault' = "transport"
    /\ UNCHANGED <<tokenVars, localVars, repairVars>>

\* _persist_received_token
PersistToken(t) ==
    /\ SaveToken(t)
    /\ tok' = t /\ trusted' = t
    /\ waiting' = FALSE
    /\ pc' = "request_close"

\* _handle_token_request_token_response
RequestToken(t) ==
    /\ pc = "request"
    /\ candidate' = t
    /\ \/ /\ accepted
          /\ PersistToken(t)
          /\ UNCHANGED sent
       \/ /\ ~accepted /\ ~asked /\ manual /\ ~sent
          /\ sent' = TRUE /\ pc' = "manual_auth"
          /\ UNCHANGED <<tokenVars, tok, waiting>>
       \/ /\ ~accepted /\ (asked \/ ~manual \/ sent)
          /\ UNCHANGED <<tokenVars, tok, waiting, sent, pc>>
    /\ UNCHANGED <<active, require, confirmed, rejected, retryVars, usingStored,
                   accepted, asked, greeted, repairVars, fault>>

\* The manual fallback is over; a failed upgrade is ignored.
ManualAuthDone ==
    /\ pc = "manual_auth"
    /\ pc' = "request"
    /\ UNCHANGED <<flagVars, retryVars, tokenVars, localVars, repairVars, fault>>

\* _finalize_confirmed_candidate_token, after a batch of events
RequestFinalized ==
    /\ pc = "request" /\ candidate # None /\ accepted
    /\ PersistToken(candidate)
    /\ UNCHANGED <<active, require, confirmed, rejected, retryVars, usingStored,
                   candidate, accepted, asked, sent, greeted, repairVars, fault>>

RequestClosed ==
    /\ pc = "request_close"
    /\ pc' = "open_auth"
    /\ UNCHANGED <<flagVars, retryVars, tokenVars, localVars, repairVars, fault>>

-----------------------------------------------------------------------------
(* The second half of _open_authenticated_session.                         *)

AuthOpened ==
    /\ pc = "open_auth"
    /\ pc' = "auth" /\ greeted' = FALSE
    /\ UNCHANGED <<flagVars, retryVars, tokenVars, tok, usingStored, candidate,
                   accepted, asked, sent, repairVars, fault>>

\* The except branches: an active pairing has failed.
AuthErrs(kind) ==
    /\ IF active THEN RecordPairingFailed ELSE UNCHANGED <<flagVars, retryVars>>
    /\ pc' = "closing" /\ fault' = kind
    /\ UNCHANGED <<localVars, repairVars>>

\* A request, a post, or the upgrade to the websocket fails.
AuthTransportFails ==
    /\ pc \in {"auth", "upgrade"}
    /\ AuthErrs("transport")
    /\ UNCHANGED tokenVars

\* The device closes the session.
AuthRefused ==
    /\ pc = "auth"
    /\ AuthErrs(IF usingStored THEN "auth" ELSE "transport")
    /\ trusted' = None
    /\ UNCHANGED <<cache, stored, saved, revoked>>

\* The deadline passes, or the client is stopped.
AuthTimesOut ==
    /\ pc = "auth"
    /\ AuthErrs(IF usingStored /\ ~(greeted /\ require) THEN "auth" ELSE "transport")
    /\ trusted' = IF stopped THEN trusted ELSE None
    /\ UNCHANGED <<cache, stored, saved, revoked>>

\* A device that asks for a pairing does not accept the stored token.
AuthPairingRefused ==
    /\ pc = "auth" /\ usingStored
    /\ AuthErrs("auth")
    /\ trusted' = None
    /\ UNCHANGED <<cache, stored, saved, revoked>>

\* _handle_auth_pairing_request_event
AuthAsked ==
    /\ pc = "auth" /\ ~usingStored
    /\ RecordPairingRequested
    /\ trusted' = None
    /\ UNCHANGED <<retryVars, cache, stored, saved, revoked, localVars, repairVars,
                   pc, fault>>

\* _handle_auth_pairing_result_event
AuthResult(result) ==
    /\ pc = "auth" /\ ~usingStored
    /\ RecordPairingResult(result)
    /\ trusted' = IF result = "no" THEN None ELSE trusted
    /\ UNCHANGED <<retryVars, cache, stored, saved, revoked, localVars, repairVars,
                   pc, fault>>

\* _handle_auth_token_response
AuthToken(t) ==
    /\ pc = "auth"
    /\ SaveToken(t)
    /\ tok' = t /\ trusted' = None
    /\ waiting' = (waiting /\ ~active)
    /\ UNCHANGED <<active, require, confirmed, rejected, retryVars, usingStored,
                   candidate, accepted, asked, sent, greeted, repairVars, pc, fault>>

\* The pairing still lacks the confirmation it needs.
Unconfirmed == active /\ require /\ ~confirmed

AuthenticatedRejected ==
    /\ pc = "auth" /\ rejected
    /\ AuthErrs("transport")
    /\ UNCHANGED tokenVars

AuthenticatedPending ==
    /\ pc = "auth" /\ ~rejected /\ Unconfirmed
    /\ greeted' = TRUE /\ waiting' = FALSE
    /\ UNCHANGED <<active, require, confirmed, rejected, retryVars, tokenVars, tok,
                   usingStored, candidate, accepted, asked, sent, repairVars, pc,
                   fault>>

(***************************************************************************)
(* _handle_authenticated_event completes an active pairing.  Its case for  *)
(* an active pairing that needs no confirmation never arises, see          *)
(* ActiveIsStrict.                                                         *)
(***************************************************************************)
Authenticated ==
    /\ pc = "auth" /\ ~rejected /\ ~Unconfirmed
    /\ pc' = "upgrade"
    /\ IF active
         THEN /\ active' = FALSE /\ require' = FALSE /\ waiting' = FALSE
              /\ manual' = FALSE /\ paused' = FALSE
              /\ revoked' = revoked \ {tok}
              /\ UNCHANGED <<confirmed, rejected, retries>>
         ELSE UNCHANGED <<flagVars, retryVars, revoked>>
    /\ UNCHANGED <<cache, stored, saved, trusted, localVars, repairVars, fault>>

\* _finalize_pending_authenticated_session, after a batch of events; it
\* leaves the manual request standing.
AuthFinalized ==
    /\ pc = "auth" /\ greeted /\ active /\ require /\ confirmed
    /\ pc' = "upgrade"
    /\ active' = FALSE /\ require' = FALSE /\ waiting' = FALSE
    /\ paused' = FALSE
    /\ revoked' = revoked \ {tok}
    /\ UNCHANGED <<confirmed, rejected, manual, retries, cache, stored, saved,
                   trusted, localVars, repairVars, fault>>

Upgraded ==
    /\ pc = "upgrade"
    /\ pc' = "session"
    /\ UNCHANGED <<flagVars, retryVars, tokenVars, localVars, repairVars, fault>>

\* _record_session_connected
SessionProven ==
    /\ pc = "session"
    /\ retries' = 0 /\ paused' = FALSE
    /\ UNCHANGED <<flagVars, manual, tokenVars, localVars, repairVars, pc, fault>>

\* The session is lost, sends no data, or is force-dropped.
SessionLost ==
    /\ pc = "session"
    /\ Reconnect \/ pc' = "auth_failed" \/ pc' = "load"
    /\ UNCHANGED <<flagVars, retryVars, tokenVars, localVars, repairVars, fault>>

-----------------------------------------------------------------------------
(* Repair and reauthentication.                                            *)

\* repair_pairing: it holds the command lock, so there is one at a time.
RepairBegins ==
    /\ rp = "idle"
    /\ BeginManualPairing
    /\ cache' = None /\ saved' = FALSE
    /\ revoked' = revoked \cup ({stored} \ {None}) /\ trusted' = None
    /\ rp' = "clearing"
    /\ UNCHANGED <<stored, localVars, stopped, pc, fault>>

\* A repair that leaves the session loop as it is.
WrongTokenCleared ==
    /\ rp = "clearing"
    /\ stored' = IF saved THEN stored ELSE None
    /\ rp' = "idle"
    /\ UNCHANGED <<flagVars, retryVars, cache, saved, revoked, trusted, localVars,
                   stopped, pc, fault>>

\* The clearing ends and stop() begins.
TokenCleared ==
    /\ rp = "clearing"
    /\ stored' = IF saved THEN stored ELSE None
    /\ rp' = "stopping" /\ stopped' = TRUE
    /\ UNCHANGED <<flagVars, retryVars, cache, saved, revoked, trusted, localVars, pc,
                   fault>>

\* The reauthentication flow has paired anew; restart_after_reauth begins.
ReauthBegins(t) ==
    /\ rp = "idle"
    /\ cache' = None /\ stored' = t
    /\ revoked' = revoked \ {t} /\ trusted' = None
    /\ rp' = "stopping" /\ stopped' = TRUE
    /\ UNCHANGED <<flagVars, retryVars, saved, localVars, pc, fault>>

\* The session loop ends, by itself or cancelled.
LoopEnds ==
    /\ stopped /\ pc # "off"
    /\ pc' = "off"
    /\ UNCHANGED <<flagVars, retryVars, tokenVars, localVars, repairVars, fault>>

\* stop() returns and start() creates a new session loop.
LoopRestarts ==
    /\ rp = "stopping" /\ pc = "off"
    /\ rp' = "idle" /\ stopped' = FALSE /\ pc' = "load"
    /\ UNCHANGED <<flagVars, retryVars, tokenVars, localVars, fault>>

RequestStep ==
    \/ RequestOpened \/ RequestAsked \/ RequestRejected \/ RequestFails
    \/ \E result \in Results : RequestResult(result)
    \/ \E t \in Tokens : RequestToken(t)
    \/ ManualAuthDone \/ RequestFinalized \/ RequestClosed

AuthStep ==
    \/ AuthOpened \/ AuthTransportFails \/ AuthRefused \/ AuthTimesOut
    \/ AuthPairingRefused \/ AuthAsked \/ AuthenticatedRejected \/ AuthenticatedPending
    \/ Authenticated \/ AuthFinalized \/ Upgraded
    \/ \E result \in Results : AuthResult(result)
    \/ \E t \in Tokens : AuthToken(t)

RepairStep ==
    \/ RepairBegins \/ TokenCleared \/ LoopEnds \/ LoopRestarts
    \/ \E t \in Tokens : ReauthBegins(t)

PairingNext ==
    \/ LoadToken \/ BackoffEnds \/ FailureClosed \/ OpenFails
    \/ RequestStep \/ AuthStep
    \/ SessionProven \/ SessionLost
    \/ RepairStep

PairingSpec == PairingInit /\ [][PairingNext]_vars

-----------------------------------------------------------------------------
(***************************************************************************)
(* A session is established only after a confirmation that nothing has     *)
(* since made void (a rejection, another request of the device, a repair), *)
(* or with a stored token that no repair has put in doubt meanwhile        *)
(* (_handle_authenticated_event, _finalize_pending_authenticated_session). *)
(***************************************************************************)
EstablishedIsConfirmed ==
    [][pc = "auth" /\ pc' = "upgrade" =>
        ~rejected /\ (confirmed \/ (usingStored /\ ~require))]_vars

(***************************************************************************)
(* A token a repair has discarded is not used again unless the user has    *)
(* confirmed it since, not even when the session loop loads it into the    *)
(* cache while the repair is still clearing the store (_load_token,        *)
(* _clear_token).                                                          *)
(***************************************************************************)
RevokedIsNotUsed ==
    [][pc = "load" /\ pc' = "open_auth" => tok' \notin revoked]_vars

(***************************************************************************)
(* The session loop gives up reconnecting only after MaxRetries failures   *)
(* that nothing has reset (_record_pairing_failed).                        *)
(***************************************************************************)
PauseIsEarned == paused => retries = MaxRetries

(***************************************************************************)
(* A session loop that waits for a manual retry is still owed one: no      *)
(* repair that came while the failed session was being closed is lost      *)
(* (_handle_transport_reconnect, repair_pairing).                          *)
(***************************************************************************)
NoForgottenPause == pc = "paused" => paused \/ rp # "idle"

(***************************************************************************)
(* The session loop gives up only after the failures it is allowed, and it *)
(* waits only while that stands or a repair is about to call it back.      *)
(***************************************************************************)
PauseIsJust == PauseIsEarned /\ NoForgottenPause

(***************************************************************************)
(* An active pairing always needs the user's confirmation: the branches    *)
(* of the handshake that do without it are never taken.                    *)
(***************************************************************************)
ActiveIsStrict == active => require

(***************************************************************************)
(* While the user is asked to confirm on the device, a pairing is active   *)
(* (pairing_state "waiting_for_confirmation").                             *)
(***************************************************************************)
WaitingIsActive == waiting => active

(***************************************************************************)
(* The pairing flags agree with each other and with what the user is shown. *)
(***************************************************************************)
FlagsAgree == ActiveIsStrict /\ WaitingIsActive

-----------------------------------------------------------------------------
(***************************************************************************)
(* "The token is then reused for later sessions" (docs/protocol.md): no    *)
(* new pairing is begun while the store holds a token that was confirmed   *)
(* and that the device has not refused since.                              *)
(***************************************************************************)
ConfirmedTokenIsReused ==
    [][pc = "load" /\ pc' = "open_request" =>
        trusted = None \/ stored # trusted]_vars

=============================================================================
