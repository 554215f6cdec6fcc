------------------------------- MODULE PromptProofs ---------------------------
(***************************************************************************)
(* Proofs about the occasions on which the user is asked for something:    *)
(* PairingHandshake, for any tokens and number of retries, and             *)
(* DiscoveryPrompts.  Of the pairing, the flags are shown first, the       *)
(* tokens after them.                                                      *)
(***************************************************************************)
EXTENDS PairingHandshake, DiscoveryPrompts, FiniteSetTheorems, TLAPS

-----------------------------------------------------------------------------
(* Types.                                                                  *)

\* Handling a failed authentication leaves the flags Boolean.
LEMMA AuthErrsFlags ==
    ASSUME FlagsOK, NEW kind, AuthErrs(kind), UNCHANGED saved PROVE FlagsOK'
<1>1. CASE RecordPairingFailed
  BY <1>1, Zenon DEF RecordPairingFailed, CountFailure, AuthErrs, FlagsOK, localVars,
     repairVars
<1>2. CASE UNCHANGED <<flagVars, retryVars>>
  BY <1>2, SMT DEF AuthErrs, FlagsOK, flagVars, retryVars, localVars, repairVars
<1> QED
  BY <1>1, <1>2, Zenon DEF AuthErrs

\* Every step leaves the flags Boolean.
LEMMA FlagsStep == FlagsOK /\ [PairingNext]_vars => FlagsOK'
<1> SUFFICES ASSUME FlagsOK, [PairingNext]_vars PROVE FlagsOK'
  OBVIOUS
<1> USE DEF FlagsOK, flagVars, retryVars, tokenVars, localVars, repairVars
<1>1. CASE LoadToken
  BY <1>1, ZenonT(90) DEF LoadToken, FreshPairing
<1>2. CASE BackoffEnds \/ FailureClosed \/ OpenFails \/ SessionLost \/ UNCHANGED vars
  BY <1>2, SMT DEF BackoffEnds, FailureClosed, OpenFails, Reconnect, SessionLost, vars
<1>3. CASE SessionProven
  <2>1. paused' \in BOOLEAN
    BY <1>3, Zenon DEF SessionProven
  <2> QED
    BY <1>3, <2>1, SMT DEF SessionProven
<1>4. CASE RequestStep
  <2>1. CASE RequestOpened
    <3>1. accepted' \in BOOLEAN /\ asked' \in BOOLEAN /\ sent' \in BOOLEAN
      BY <2>1, Zenon DEF RequestOpened
    <3> QED
      BY <2>1, <3>1, SMT DEF RequestOpened
  <2>2. CASE RequestAsked
    BY <2>2, Zenon DEF RequestAsked, RecordPairingRequested
  <2>3. CASE ManualAuthDone \/ RequestClosed
    BY <2>3, SMT DEF ManualAuthDone, RequestClosed
  <2>4. CASE RequestRejected
    BY <2>4, Zenon DEF RequestRejected, RecordPairingResult, CountFailure
  <2>5. CASE RequestFails
    BY <2>5, Zenon DEF RequestFails, RecordPairingFailed, CountFailure
  <2>6. ASSUME NEW result \in Results, RequestResult(result) PROVE FlagsOK'
    BY <2>6, Zenon DEF RequestResult, RecordPairingResult
  <2>7. ASSUME NEW t \in Tokens, RequestToken(t) PROVE FlagsOK'
    <3>1. waiting' \in BOOLEAN /\ sent' \in BOOLEAN /\ saved' \in BOOLEAN
      BY <2>7, Zenon DEF RequestToken, PersistToken, SaveToken
    <3> QED
      BY <2>7, <3>1, SMT DEF RequestToken
  <2>8. CASE RequestFinalized
    BY <2>8, ZenonT(90) DEF RequestFinalized, PersistToken, SaveToken
  <2> QED
    BY <1>4, <2>1, <2>2, <2>3, <2>4, <2>5, <2>6, <2>7, <2>8 DEF RequestStep
<1>5. CASE AuthStep
  <2>1. CASE AuthOpened
    <3>1. greeted' \in BOOLEAN
      BY <2>1, Zenon DEF AuthOpened
    <3> QED
      BY <2>1, <3>1, SMT DEF AuthOpened
  <2>2. CASE AuthAsked
    BY <2>2, Zenon DEF AuthAsked, RecordPairingRequested
  <2>3. CASE AuthTransportFails \/ AuthRefused \/ AuthTimesOut
               \/ AuthPairingRefused \/ AuthenticatedRejected
    BY <2>3, AuthErrsFlags, Zenon DEF AuthTransportFails, AuthRefused, AuthTimesOut,
       AuthPairingRefused, AuthenticatedRejected
  <2>4. CASE AuthenticatedPending
    BY <2>4, ZenonT(90) DEF AuthenticatedPending
  <2>5. CASE AuthFinalized
    BY <2>5, Zenon DEF AuthFinalized
  <2>6. CASE Authenticated
    BY <2>6, ZenonT(90) DEF Authenticated
  <2>7. CASE Upgraded
    BY <2>7, SMT DEF Upgraded
  <2>8. ASSUME NEW result \in Results, AuthResult(result) PROVE FlagsOK'
    BY <2>8, Zenon DEF AuthResult, RecordPairingResult
  <2>9. ASSUME NEW t \in Tokens, AuthToken(t) PROVE FlagsOK'
    BY <2>9, ZenonT(90) DEF AuthToken, SaveToken
  <2> QED
    BY <1>5, <2>1, <2>2, <2>3, <2>4, <2>5, <2>6, <2>7, <2>8, <2>9 DEF AuthStep
<1>6. CASE RepairStep
  <2>1. CASE RepairBegins
    BY <2>1, Zenon DEF RepairBegins, BeginManualPairing, FreshPairing
  <2>2. CASE TokenCleared
    <3>1. stopped' \in BOOLEAN
      BY <2>2, Zenon DEF TokenCleared
    <3> QED
      BY <2>2, <3>1, SMT DEF TokenCleared
  <2>3. ASSUME NEW t \in Tokens, ReauthBegins(t) PROVE FlagsOK'
    <3>1. stopped' \in BOOLEAN
      BY <2>3, Zenon DEF ReauthBegins
    <3> QED
      BY <2>3, <3>1, SMT DEF ReauthBegins
  <2>4. CASE LoopEnds
    BY <2>4, SMT DEF LoopEnds
  <2>5. CASE LoopRestarts
    <3>1. stopped' \in BOOLEAN
      BY <2>5, Zenon DEF LoopRestarts
    <3> QED
      BY <2>5, <3>1, SMT DEF LoopRestarts
  <2> QED
    BY <1>6, <2>1, <2>2, <2>3, <2>4, <2>5 DEF RepairStep
<1> QED
  BY <1>1, <1>2, <1>3, <1>4, <1>5, <1>6 DEF PairingNext

\* Every step leaves the other variables in their types.
LEMMA DataStep == DataOK /\ [PairingNext]_vars => DataOK'
<1> SUFFICES ASSUME DataOK, [PairingNext]_vars PROVE DataOK'
  OBVIOUS
<1> USE PairingAssumption DEF DataOK, flagVars, retryVars, tokenVars, localVars, repairVars
<1>1. CASE LoadToken \/ BackoffEnds \/ FailureClosed \/ OpenFails \/ SessionProven
             \/ SessionLost \/ UNCHANGED vars
  BY <1>1, SMT DEF LoadToken, BackoffEnds, FailureClosed, OpenFails, Reconnect,
     SessionProven, SessionLost, vars
<1>2. CASE RequestStep
  <2>1. CASE RequestOpened \/ RequestAsked \/ ManualAuthDone \/ RequestClosed
    BY <2>1, SMT DEF RequestOpened, RequestAsked, ManualAuthDone, RequestClosed
  <2>2. CASE RequestRejected \/ RequestFails
    BY <2>2, SMT DEF RequestRejected, RequestFails, RecordPairingFailed, CountFailure
  <2>3. ASSUME NEW result \in Results, RequestResult(result) PROVE DataOK'
    BY <2>3, SMT DEF RequestResult
  <2>4. ASSUME NEW t \in Tokens, RequestToken(t) PROVE DataOK'
    BY <2>4, SMT DEF RequestToken, PersistToken, SaveToken
  <2>5. CASE RequestFinalized
    BY <2>5, SMT DEF RequestFinalized, PersistToken, SaveToken
  <2> QED
    BY <1>2, <2>1, <2>2, <2>3, <2>4, <2>5 DEF RequestStep
<1>3. CASE AuthStep
  <2>1. ASSUME NEW kind \in {"transport", "auth"}, AuthErrs(kind),
               trusted' \in {trusted, None}, UNCHANGED <<cache, stored, saved, revoked>>
        PROVE  DataOK'
    <3>1. retries' \in 0 .. MaxRetries
      BY <2>1, SMT DEF AuthErrs, RecordPairingFailed, CountFailure
    <3> QED
      BY <2>1, <3>1, SMT DEF AuthErrs
  <2>2. CASE AuthTransportFails \/ AuthRefused \/ AuthTimesOut \/ AuthPairingRefused
               \/ AuthenticatedRejected
    BY <2>1, <2>2, Zenon DEF AuthTransportFails, AuthRefused, AuthTimesOut,
       AuthPairingRefused, AuthenticatedRejected
  <2>3. CASE AuthOpened \/ AuthAsked \/ Upgraded
    BY <2>3, SMT DEF AuthOpened, AuthAsked, Upgraded
  <2>4. CASE AuthenticatedPending \/ AuthFinalized
    BY <2>4, SMT DEF AuthenticatedPending, AuthFinalized
  <2>5. CASE Authenticated
    BY <2>5, SMT DEF Authenticated
  <2>6. ASSUME NEW result \in Results, AuthResult(result) PROVE DataOK'
    BY <2>6, SMT DEF AuthResult
  <2>7. ASSUME NEW t \in Tokens, AuthToken(t) PROVE DataOK'
    BY <2>7, SMT DEF AuthToken, SaveToken
  <2> QED
    BY <1>3, <2>2, <2>3, <2>4, <2>5, <2>6, <2>7 DEF AuthStep
<1>4. CASE RepairStep
  BY <1>4, SMT DEF RepairStep, RepairBegins, BeginManualPairing, TokenCleared, LoopEnds,
     LoopRestarts, ReauthBegins
<1> QED
  BY <1>1, <1>2, <1>3, <1>4 DEF PairingNext

\* Every variable keeps its type.
THEOREM PairingTypeCorrect == PairingSpec => []PairingTypeOK
<1>1. PairingInit => PairingTypeOK
  <2>1. PairingInit => FlagsOK
    BY Zenon DEF PairingInit, FlagsOK
  <2>2. PairingInit => DataOK
    BY PairingAssumption, SMT DEF PairingInit, DataOK
  <2> QED
    BY <2>1, <2>2 DEF PairingTypeOK
<1>2. PairingTypeOK /\ [PairingNext]_vars => PairingTypeOK'
  BY FlagsStep, DataStep DEF PairingTypeOK
<1> QED
  BY <1>1, <1>2, PTL DEF PairingSpec

-----------------------------------------------------------------------------
(* Pauses.                                                                 *)

PauseInv == PauseIsEarned /\ NoForgottenPause

\* Handling a failed authentication pauses only after MaxRetries failures.
LEMMA AuthErrsPause ==
    ASSUME PauseInv, NEW kind, AuthErrs(kind) PROVE PauseInv'
<1> USE DEF PauseInv, PauseIsEarned, NoForgottenPause
<1>1. CASE RecordPairingFailed
  BY <1>1, Zenon DEF RecordPairingFailed, CountFailure, AuthErrs, repairVars
<1>2. CASE UNCHANGED retryVars
  BY <1>2, Zenon DEF AuthErrs, retryVars, repairVars
<1> QED
  BY <1>1, <1>2, Zenon DEF AuthErrs

(***************************************************************************)
(* The session loop gives up reconnecting only after MaxRetries failures,  *)
(* and while it has given up the pause lasts or a repair is under way.     *)
(***************************************************************************)
THEOREM PausesAreJustified == PairingSpec => []PauseIsJust
<1> USE DEF PauseIsJust, PauseInv, PauseIsEarned, NoForgottenPause, flagVars, retryVars, tokenVars,
        localVars, repairVars
<1>1. PairingInit => PauseInv
  BY Zenon DEF PairingInit
<1>2. PauseInv /\ [PairingNext]_vars => PauseInv'
  <2> SUFFICES ASSUME PauseInv, [PairingNext]_vars PROVE PauseInv'
    OBVIOUS
  <2> DEFINE Inert == UNCHANGED <<paused, retries, rp>> /\ (pc' = "paused" => pc = "paused")
  <2>1. ASSUME Inert PROVE PauseInv'
    BY <2>1, Zenon
  <2>2. CASE \/ LoadToken \/ BackoffEnds \/ RequestOpened \/ RequestAsked \/ ManualAuthDone
             \/ RequestFinalized \/ RequestClosed \/ AuthOpened \/ AuthAsked
             \/ AuthenticatedPending \/ Upgraded \/ LoopEnds \/ UNCHANGED vars
             \/ \E result \in Results : RequestResult(result) \/ AuthResult(result)
             \/ \E t \in Tokens : RequestToken(t) \/ AuthToken(t)
    <3>1. Inert
      BY <2>2, SMT DEF LoadToken, BackoffEnds, RequestOpened, RequestAsked, ManualAuthDone,
         RequestFinalized, RequestClosed, AuthOpened, AuthAsked, AuthenticatedPending,
         Upgraded, LoopEnds, vars, RequestResult, AuthResult, RequestToken, AuthToken,
         PersistToken
    <3> QED
      BY <2>1, <3>1
  <2> HIDE DEF Inert
  <2>3. CASE FailureClosed
    BY <2>3, Zenon DEF FailureClosed, Reconnect
  <2>4. CASE OpenFails
    BY <2>4, Zenon DEF OpenFails, Reconnect
  <2>5. CASE SessionLost
    BY <2>5, Zenon DEF SessionLost, Reconnect
  <2>6. CASE SessionProven
    BY <2>6, Zenon DEF SessionProven
  <2>7. CASE RequestRejected
    BY <2>7, Zenon DEF RequestRejected, CountFailure
  <2>8. CASE RequestFails
    BY <2>8, Zenon DEF RequestFails, RecordPairingFailed, CountFailure
  <2>9. CASE AuthTransportFails \/ AuthRefused \/ AuthTimesOut \/ AuthPairingRefused
               \/ AuthenticatedRejected
    BY <2>9, AuthErrsPause, Zenon DEF AuthTransportFails, AuthRefused, AuthTimesOut,
       AuthPairingRefused, AuthenticatedRejected
  <2>10. CASE Authenticated
    BY <2>10, Zenon DEF Authenticated
  <2>11. CASE AuthFinalized
    BY <2>11, Zenon DEF AuthFinalized
  <2>12. CASE RepairBegins
    BY <2>12, Zenon DEF RepairBegins, BeginManualPairing
  <2>13. CASE TokenCleared
    BY <2>13, Zenon DEF TokenCleared
  <2>14. ASSUME NEW t \in Tokens, ReauthBegins(t) PROVE PauseInv'
    BY <2>14, Zenon DEF ReauthBegins
  <2>15. CASE LoopRestarts
    BY <2>15, Zenon DEF LoopRestarts
  <2> QED
    BY <2>2, <2>3, <2>4, <2>5, <2>6, <2>7, <2>8, <2>9, <2>10, <2>11, <2>12, <2>13,
       <2>14, <2>15, Zenon DEF PairingNext, RequestStep, AuthStep, RepairStep
<1> QED
  BY <1>1, <1>2, PTL DEF PairingSpec

-----------------------------------------------------------------------------
(* Confirmations.                                                          *)

Requesting == {"open_request", "request", "manual_auth", "request_close"}
Authenticating == {"open_auth", "auth"}

OneResult == ~(confirmed /\ rejected)

RequestsAreNew == pc \in Requesting => ~usingStored

\* A pairing in progress has a result, or still waits for one.
NewIsPending ==
    pc \in Requesting \cup Authenticating /\ ~usingStored =>
        require /\ (active \/ rejected \/ confirmed)

\* A repair that overtakes the use of a stored token makes it a pairing.
OldIsOvertaken ==
    pc \in Authenticating /\ usingStored /\ require => active /\ ~confirmed

ConfirmationInv ==
    /\ ActiveIsStrict /\ WaitingIsActive /\ OneResult
    /\ RequestsAreNew /\ NewIsPending /\ OldIsOvertaken

\* Handling a failed authentication ends the handshake.
LEMMA AuthErrsConfirmation ==
    ASSUME ConfirmationInv, NEW kind, AuthErrs(kind) PROVE ConfirmationInv'
<1> USE DEF ConfirmationInv, ActiveIsStrict, WaitingIsActive, OneResult, RequestsAreNew,
        NewIsPending, OldIsOvertaken, Requesting, Authenticating
<1>1. CASE RecordPairingFailed
  BY <1>1, Zenon DEF RecordPairingFailed, AuthErrs
<1>2. CASE UNCHANGED flagVars
  BY <1>2, Zenon DEF AuthErrs, flagVars
<1> QED
  BY <1>1, <1>2, Zenon DEF AuthErrs

\* A result keeps the flags consistent and the pairing pending or decided.
LEMMA ResultConfirmation ==
    ASSUME ConfirmationInv, NEW result \in Results, RecordPairingResult(result),
           pc \in {"request", "auth"}, ~usingStored, UNCHANGED <<pc, usingStored>>
    PROVE  ConfirmationInv'
<1> USE DEF ConfirmationInv, ActiveIsStrict, WaitingIsActive, OneResult, RequestsAreNew,
        NewIsPending, OldIsOvertaken, Requesting, Authenticating, RecordPairingResult
<1>1. CASE result = "yes"
  BY <1>1, Zenon
<1>2. CASE result = "no"
  BY <1>2, Zenon
<1>3. CASE result = "unknown"
  BY <1>3, Zenon
<1> QED
  BY <1>1, <1>2, <1>3, Zenon DEF Results

\* What is known of the flags holds in every state.
LEMMA ConfirmationInvariant == PairingSpec => []ConfirmationInv
<1> USE DEF ConfirmationInv, ActiveIsStrict, WaitingIsActive, OneResult, RequestsAreNew,
        NewIsPending, OldIsOvertaken, Requesting, Authenticating, flagVars, retryVars,
        tokenVars, localVars, repairVars
<1>1. PairingInit => ConfirmationInv
  BY Zenon DEF PairingInit
<1>2. ConfirmationInv /\ [PairingNext]_vars => ConfirmationInv'
  <2> SUFFICES ASSUME ConfirmationInv, [PairingNext]_vars PROVE ConfirmationInv'
    OBVIOUS
  <2>1. CASE LoadToken
    BY <2>1, Zenon DEF LoadToken, FreshPairing
  <2>2. CASE BackoffEnds
    BY <2>2, Zenon DEF BackoffEnds
  <2>3. CASE FailureClosed
    BY <2>3, Zenon DEF FailureClosed, Reconnect
  <2>4. CASE OpenFails
    BY <2>4, Zenon DEF OpenFails, Reconnect
  <2>5. CASE RequestOpened
    BY <2>5, Zenon DEF RequestOpened
  <2>6. CASE RequestAsked
    BY <2>6, Zenon DEF RequestAsked, RecordPairingRequested
  <2>7. ASSUME NEW result \in Results, RequestResult(result) PROVE ConfirmationInv'
    <3>1. ~usingStored /\ UNCHANGED usingStored
      BY <2>7, Zenon DEF RequestResult
    <3> QED
      BY <2>7, <3>1, ResultConfirmation, Zenon DEF RequestResult
  <2>8. CASE RequestRejected
    BY <2>8, Zenon DEF RequestRejected, RecordPairingResult, CountFailure
  <2>9. CASE RequestFails
    BY <2>9, Zenon DEF RequestFails, RecordPairingFailed, CountFailure
  <2>10. ASSUME NEW t \in Tokens, RequestToken(t) PROVE ConfirmationInv'
    <3>1. pc' \in {"request", "manual_auth", "request_close"}
      BY <2>10, Zenon DEF RequestToken, PersistToken
    <3>2. waiting' => waiting
      BY <2>10, Zenon DEF RequestToken, PersistToken
    <3>3. pc = "request" /\ UNCHANGED <<active, require, confirmed, rejected, usingStored>>
      BY <2>10, Zenon DEF RequestToken
    <3>4. WaitingIsActive' /\ ActiveIsStrict' /\ OneResult'
      BY <3>2, <3>3, Zenon
    <3>5. RequestsAreNew' /\ NewIsPending' /\ OldIsOvertaken'
      BY <3>1, <3>3, SMT
    <3> QED
      BY <3>4, <3>5
  <2>11. CASE ManualAuthDone
    BY <2>11, Zenon DEF ManualAuthDone
  <2>12. CASE RequestFinalized
    BY <2>12, Zenon DEF RequestFinalized, PersistToken, SaveToken
  <2>13. CASE RequestClosed
    BY <2>13, Zenon DEF RequestClosed
  <2>14. CASE AuthOpened
    BY <2>14, Zenon DEF AuthOpened
  <2>15. CASE AuthTransportFails \/ AuthRefused \/ AuthTimesOut \/ AuthPairingRefused
               \/ AuthenticatedRejected
    BY <2>15, AuthErrsConfirmation, Zenon DEF AuthTransportFails, AuthRefused, AuthTimesOut,
       AuthPairingRefused, AuthenticatedRejected
  <2>16. CASE AuthAsked
    BY <2>16, Zenon DEF AuthAsked, RecordPairingRequested
  <2>17. ASSUME NEW result \in Results, AuthResult(result) PROVE ConfirmationInv'
    <3>1. ~usingStored /\ UNCHANGED usingStored
      BY <2>17, Zenon DEF AuthResult
    <3> QED
      BY <2>17, <3>1, ResultConfirmation, Zenon DEF AuthResult
  <2>18. ASSUME NEW t \in Tokens, AuthToken(t) PROVE ConfirmationInv'
    BY <2>18, Zenon DEF AuthToken, SaveToken
  <2>19. CASE AuthenticatedPending
    BY <2>19, Zenon DEF AuthenticatedPending
  <2>20. CASE Authenticated
    BY <2>20, Zenon DEF Authenticated, Unconfirmed
  <2>21. CASE AuthFinalized
    BY <2>21, Zenon DEF AuthFinalized
  <2>22. CASE Upgraded
    BY <2>22, Zenon DEF Upgraded
  <2>23. CASE SessionProven
    BY <2>23, Zenon DEF SessionProven
  <2>24. CASE SessionLost
    BY <2>24, Zenon DEF SessionLost, Reconnect
  <2>25. CASE RepairBegins
    BY <2>25, Zenon DEF RepairBegins, BeginManualPairing, FreshPairing
  <2>26. CASE TokenCleared
    BY <2>26, Zenon DEF TokenCleared
  <2>27. ASSUME NEW t \in Tokens, ReauthBegins(t) PROVE ConfirmationInv'
    BY <2>27, Zenon DEF ReauthBegins
  <2>28. CASE LoopEnds
    BY <2>28, Zenon DEF LoopEnds
  <2>29. CASE LoopRestarts
    BY <2>29, Zenon DEF LoopRestarts
  <2>30. CASE UNCHANGED vars
    BY <2>30, Zenon DEF vars
  <2> QED
    BY <2>1, <2>2, <2>3, <2>4, <2>5, <2>6, <2>7, <2>8, <2>9, <2>10, <2>11,
       <2>12, <2>13, <2>14, <2>15, <2>16, <2>17, <2>18, <2>19, <2>20, <2>21,
       <2>22, <2>23, <2>24, <2>25, <2>26, <2>27, <2>28, <2>29, <2>30, Zenon DEF
       PairingNext, RequestStep, AuthStep, RepairStep
<1> QED
  BY <1>1, <1>2, PTL DEF PairingSpec

\* An active pairing needs a confirmation, and waiting is for an active one.
THEOREM PairingsAreStrict == PairingSpec => []FlagsAgree
<1>1. ConfirmationInv => FlagsAgree
  BY DEF ConfirmationInv, FlagsAgree
<1> QED
  BY <1>1, ConfirmationInvariant, PTL

(***************************************************************************)
(* No session is established without a confirmation that still stands or   *)
(* a stored token that no repair has put in doubt.                         *)
(***************************************************************************)
THEOREM EstablishedOnlyConfirmed == PairingSpec => EstablishedIsConfirmed
<1> DEFINE Confirmed == pc = "auth" /\ pc' = "upgrade" =>
                ~rejected /\ (confirmed \/ (usingStored /\ ~require))
<1>1. ConfirmationInv /\ [PairingNext]_vars => [Confirmed]_vars
  <2> SUFFICES ASSUME ConfirmationInv, PairingNext, pc = "auth", pc' = "upgrade"
               PROVE  ~rejected /\ (confirmed \/ (usingStored /\ ~require))
    OBVIOUS
  <2> USE DEF ConfirmationInv, ActiveIsStrict, OneResult, NewIsPending, OldIsOvertaken,
          Authenticating
  <2>1. Authenticated \/ AuthFinalized
    BY SMT DEF PairingNext, LoadToken, BackoffEnds, FailureClosed, OpenFails, RequestStep,
       RequestOpened, RequestAsked, RequestRejected, RequestFails, RequestResult,
       RequestToken, ManualAuthDone, RequestFinalized, RequestClosed, AuthStep, AuthOpened,
       AuthTransportFails, AuthRefused, AuthTimesOut, AuthPairingRefused, AuthAsked,
       AuthenticatedRejected, AuthenticatedPending, Upgraded, AuthResult, AuthToken,
       AuthErrs, SessionProven, SessionLost, RepairStep, RepairBegins, TokenCleared,
       ReauthBegins, LoopEnds, LoopRestarts
  <2>2. CASE Authenticated
    BY <2>2, Zenon DEF Authenticated, Unconfirmed
  <2>3. CASE AuthFinalized
    BY <2>3, Zenon DEF AuthFinalized
  <2> QED
    BY <2>1, <2>2, <2>3
<1> QED
  BY <1>1, ConfirmationInvariant, PTL DEF PairingSpec, EstablishedIsConfirmed

-----------------------------------------------------------------------------
(* Tokens.                                                                 *)

CacheIsStored == cache # None => stored \in {None, cache}

\* Without a pairing in progress there is no discarded token left.
NothingRevoked == ~require => cache \notin revoked /\ stored \notin revoked

(***************************************************************************)
(* Whoever may end a pairing holds the only token there is, but for one a  *)
(* reauthentication has just stored.                                       *)
(***************************************************************************)
OwnToken ==
    pc \in {"request_close", "open_auth", "auth"} =>
        /\ cache \in {None, tok}
        /\ stored \in {None, tok} \/ (rp = "stopping" /\ stored \notin revoked)

TokenInv == CacheIsStored /\ NothingRevoked /\ OwnToken

\* What is known of the tokens holds in every state.
LEMMA TokenInvariant == PairingSpec => []TokenInv
<1> USE PairingAssumption DEF TokenInv, CacheIsStored, NothingRevoked, OwnToken,
        flagVars, retryVars, tokenVars, localVars, repairVars
<1>1. PairingInit => TokenInv
  BY SMT DEF PairingInit
<1>2. DataOK /\ ActiveIsStrict /\ TokenInv /\ [PairingNext]_vars => TokenInv'
  <2> SUFFICES ASSUME DataOK, ActiveIsStrict, TokenInv, [PairingNext]_vars
               PROVE  TokenInv'
    OBVIOUS
  <2> DEFINE Inert == /\ UNCHANGED <<require, cache, stored, revoked, tok, rp>>
                      /\ pc' \in {"request_close", "open_auth", "auth"} =>
                           pc \in {"request_close", "open_auth", "auth"}
  <2>1. ASSUME Inert PROVE TokenInv'
    BY <2>1, SMT
  <2>2. CASE \/ BackoffEnds \/ FailureClosed \/ OpenFails \/ SessionLost \/ SessionProven
             \/ RequestOpened \/ RequestAsked \/ RequestRejected \/ RequestFails
             \/ ManualAuthDone \/ RequestClosed \/ AuthOpened \/ AuthAsked
             \/ AuthenticatedPending \/ Upgraded \/ LoopEnds \/ UNCHANGED vars
             \/ \E result \in Results : RequestResult(result) \/ AuthResult(result)
    <3>1. Inert
      BY <2>2, SMT DEF BackoffEnds, FailureClosed, OpenFails, Reconnect, SessionLost,
         SessionProven, RequestOpened, RequestAsked, RequestRejected, RequestFails,
         RecordPairingRequested, RecordPairingResult, RecordPairingFailed,
         ManualAuthDone, RequestClosed, AuthOpened, AuthAsked, AuthenticatedPending,
         Upgraded, LoopEnds, vars, RequestResult, AuthResult
    <3> QED
      BY <2>1, <3>1
  <2>3. ASSUME NEW kind, AuthErrs(kind), UNCHANGED <<cache, stored, revoked>>
        PROVE  TokenInv'
    <3>1. UNCHANGED require
      BY <2>3, Zenon DEF AuthErrs, RecordPairingFailed
    <3>2. Inert
      BY <2>3, <3>1, SMT DEF AuthErrs
    <3> QED
      BY <2>1, <3>2
  <2> HIDE DEF Inert
  <2>4. CASE AuthTransportFails \/ AuthRefused \/ AuthTimesOut \/ AuthPairingRefused
               \/ AuthenticatedRejected
    BY <2>3, <2>4, Zenon DEF AuthTransportFails, AuthRefused, AuthTimesOut,
       AuthPairingRefused, AuthenticatedRejected
  <2>5. CASE LoadToken
    BY <2>5, SMT DEF LoadToken, FreshPairing
  <2>6. ASSUME NEW t \in Tokens, RequestToken(t) PROVE TokenInv'
    BY <2>6, SMT DEF RequestToken, PersistToken, SaveToken
  <2>7. CASE RequestFinalized
    BY <2>7, SMT DEF RequestFinalized, PersistToken, SaveToken
  <2>8. ASSUME NEW t \in Tokens, AuthToken(t) PROVE TokenInv'
    BY <2>8, SMT DEF AuthToken, SaveToken
  <2>9. CASE Authenticated
    BY <2>9, SMT DEF Authenticated, DataOK, ActiveIsStrict
  <2>10. CASE AuthFinalized
    BY <2>10, SMT DEF AuthFinalized, DataOK
  <2>11. CASE RepairBegins
    BY <2>11, SMT DEF RepairBegins, BeginManualPairing, FreshPairing, DataOK
  <2>12. CASE TokenCleared
    BY <2>12, SMT DEF TokenCleared, DataOK
  <2>13. ASSUME NEW t \in Tokens, ReauthBegins(t) PROVE TokenInv'
    BY <2>13, SMT DEF ReauthBegins, DataOK
  <2>14. CASE LoopRestarts
    BY <2>14, SMT DEF LoopRestarts
  <2> QED
    BY <2>2, <2>4, <2>5, <2>6, <2>7, <2>8, <2>9, <2>10, <2>11, <2>12, <2>13, <2>14,
       Zenon DEF PairingNext, RequestStep, AuthStep, RepairStep
<1>3. PairingTypeOK /\ ConfirmationInv => DataOK /\ ActiveIsStrict
  BY DEF PairingTypeOK, ConfirmationInv
<1> QED
  BY <1>1, <1>2, <1>3, PairingTypeCorrect, ConfirmationInvariant, PTL DEF PairingSpec

(***************************************************************************)
(* The session loop never authenticates with a stored token that a repair  *)
(* has discarded and nobody has confirmed since.                           *)
(***************************************************************************)
THEOREM RevokedNeverUsed == PairingSpec => RevokedIsNotUsed
<1> DEFINE NotRevoked == pc = "load" /\ pc' = "open_auth" => tok' \notin revoked
<1>1. TokenInv /\ [PairingNext]_vars => [NotRevoked]_vars
  <2> SUFFICES ASSUME TokenInv, PairingNext, pc = "load", pc' = "open_auth"
               PROVE  tok' \notin revoked
    OBVIOUS
  <2>1. LoadToken
    BY SMT DEF PairingNext, BackoffEnds, FailureClosed, OpenFails, RequestStep,
       RequestOpened, RequestAsked, RequestRejected, RequestFails, RequestResult,
       RequestToken, ManualAuthDone, RequestFinalized, RequestClosed, AuthStep, AuthOpened,
       AuthTransportFails, AuthRefused, AuthTimesOut, AuthPairingRefused, AuthAsked,
       AuthenticatedRejected, AuthenticatedPending, Authenticated, AuthFinalized, Upgraded,
       AuthResult, AuthToken, AuthErrs, SessionProven, SessionLost, RepairStep,
       RepairBegins, TokenCleared, ReauthBegins, LoopEnds, LoopRestarts
  <2>2. usingStored' /\ tok' \in {cache, stored}
    BY <2>1, SMT DEF LoadToken
  <2>3. ~require
    BY <2>1, <2>2, Zenon DEF LoadToken
  <2> QED
    BY <2>2, <2>3, SMT DEF TokenInv, NothingRevoked
<1> QED
  BY <1>1, TokenInvariant, PTL DEF PairingSpec, RevokedIsNotUsed

-----------------------------------------------------------------------------
(***************************************************************************)
(* The discovery cards, for any announcements, scans, windows and sizes of *)
(* the cache.  The records that suppress a card outrank the others when    *)
(* the cache is pruned, and a flow past the check is for an identity whose *)
(* card does not count any more, or is excused.                            *)
(***************************************************************************)
USE PromptsAssumption

(***************************************************************************)
(* The identities of the announcements that a card can be shown for.  The  *)
(* cache has room for all of them: otherwise cards push the records of     *)
(* each other out, and one is shown again.                                 *)
(***************************************************************************)
CardKeys ==
    {RecordOf[a].key : a \in {x \in Announced :
        ~RecordOf[x].hard /\ RecordOf[x].confidence >= MinConfidence}}

CardsFit == IsFiniteSet(CardKeys) /\ Cardinality(CardKeys) <= MaxRecords

Spots ==
    {Target(RecordOf[a]) : a \in Announced} \cup {Target(Found(s)) : s \in Scanned} \cup {Absent}

Suppressing == {"prompted", "recently_discovered"}

Outcomes ==
    Suppressing \cup {"none", "conflicting_identity", "low_confidence", "cannot_connect",
                      "updated_existing", "created"}

Stages == {"none", "check", "connect", "reach", "record", "card"}

FlowStates ==
    [about : Announced \cup {Absent}, pc : Stages, to : Spots, ctx : Spots, result : Outcomes,
     from : Callers \cup {Absent}, excused : BOOLEAN]

RecordsOK(rs) ==
    /\ rs = [k \in DOMAIN rs |-> rs[k]]
    /\ \A k \in DOMAIN rs :
          /\ rs[k].target \in Spots /\ rs[k].last \in 1 .. now /\ rs[k].prompted \in 0 .. now
          /\ rs[k].result \in Suppressing => k \in CardKeys /\ rs[k].prompted <= rs[k].last

PromptTypeOK ==
    /\ now \in 1 .. MaxTime
    /\ RecordsOK(records)
    /\ flows \in [Callers -> FlowStates]
    /\ calm = [k \in DOMAIN calm |-> calm[k]] /\ \A k \in DOMAIN calm : calm[k] \in 0 .. now

\* The card of an identity was shown less than the window ago; the cache knows.
Calm(k) == k \in DOMAIN calm /\ calm[k] # Never /\ now - calm[k] < Window

CalmIsRecorded ==
    \A k \in DOMAIN calm : Calm(k) =>
       k \in DOMAIN records /\ records[k].result \in Suppressing /\ records[k].prompted = calm[k]

\* A flow is about an announcement while it looks at one, of an identity that a
\* card can be shown for; and past the check it is not for one that was shown.
About(x) == RecordOf[x.about].key

FlowOK(x) ==
    /\ x.pc \in {"check", "reach", "record"} => x.about \in Announced
    /\ (x.about \in Announced /\ x.pc \in {"check", "connect"}) \/ x.result \in Suppressing
         => About(x) \in CardKeys
    /\ x.about # Absent /\ (x.pc = "connect" \/ (x.pc = "record" /\ x.result = "prompted"))
         => x.excused \/ ~Calm(About(x))

PromptInv == PromptTypeOK /\ CalmIsRecorded /\ \A f \in Callers : FlowOK(flows[f])

\* The records that suppress a card and are not too old outrank all others, and
\* there is room for them.
LEMMA Suppressed ==
    ASSUME CardsFit, now \in 1 .. MaxTime, NEW rs, RecordsOK(rs), NEW p \in Pruned(rs)
    PROVE  /\ RecordsOK(p) /\ \A k \in DOMAIN p : k \in DOMAIN rs /\ p[k] = rs[k]
           /\ \A k \in DOMAIN rs : rs[k].result \in Suppressing /\ ~Expired(rs[k]) => k \in DOMAIN p
<1> DEFINE fresh == {k \in DOMAIN rs : ~Expired(rs[k])}
           Keeps(s) == s \in kSubset(MaxRecords, fresh)
                       /\ \A k \in s, x \in fresh \ s : Rank(k, rs) >= Rank(x, rs)
<1>1. ASSUME NEW s \in SUBSET fresh, p = Restrict(rs, s)
      PROVE  RecordsOK(p) /\ DOMAIN p = s /\ \A k \in DOMAIN p : k \in DOMAIN rs /\ p[k] = rs[k]
  BY <1>1 DEF Restrict, RecordsOK
<1>2. ASSUME NEW s \in SUBSET fresh, Keeps(s), NEW k \in fresh, rs[k].result \in Suppressing, k \notin s
      PROVE  FALSE
  <2>1. \A x \in CardKeys : x[1] = "zeroconf"
    <3>1. ASSUME NEW a \in Announced PROVE RecordOf[a].key[1] = "zeroconf"
      <4>1. RecordOf[a].key = <<"zeroconf", Identity(a), a.port>>
        BY DEF RecordOf, Seen
      <4> QED
        BY <4>1
    <3> QED
      BY <3>1 DEF CardKeys
  <2>2. Rank(k, rs) > 3 * MaxTime
    <3>1. k[1] = "zeroconf" /\ rs[k].last \in 1 .. now
      BY <1>2, <2>1 DEF RecordsOK
    <3>2. Rank(k, rs) = rs[k].last + MaxTime * 3
      BY <1>2, <3>1 DEF Rank, Suppressing
    <3> QED
      BY <3>1, <3>2
  <2>3. ASSUME NEW x \in s PROVE x \in CardKeys
    <3>1. x \in DOMAIN rs /\ rs[x].last \in 1 .. now
      BY DEF RecordsOK
    <3>2. Rank(x, rs) >= Rank(k, rs)
      BY <1>2
    <3>3. CASE rs[x].result \in Suppressing
      BY <3>1, <3>3 DEF RecordsOK
    <3>4. CASE rs[x].result \notin Suppressing
      <4>1. Rank(x, rs) = rs[x].last + MaxTime * 1 \/ Rank(x, rs) = rs[x].last + MaxTime * 2
        BY <3>4 DEF Rank, Suppressing
      <4>2. Rank(x, rs) <= 3 * MaxTime
        BY <3>1, <4>1
      <4>3. Rank(x, rs) \in Int /\ Rank(k, rs) \in Int
        <5>1. rs[k].last \in 1 .. now
          BY <1>2 DEF RecordsOK
        <5> QED
          BY <3>1, <4>1, <5>1 DEF Rank
      <4> QED
        BY <2>2, <3>2, <4>2, <4>3
    <3> QED
      BY <3>3, <3>4
  <2>4. k \in CardKeys
    BY <1>2 DEF RecordsOK
  <2>5. IsFiniteSet(s \cup {k}) /\ Cardinality(s \cup {k}) <= MaxRecords /\ IsFiniteSet(s)
    <3>1. s \cup {k} \subseteq CardKeys /\ s \subseteq CardKeys
      BY <2>3, <2>4
    <3>2. Cardinality(CardKeys) \in Nat /\ Cardinality(s \cup {k}) \in Nat
      BY <3>1, FS_Subset, FS_CardinalityType DEF CardsFit
    <3> QED
      BY <3>1, <3>2, FS_Subset DEF CardsFit
  <2>6. Cardinality(s \cup {k}) = MaxRecords + 1
    <3>1. Cardinality(s) = MaxRecords
      BY <1>2 DEF kSubset
    <3> QED
      BY <1>2, <2>5, <3>1, FS_AddElement
  <2> QED
    BY <2>5, <2>6
<1>3. \E s \in SUBSET fresh : p = Restrict(rs, s) /\ (s = fresh \/ Keeps(s))
  <2>1. CASE Cardinality(fresh) <= MaxRecords
    BY <2>1 DEF Pruned
  <2>2. CASE ~(Cardinality(fresh) <= MaxRecords)
    BY <2>2 DEF Pruned, kSubset
  <2> QED
    BY <2>1, <2>2
<1>4. PICK s \in SUBSET fresh : p = Restrict(rs, s) /\ (s = fresh \/ Keeps(s))
  BY <1>3
<1>5. \A k \in fresh : rs[k].result \in Suppressing => k \in s
  BY <1>2, <1>4
<1> QED
  BY <1>1, <1>4, <1>5

LEMMA QuietOK == Quiet \in FlowStates /\ FlowOK(Quiet) /\ Quiet.pc = "none"
<1>1. Quiet \in FlowStates
  BY DEF Quiet, FlowStates, Spots, Stages, Outcomes
<1>2. Quiet.about = Absent /\ Quiet.pc = "none" /\ Quiet.result = "none"
  BY DEF Quiet
<1> QED
  BY <1>1, <1>2 DEF FlowOK, Suppressing

\* Flows go on, while records and cards stay.
LEMMA FlowsGoOn ==
    ASSUME PromptInv, UNCHANGED <<now, records, calm>>, flows' = [f \in Callers |-> flows'[f]],
           \A f \in Callers : flows'[f] = flows[f] \/ (flows'[f] \in FlowStates /\ FlowOK(flows'[f]))
    PROVE  PromptInv'
<1>1. \A f \in Callers : flows'[f] \in FlowStates /\ FlowOK(flows'[f])
  BY DEF PromptInv, PromptTypeOK
<1>2. \A x : FlowOK(x)' <=> FlowOK(x)
  BY DEF FlowOK, About, Calm
<1>3. PromptTypeOK'
  BY <1>1 DEF PromptInv, PromptTypeOK, RecordsOK
<1>4. CalmIsRecorded'
  BY DEF PromptInv, CalmIsRecorded, Calm
<1>5. (\A f \in Callers : FlowOK(flows[f]))'
  BY <1>1 DEF FlowOK, About, Calm
<1> QED
  BY <1>3, <1>4, <1>5 DEF PromptInv

LEMMA OneGoesOn ==
    ASSUME PromptInv, UNCHANGED <<now, records, calm>>, NEW f \in Callers,
           NEW x \in FlowStates, FlowOK(x), flows' = [flows EXCEPT ![f] = x]
    PROVE  PromptInv'
<1>1. flows = [g \in Callers |-> flows[g]]
  BY DEF PromptInv, PromptTypeOK
<1>2. /\ flows' = [g \in Callers |-> flows'[g]]
      /\ \A g \in Callers : flows'[g] = flows[g] \/ (flows'[g] \in FlowStates /\ FlowOK(flows'[g]))
  BY <1>1
<1> QED
  BY <1>2, FlowsGoOn

\* A setup that is prepared ends at once or tests the connection.
LEMMA Prepared ==
    ASSUME PromptInv, UNCHANGED <<now, records, calm>>, NEW f \in Callers,
           NEW x \in FlowStates, FlowOK(x), Prepare(f, x),
           x.about # Absent => x.about \in Announced /\ About(x) \in CardKeys
                               /\ (x.excused \/ ~Calm(About(x)))
    PROVE  PromptInv'
<1> DEFINE y == [x EXCEPT !.ctx = x.to, !.pc = "connect"]
<1>1. /\ y \in FlowStates /\ y.about = x.about /\ y.pc = "connect" /\ y.result = x.result
      /\ (y.excused <=> x.excused)
  BY DEF FlowStates, Stages
<1>2. flows' = [flows EXCEPT ![f] = IF Used(x.to) THEN Quiet ELSE y]
  BY DEF Prepare
<1> HIDE DEF y
<1>3. FlowOK(y)
  <2>1. y.about # Absent => y.about \in Announced /\ About(y) \in CardKeys /\ (y.excused \/ ~Calm(About(y)))
    <3>1. About(y) = About(x)
      BY <1>1 DEF About
    <3> QED
      BY <1>1, <3>1, Zenon
  <2>2. y.pc = "connect" /\ (y.result \in Suppressing => About(y) \in CardKeys)
    BY <1>1 DEF FlowOK, About
  <2>3. y.pc \notin {"check", "reach", "record"}
    BY <2>2
  <2>4. y.about \in Announced => About(y) \in CardKeys
    <3>1. CASE y.about # Absent
      BY <2>1, <3>1
    <3>2. CASE y.about = Absent
      BY <3>2
    <3> QED
      BY <3>1, <3>2
  <2> QED
    BY <2>1, <2>2, <2>3, <2>4, Zenon DEF FlowOK
<1>4. CASE Used(x.to)
  BY <1>2, <1>4, QuietOK, OneGoesOn
<1>5. CASE ~Used(x.to)
  BY <1>1, <1>2, <1>3, <1>5, OneGoesOn
<1> QED
  BY <1>4, <1>5

LEMMA FlowFacts ==
    ASSUME PromptInv, NEW f \in Callers
    PROVE  /\ flows[f] \in FlowStates /\ FlowOK(flows[f]) /\ flows = [g \in Callers |-> flows[g]]
           /\ flows[f].pc \in {"check", "reach", "record"} => flows[f].about \in Announced
           /\ flows[f].about \in Announced => flows[f].about # Absent
BY DEF PromptInv, PromptTypeOK, FlowOK

\* A flow that records another result than a card holds up no card.
LEMMA Records ==
    ASSUME PromptInv, UNCHANGED <<now, records, calm>>, NEW f \in Callers, NEW result \in Outcomes,
           Recording(f, result), flows[f].about \in Announced,
           result \in Suppressing => Key(f) \in CardKeys,
           result = "prompted" => flows[f].excused \/ ~Calm(Key(f))
    PROVE  PromptInv'
<1> DEFINE x == flows[f]
           y == [x EXCEPT !.pc = "record", !.result = result]
<1>1. x \in FlowStates /\ flows = [g \in Callers |-> flows[g]]
  BY FlowFacts
<1>2. flows' = [flows EXCEPT ![f] = y]
  BY <1>1 DEF Recording
<1>3. /\ y \in FlowStates /\ y.pc = "record" /\ y.result = result /\ y.about = x.about
      /\ (y.excused <=> x.excused)
  BY <1>1 DEF FlowStates, Stages
<1> HIDE DEF y
<1>4. About(y) = Key(f)
  BY <1>3 DEF About, Key
<1>5. FlowOK(y)
  <2>1. y.pc \notin {"check", "connect"} /\ y.about \in Announced
    BY <1>3
  <2>2. y.result \in Suppressing => About(y) \in CardKeys
    BY <1>3, <1>4
  <2>3. y.result = "prompted" => y.excused \/ ~Calm(About(y))
    BY <1>3, <1>4, Zenon
  <2>4. y.pc # "connect"
    BY <1>3
  <2> QED
    BY <2>1, <2>2, <2>3, <2>4, Zenon DEF FlowOK
<1> QED
  BY <1>2, <1>3, <1>5, OneGoesOn

LEMMA ArrivesStep == ASSUME PromptInv, NEW f \in Callers, NEW a \in Announced, Arrives(f, a) PROVE PromptInv'
<1> DEFINE t == Target(RecordOf[a])
           new == [Quiet EXCEPT !.about = a, !.to = t]
           good == ~RecordOf[a].hard /\ RecordOf[a].confidence >= MinConfidence
           Goes(stage, result) == flows' = [flows EXCEPT ![f] = [new EXCEPT !.pc = stage, !.result = result]]
<1>1. t \in Spots
  BY DEF Spots
<1>2. new \in FlowStates /\ new.about = a /\ new.pc = "none" /\ new.result = "none"
  BY <1>1, QuietOK DEF Quiet, FlowStates, Outcomes
<1>3. good => RecordOf[a].key \in CardKeys
  BY DEF CardKeys
<1>4. UNCHANGED <<now, records, calm>>
  BY Zenon DEF Arrives, Calmly
<1>5. \/ Goes("record", "conflicting_identity") \/ Goes("record", "low_confidence")
      \/ Goes("reach", "none") \/ (good /\ Goes("check", "none"))
      \/ good /\ Prepare(f, [new EXCEPT !.excused = TRUE])
  BY DEF Arrives
<1> HIDE DEF new, good
<1>6. ASSUME NEW stage, NEW result, Goes(stage, result),
             stage \in {"record", "reach", "check"}, result \in {"none", "conflicting_identity", "low_confidence"},
             stage = "check" => good
      PROVE  PromptInv'
  <2> DEFINE y == [new EXCEPT !.pc = stage, !.result = result]
  <2>1. /\ y \in FlowStates /\ y.pc = stage /\ y.result = result /\ y.about = a
    BY <1>2, <1>6 DEF FlowStates, Stages, Outcomes
  <2> HIDE DEF y
  <2>2. FlowOK(y)
    BY <1>3, <1>6, <2>1 DEF FlowOK, About, Suppressing
  <2> QED
    BY <1>4, <1>6, <2>1, <2>2, OneGoesOn DEF y
<1>7. ASSUME good, Prepare(f, [new EXCEPT !.excused = TRUE]) PROVE PromptInv'
  <2> DEFINE y == [new EXCEPT !.excused = TRUE]
  <2>1. y \in FlowStates /\ y.about = a /\ y.pc = "none" /\ y.result = "none" /\ y.excused
    BY <1>2 DEF FlowStates
  <2> HIDE DEF y
  <2>2. About(y) \in CardKeys
    BY <1>3, <1>7, <2>1 DEF About
  <2>3. FlowOK(y)
    BY <2>1 DEF FlowOK, Suppressing
  <2> QED
    BY <1>4, <1>7, <2>1, <2>2, <2>3, Prepared DEF y
<1> HIDE DEF Goes
<1>8. CASE Goes("record", "conflicting_identity")
  BY <1>6, <1>8
<1>9. CASE Goes("record", "low_confidence")
  BY <1>6, <1>9
<1>10. CASE Goes("reach", "none")
  BY <1>6, <1>10
<1>11. CASE good /\ Goes("check", "none")
  BY <1>6, <1>11
<1> QED
  BY <1>5, <1>7, <1>8, <1>9, <1>10, <1>11

LEMMA CheckStep == ASSUME PromptInv, NEW f \in Callers, Check(f) PROVE PromptInv'
<1>1. /\ flows[f].pc = "check" /\ UNCHANGED <<now, records, calm>>
      /\ \/ Recording(f, "recently_discovered") \/ (~Recent(Key(f)) /\ Prepare(f, flows[f]))
  BY Zenon DEF Check, Still, Calmly
<1>2. flows[f] \in FlowStates /\ flows[f].about \in Announced /\ Key(f) \in CardKeys /\ About(flows[f]) = Key(f)
  BY <1>1, FlowFacts DEF FlowOK, About, Key
<1>3. CASE Recording(f, "recently_discovered")
  BY <1>1, <1>2, <1>3, Records DEF Outcomes, Suppressing
<1>4. CASE ~Recent(Key(f)) /\ Prepare(f, flows[f])
  <2>1. ~Calm(Key(f))
    BY <1>4 DEF PromptInv, CalmIsRecorded, Calm, Recent, Suppressing
  <2> QED
    BY <1>1, <1>2, <1>4, <2>1, FlowFacts, Prepared
<1> QED
  BY <1>1, <1>3, <1>4

LEMMA ConnectsStep == ASSUME PromptInv, NEW f \in Callers, Connects(f) PROVE PromptInv'
<1>1. /\ flows[f].pc = "connect" /\ UNCHANGED <<now, records, calm>>
      /\ \/ /\ flows[f].about # Absent
            /\ Recording(f, "prompted") \/ Recording(f, "cannot_connect")
         \/ flows[f].about = Absent /\ Ending(f)
         \/ /\ flows[f].about = Absent
            /\ flows' = [g \in Callers |-> IF g = f THEN [flows[f] EXCEPT !.pc = "card"]
                                           ELSE IF g = flows[f].from THEN Quiet ELSE flows[g]]
  BY DEF Connects, Still, Calmly
<1>2. flows[f] \in FlowStates /\ FlowOK(flows[f])
  BY FlowFacts
<1>3. CASE flows[f].about # Absent /\ (Recording(f, "prompted") \/ Recording(f, "cannot_connect"))
  <2>1. flows[f].about \in Announced
    BY <1>2, <1>3 DEF FlowStates
  <2>2. About(flows[f]) = Key(f)
    BY DEF About, Key
  <2>3. Key(f) \in CardKeys /\ (flows[f].excused \/ ~Calm(Key(f)))
    <3>1. About(flows[f]) \in CardKeys /\ (flows[f].excused \/ ~Calm(About(flows[f])))
      BY <1>1, <1>2, <1>3, <2>1, Zenon DEF FlowOK
    <3> QED
      BY <2>2, <3>1, Zenon
  <2>4. CASE Recording(f, "prompted")
    BY <1>1, <2>1, <2>3, <2>4, Records DEF Outcomes, Suppressing
  <2>5. CASE Recording(f, "cannot_connect")
    BY <1>1, <2>1, <2>3, <2>5, Records DEF Outcomes, Suppressing
  <2> QED
    BY <1>3, <2>4, <2>5
<1>4. CASE Ending(f)
  BY <1>1, <1>4, QuietOK, OneGoesOn DEF Ending
<1>5. CASE /\ flows[f].about = Absent
           /\ flows' = [g \in Callers |-> IF g = f THEN [flows[f] EXCEPT !.pc = "card"]
                                          ELSE IF g = flows[f].from THEN Quiet ELSE flows[g]]
  <2> DEFINE y == [flows[f] EXCEPT !.pc = "card"]
  <2>1. y \in FlowStates /\ y.about = Absent /\ y.pc = "card"
    BY <1>2, <1>5 DEF FlowStates, Stages
  <2>2. \A g \in Callers : flows'[g] = y \/ flows'[g] = Quiet \/ flows'[g] = flows[g]
    BY <1>5
  <2>3. flows' = [g \in Callers |-> flows'[g]]
    BY <1>5
  <2> HIDE DEF y
  <2>4. FlowOK(y)
    <3>1. y.result \in Suppressing => About(y) \in CardKeys
      <4>1. y.result = flows[f].result /\ About(y) = About(flows[f])
        BY <1>2 DEF y, About, FlowStates
      <4> QED
        BY <1>2, <4>1, Zenon DEF FlowOK
    <3> QED
      BY <2>1, <3>1, PromptsAssumption DEF FlowOK
  <2> QED
    BY <1>1, <2>1, <2>2, <2>3, <2>4, QuietOK, FlowsGoOn
<1> QED
  BY <1>1, <1>3, <1>4, <1>5

LEMMA ReachesStep == ASSUME PromptInv, NEW f \in Callers, Reaches(f) PROVE PromptInv'
<1>1. /\ flows[f].pc = "reach" /\ UNCHANGED <<now, records, calm>>
      /\ Recording(f, "cannot_connect") \/ Recording(f, "updated_existing")
  BY DEF Reaches
<1>2. flows[f].about \in Announced
  BY <1>1, FlowFacts
<1>3. CASE Recording(f, "cannot_connect")
  BY <1>1, <1>2, <1>3, Records DEF Outcomes, Suppressing
<1>4. CASE Recording(f, "updated_existing")
  BY <1>1, <1>2, <1>4, Records DEF Outcomes, Suppressing
<1> QED
  BY <1>1, <1>3, <1>4

LEMMA AnswersStep == ASSUME PromptInv, NEW f \in Callers, Answers(f) PROVE PromptInv'
<1>1. /\ UNCHANGED <<now, records, calm>>
      /\ Ending(f) \/ (flows[f].about # Absent /\ Recording(f, "created"))
  BY DEF Answers, Still, Calmly
<1>2. flows[f].about \in Announced \cup {Absent}
  BY FlowFacts DEF FlowStates
<1>3. CASE Ending(f)
  BY <1>1, <1>3, QuietOK, OneGoesOn DEF Ending
<1>4. CASE flows[f].about # Absent /\ Recording(f, "created")
  BY <1>1, <1>2, <1>4, Records DEF Outcomes, Suppressing
<1> QED
  BY <1>1, <1>3, <1>4

LEMMA ChoosesStep == ASSUME PromptInv, NEW f \in Callers, Chooses(f) PROVE PromptInv'
<1>1. UNCHANGED <<now, records, calm>>
  BY DEF Chooses, Calmly
<1>2. PICK t \in CachedChoices \cup {flows[g].ctx : g \in {x \in Callers : flows[x].about # Absent}} :
        \E from \in Callers \cup {Absent} : Prepare(f, [Quiet EXCEPT !.to = t, !.from = from])
  BY DEF Chooses
<1>3. t \in Spots
  <2>1. CASE t \in CachedChoices
    BY <2>1 DEF CachedChoices, PromptInv, PromptTypeOK, RecordsOK
  <2>2. CASE t \in {flows[g].ctx : g \in {x \in Callers : flows[x].about # Absent}}
    BY <2>2, FlowFacts DEF FlowStates
  <2> QED
    BY <2>1, <2>2
<1>4. PICK from \in Callers \cup {Absent} : Prepare(f, [Quiet EXCEPT !.to = t, !.from = from])
  BY <1>2
<1> DEFINE x == [Quiet EXCEPT !.to = t, !.from = from]
<1>5. x \in FlowStates /\ x.about = Absent /\ x.pc = "none" /\ x.result = "none"
  BY <1>3, QuietOK DEF Quiet, FlowStates
<1>6. Prepare(f, x)
  BY <1>4
<1> HIDE DEF x
<1>7. FlowOK(x)
  BY <1>5 DEF FlowOK, Suppressing
<1> QED
  BY <1>1, <1>5, <1>6, <1>7, Prepared

\* What a card was shown for is neither pruned nor too old while it counts.
LEMMA RecordsGoOn ==
    ASSUME CardsFit, PromptInv, now' = now, NEW rs, RecordsOK(rs), records' \in Pruned(rs),
           \A k \in DOMAIN calm' : calm'[k] \in 0 .. now,
           \A k \in DOMAIN calm' : Calm(k)' =>
              k \in DOMAIN rs /\ rs[k].result \in Suppressing /\ rs[k].prompted = calm'[k]
    PROVE  RecordsOK(records)' /\ CalmIsRecorded'
<1>1. now \in 1 .. MaxTime
  BY DEF PromptInv, PromptTypeOK
<1>2. /\ RecordsOK(records') /\ \A k \in DOMAIN records' : k \in DOMAIN rs /\ records'[k] = rs[k]
      /\ \A k \in DOMAIN rs : rs[k].result \in Suppressing /\ ~Expired(rs[k]) => k \in DOMAIN records'
  BY <1>1, Suppressed
<1>3. RecordsOK(records)'
  BY <1>2 DEF RecordsOK
<1>4. ASSUME NEW k \in DOMAIN calm', Calm(k)'
      PROVE  (k \in DOMAIN records /\ records[k].result \in Suppressing /\ records[k].prompted = calm[k])'
  <2>1. k \in DOMAIN rs /\ rs[k].result \in Suppressing /\ rs[k].prompted = calm'[k]
    BY <1>4
  <2>2. now - calm'[k] < Window
    BY <1>4 DEF Calm
  <2>3. rs[k].last \in 1 .. now /\ calm'[k] <= rs[k].last
    BY <2>1 DEF RecordsOK
  <2>4. ~Expired(rs[k])
    BY <1>1, <2>2, <2>3 DEF Expired
  <2> QED
    BY <1>2, <2>1, <2>4
<1> QED
  BY <1>3, <1>4 DEF CalmIsRecorded

LEMMA RecordStep == ASSUME CardsFit, PromptInv, NEW f \in Callers, Record(f) PROVE PromptInv'
<1> DEFINE result == flows[f].result
           k == Key(f)
           r == RecordOf[flows[f].about]
           w == With(records, r, result, result = "prompted")
<1>1. /\ flows[f].pc = "record" /\ now' = now /\ records' \in Pruned(w)
      /\ flows' = Excuse(f, IF result = "prompted" THEN "card" ELSE "none")
      /\ calm' = [x \in DOMAIN calm \cup {k} |->
                      IF x # k THEN calm[x]
                      ELSE IF result = "prompted" THEN now
                      ELSE IF result = "recently_discovered" /\ k \in DOMAIN calm THEN calm[k]
                      ELSE Never]
  BY Zenon DEF Record
<1>2. /\ flows[f] \in FlowStates /\ FlowOK(flows[f]) /\ flows[f].about \in Announced
      /\ flows[f].about # Absent /\ result \in Outcomes /\ k = r.key
  BY <1>1, FlowFacts DEF Key, FlowStates
<1>3. result \in Suppressing => k \in CardKeys
  BY <1>2 DEF FlowOK, About, Key
<1>4. now \in 1 .. MaxTime /\ RecordsOK(records) /\ \A x \in DOMAIN calm : calm[x] \in 0 .. now
  BY DEF PromptInv, PromptTypeOK
<1>5. /\ DOMAIN w = DOMAIN records \cup {k} /\ w = [x \in DOMAIN w |-> w[x]]
      /\ w[k] = Update(r, records, result, result = "prompted")
      /\ \A x \in DOMAIN records : x # k => w[x] = records[x]
  BY <1>2 DEF With
<1>6. /\ w[k].target \in Spots /\ w[k].last = now /\ w[k].result = result
      /\ w[k].prompted = IF result = "prompted" THEN now
                         ELSE IF k \in DOMAIN records THEN records[k].prompted ELSE Never
  <2>1. Update(r, records, result, result = "prompted") =
          [target |-> Target(r), confidence |-> r.confidence, hard |-> r.hard, last |-> now, result |-> result,
           prompted |-> IF result = "prompted" THEN now
                        ELSE IF r.key \in DOMAIN records THEN records[r.key].prompted ELSE Never]
    BY Zenon DEF Update
  <2>2. Target(r) \in Spots
    BY <1>2 DEF Spots
  <2> HIDE DEF r, w, result, k
  <2> QED
    BY <1>2, <1>5, <2>1, <2>2
<1>7. w[k].prompted \in 0 .. now
  BY <1>4, <1>6 DEF RecordsOK, Never
<1> HIDE DEF w, result, k, r
<1>8. RecordsOK(w)
  <2>1. ASSUME NEW x \in DOMAIN w
        PROVE  /\ w[x].target \in Spots /\ w[x].last \in 1 .. now /\ w[x].prompted \in 0 .. now
               /\ w[x].result \in Suppressing => x \in CardKeys /\ w[x].prompted <= w[x].last
    <3>1. CASE x = k
      BY <1>3, <1>4, <1>6, <1>7, <3>1
    <3>2. CASE x # k
      BY <1>4, <1>5, <3>2 DEF RecordsOK
    <3> QED
      BY <3>1, <3>2
  <2> QED
    BY <1>5, <2>1 DEF RecordsOK
<1>9. calm' = [x \in DOMAIN calm' |-> calm'[x]] /\ \A x \in DOMAIN calm' : calm'[x] \in 0 .. now
  BY <1>1, <1>4 DEF Never
<1>10. \A x : Calm(x)' => Calm(x) \/ (x = k /\ result = "prompted")
  BY <1>1 DEF Calm, Never
<1>11. ASSUME NEW x \in DOMAIN calm', Calm(x)'
       PROVE  x \in DOMAIN w /\ w[x].result \in Suppressing /\ w[x].prompted = calm'[x]
  <2>1. CASE x = k /\ result = "prompted"
    BY <1>1, <1>5, <1>6, <2>1 DEF Suppressing
  <2>2. CASE x = k /\ result # "prompted"
    <3>1. calm'[x] # Never
      BY <1>11 DEF Calm
    <3>2. result = "recently_discovered" /\ k \in DOMAIN calm /\ calm'[x] = calm[k]
      BY <1>1, <2>2, <3>1
    <3>3. k \in DOMAIN records /\ records[k].prompted = calm[k]
      BY <1>10, <1>11, <2>2, <3>2 DEF PromptInv, CalmIsRecorded
    <3> QED
      BY <1>5, <1>6, <2>2, <3>2, <3>3 DEF Suppressing
  <2>3. CASE x # k
    <3>1. x \in DOMAIN calm /\ calm'[x] = calm[x] /\ Calm(x)
      BY <1>1, <1>10, <1>11, <2>3
    <3> QED
      BY <1>5, <2>3, <3>1 DEF PromptInv, CalmIsRecorded
  <2> QED
    BY <2>1, <2>2, <2>3
<1>12. RecordsOK(records)' /\ CalmIsRecorded'
  BY <1>1, <1>8, <1>9, <1>11, RecordsGoOn
<1>13. ASSUME NEW g \in Callers PROVE flows'[g] \in FlowStates /\ FlowOK(flows[g])'
  <2>1. CASE g = f /\ result # "prompted"
    <3>1. flows'[g] = Quiet
      BY <1>1, <2>1 DEF Excuse
    <3>2. Quiet.about = Absent /\ Quiet.pc = "none" /\ Quiet.result = "none"
      BY DEF Quiet
    <3> QED
      BY <3>1, <3>2, QuietOK DEF FlowOK, Suppressing
  <2>2. CASE g = f /\ result = "prompted"
    <3> DEFINE y == [flows[f] EXCEPT !.pc = "card"]
    <3>1. flows'[g] = y
      BY <1>1, <2>2 DEF Excuse
    <3>2. y \in FlowStates /\ y.pc = "card" /\ y.about = flows[f].about
      BY <1>2 DEF FlowStates, Stages
    <3> HIDE DEF y
    <3>3. About(flows[g])' \in CardKeys
      <4>1. About(flows[g])' = k
        BY <3>1, <3>2 DEF About, k, Key
      <4> QED
        BY <1>3, <2>2, <4>1 DEF Suppressing
    <3> QED
      BY <3>1, <3>2, <3>3 DEF FlowOK
  <2>3. CASE g # f
    <3>1. flows[g] \in FlowStates /\ FlowOK(flows[g])
      BY FlowFacts
    <3>2. PICK b \in BOOLEAN :
             b = (flows[g].excused
                  \/ (result = "prompted" /\ flows[g].about # Absent
                      /\ Key(g) = k /\ flows[g].pc \in {"connect", "record"}))
      OBVIOUS
    <3> DEFINE y == [flows[g] EXCEPT !.excused = b]
    <3>3. flows'[g] = y
      BY <1>1, <2>3, <3>2 DEF Excuse, result, k
    <3>4. /\ y \in FlowStates /\ y.pc = flows[g].pc /\ y.about = flows[g].about
          /\ y.result = flows[g].result /\ y.excused = b
      BY <3>1 DEF FlowStates
    <3> HIDE DEF y
    <3> DEFINE id == Key(g)
    <3>5. About(y) = id /\ About(flows[g]) = id
      BY <3>4 DEF About, Key
    <3>8. PICK i : i = id
      OBVIOUS
    <3> HIDE DEF id
    <3>6. y.about # Absent /\ (y.pc = "connect" \/ (y.pc = "record" /\ y.result = "prompted"))
            => b \/ ~Calm(i)'
      <4> SUFFICES ASSUME y.about # Absent, y.pc = "connect" \/ (y.pc = "record" /\ y.result = "prompted"),
                          Calm(i)'
                   PROVE  b
        OBVIOUS
      <4>2. CASE Calm(i)
        <5>1. flows[g].excused
          BY <3>1, <3>4, <3>5, <3>8, <4>2, Zenon DEF FlowOK
        <5> QED
          BY <3>2, <5>1
      <4>3. CASE i = k /\ result = "prompted"
        BY <3>2, <3>4, <3>8, <4>3 DEF id
      <4> QED
        BY <1>10, <4>2, <4>3
    <3>7. /\ y.pc \in {"check", "reach", "record"} => y.about \in Announced
          /\ (y.about \in Announced /\ y.pc \in {"check", "connect"}) \/ y.result \in Suppressing
               => About(y) \in CardKeys
      BY <3>1, <3>4, <3>5, Zenon DEF FlowOK
    <3> DEFINE z == flows'[g]
    <3>9. /\ z \in FlowStates /\ RecordOf[z.about].key = i
          /\ z.pc \in {"check", "reach", "record"} => z.about \in Announced
          /\ (z.about \in Announced /\ z.pc \in {"check", "connect"}) \/ z.result \in Suppressing
               => i \in CardKeys
          /\ z.about # Absent /\ (z.pc = "connect" \/ (z.pc = "record" /\ z.result = "prompted"))
               => z.excused \/ ~Calm(i)'
      BY <3>3, <3>4, <3>5, <3>6, <3>7, <3>8, Zenon DEF About
    <3>10. FlowOK(flows[g])'
      BY <3>9 DEF FlowOK, About, Calm
    <3> QED
      BY <3>9, <3>10
  <2> QED
    BY <2>1, <2>2, <2>3
<1>14. flows' = [g \in Callers |-> flows'[g]]
  BY <1>1 DEF Excuse
<1>15. flows' \in [Callers -> FlowStates]
  BY <1>13, <1>14
<1>16. PromptTypeOK'
  BY <1>1, <1>4, <1>9, <1>12, <1>15 DEF PromptTypeOK
<1> QED
  BY <1>12, <1>13, <1>16 DEF PromptInv

LEMMA ScanStep == ASSUME CardsFit, PromptInv, NEW found \in SUBSET Scanned, Scan(found) PROVE PromptInv'
<1> DEFINE keys == {Found(s).key : s \in found}
           one(k) == CHOOSE s \in found : Found(s).key = k
           rs == [k \in DOMAIN records \cup keys |->
                    IF \E s \in found : Found(s).key = k
                    THEN Update(Found(one(k)), records, "scan_found", FALSE) ELSE records[k]]
<1>1. records' \in Pruned(rs) /\ UNCHANGED <<now, flows, calm>>
  BY DEF Scan
<1>2. now \in 1 .. MaxTime /\ RecordsOK(records) /\ \A x \in DOMAIN calm : calm[x] \in 0 .. now
  BY DEF PromptInv, PromptTypeOK
<1>3. ASSUME NEW k \in keys
      PROVE  /\ rs[k].target \in Spots /\ rs[k].last = now /\ rs[k].prompted \in 0 .. now
             /\ rs[k].result \notin Suppressing /\ k \notin CardKeys
  <2>1. one(k) \in found /\ Found(one(k)).key = k /\ rs[k] = Update(Found(one(k)), records, "scan_found", FALSE)
    BY <1>3
  <2> HIDE DEF one
  <2>2. rs[k].target = Target(Found(one(k))) /\ rs[k].last = now /\ rs[k].result = "scan_found"
        /\ rs[k].prompted = IF k \in DOMAIN records THEN records[k].prompted ELSE Never
    BY <2>1 DEF Update
  <2>3. k[1] = "scan"
    <3>1. Found(one(k)).key = <<"scan", one(k).host, one(k).port>>
      BY DEF Found
    <3> QED
      BY <2>1, <3>1
  <2>4. k \notin CardKeys
    <3>1. ASSUME NEW a \in Announced PROVE RecordOf[a].key[1] = "zeroconf"
      <4>1. RecordOf[a].key = <<"zeroconf", Identity(a), a.port>>
        BY DEF RecordOf, Seen
      <4> QED
        BY <4>1
    <3> QED
      BY <2>3, <3>1 DEF CardKeys
  <2>5. rs[k].target \in Spots
    BY <2>1, <2>2 DEF Spots
  <2>6. rs[k].prompted \in 0 .. now
    <3>1. PICK p : p = rs[k].prompted
      OBVIOUS
    <3> HIDE DEF rs, keys
    <3>2. p = IF k \in DOMAIN records THEN records[k].prompted ELSE Never
      BY <2>2, <3>1
    <3>3. p \in 0 .. now
      BY <1>2, <3>2 DEF RecordsOK, Never
    <3> QED
      BY <3>1, <3>3
  <2> HIDE DEF rs
  <2> QED
    BY <2>2, <2>4, <2>5, <2>6 DEF Suppressing
<1>4. \A k \in DOMAIN records \ keys : rs[k] = records[k]
  OBVIOUS
<1>5. DOMAIN rs = DOMAIN records \cup keys /\ rs = [k \in DOMAIN rs |-> rs[k]]
  OBVIOUS
<1> HIDE DEF rs, keys, one
<1>6. RecordsOK(rs)
  <2>1. ASSUME NEW x \in DOMAIN rs
        PROVE  /\ rs[x].target \in Spots /\ rs[x].last \in 1 .. now /\ rs[x].prompted \in 0 .. now
               /\ rs[x].result \in Suppressing => x \in CardKeys /\ rs[x].prompted <= rs[x].last
    <3>1. CASE x \in keys
      BY <1>2, <1>3, <3>1
    <3>2. CASE x \notin keys
      BY <1>2, <1>4, <1>5, <3>2 DEF RecordsOK
    <3> QED
      BY <3>1, <3>2
  <2> QED
    BY <1>5, <2>1 DEF RecordsOK
<1>7. ASSUME NEW k \in DOMAIN calm', Calm(k)'
      PROVE  k \in DOMAIN rs /\ rs[k].result \in Suppressing /\ rs[k].prompted = calm'[k]
  <2>1. k \in DOMAIN records /\ records[k].result \in Suppressing /\ records[k].prompted = calm[k]
    BY <1>1, <1>7 DEF PromptInv, CalmIsRecorded, Calm
  <2>2. k \in CardKeys
    BY <1>2, <2>1 DEF RecordsOK
  <2> QED
    BY <1>1, <1>3, <1>4, <1>5, <2>1, <2>2
<1>8. RecordsOK(records)' /\ CalmIsRecorded'
  BY <1>1, <1>2, <1>6, <1>7, RecordsGoOn
<1>9. PromptTypeOK'
  BY <1>1, <1>8 DEF PromptInv, PromptTypeOK
<1>10. (\A f \in Callers : FlowOK(flows[f]))'
  BY <1>1 DEF PromptInv, FlowOK, About, Calm
<1> QED
  BY <1>8, <1>9, <1>10 DEF PromptInv

LEMMA RestartStep == ASSUME PromptInv, Restart PROVE PromptInv'
<1>1. /\ now' = now /\ flows' = [f \in Callers |-> Quiet]
      /\ UNCHANGED <<records, calm>> \/ (records' = <<>> /\ calm' = <<>>)
  BY DEF Restart
<1>2. RecordsOK(records)' /\ CalmIsRecorded'
      /\ (calm = [k \in DOMAIN calm |-> calm[k]] /\ \A k \in DOMAIN calm : calm[k] \in 0 .. now)'
  <2>1. CASE UNCHANGED <<records, calm>>
    BY <1>1, <2>1 DEF PromptInv, PromptTypeOK, RecordsOK, CalmIsRecorded, Calm
  <2>2. CASE records' = <<>> /\ calm' = <<>>
    BY <2>2 DEF RecordsOK, CalmIsRecorded
  <2> QED
    BY <1>1, <2>1, <2>2
<1>3. PromptTypeOK'
  BY <1>1, <1>2, QuietOK DEF PromptInv, PromptTypeOK
<1>4. (\A f \in Callers : FlowOK(flows[f]))'
  <2>1. Quiet.about = Absent /\ Quiet.pc = "none" /\ Quiet.result = "none"
    BY DEF Quiet
  <2> QED
    BY <1>1, <2>1 DEF FlowOK, Suppressing
<1> QED
  BY <1>2, <1>3, <1>4 DEF PromptInv

LEMMA PassesStep == ASSUME PromptInv, Passes PROVE PromptInv'
<1>1. now < MaxTime /\ now' = now + 1 /\ UNCHANGED <<records, flows, calm>>
  BY DEF Passes
<1>2. now \in 1 .. MaxTime /\ \A x \in DOMAIN calm : calm[x] \in 0 .. now
  BY DEF PromptInv, PromptTypeOK
<1>3. \A x : Calm(x)' => Calm(x)
  BY <1>1, <1>2 DEF Calm
<1>4. PromptTypeOK'
  <2>1. RecordsOK(records)'
    BY <1>1, <1>2 DEF PromptInv, PromptTypeOK, RecordsOK
  <2> QED
    BY <1>1, <1>2, <2>1 DEF PromptInv, PromptTypeOK
<1>5. CalmIsRecorded'
  BY <1>1, <1>3 DEF PromptInv, CalmIsRecorded
<1>6. (\A f \in Callers : FlowOK(flows[f]))'
  BY <1>1, <1>3 DEF PromptInv, FlowOK, About
<1> QED
  BY <1>4, <1>5, <1>6 DEF PromptInv

LEMMA PromptInvHolds == CardsFit => (PromptsSpec => []PromptInv)
<1> SUFFICES ASSUME CardsFit PROVE PromptsSpec => []PromptInv
  OBVIOUS
<1>1. PromptsInit => PromptInv
  <2> SUFFICES ASSUME PromptsInit PROVE PromptInv
    OBVIOUS
  <2>1. now = 1 /\ records = <<>> /\ calm = <<>> /\ flows = [f \in Callers |-> Quiet]
    BY DEF PromptsInit
  <2>2. PromptTypeOK
    BY <2>1, QuietOK DEF PromptTypeOK, RecordsOK
  <2>3. CalmIsRecorded
    BY <2>1 DEF CalmIsRecorded
  <2> QED
    BY <2>1, <2>2, <2>3, QuietOK DEF PromptInv
<1>2. PromptInv /\ [PromptsNext]_promptVars => PromptInv'
  <2> SUFFICES ASSUME PromptInv, [PromptsNext]_promptVars PROVE PromptInv'
    OBVIOUS
  <2>1. CASE UNCHANGED promptVars
    <3>1. UNCHANGED <<now, records, calm, flows>>
      BY <2>1 DEF promptVars
    <3>2. flows' = [f \in Callers |-> flows'[f]] /\ \A f \in Callers : flows'[f] = flows[f]
      BY <3>1 DEF PromptInv, PromptTypeOK
    <3> QED
      BY <3>1, <3>2, FlowsGoOn
  <2>2. ASSUME NEW f \in Callers,
               \/ \E a \in Announced : Arrives(f, a)
               \/ Check(f) \/ Connects(f) \/ Reaches(f) \/ Record(f) \/ Answers(f) \/ Chooses(f)
        PROVE  PromptInv'
    BY <2>2, ArrivesStep, CheckStep, ConnectsStep, ReachesStep, RecordStep, AnswersStep, ChoosesStep
  <2>3. CASE \E found \in SUBSET Scanned : Scan(found)
    BY <2>3, ScanStep
  <2> QED
    BY <2>1, <2>2, <2>3, RestartStep, PassesStep DEF PromptsNext
<1> QED
  BY <1>1, <1>2, PTL DEF PromptsSpec

\* The flows, the records and the cards of each identity have their types
\* (config_flow.py, async_step_zeroconf; discovery_state.py).
THEOREM PromptType == CardsFit => (PromptsSpec => []PromptTypeOK)
<1> SUFFICES ASSUME CardsFit PROVE PromptsSpec => []PromptTypeOK
  OBVIOUS
<1> QED
  BY PromptInvHolds, PTL DEF PromptInv

\* With room for every identity that a card can be shown for, a second card
\* within the window is shown only for the reasons that CardsAreSpaced names:
\* the record of the first one outranks whatever else the cache keeps and is
\* not too old before the window ends (discovery_state.py:31, 282, 656).
THEOREM CardsStaySpaced == CardsFit => (PromptsSpec => CardsAreSpaced)
<1> SUFFICES ASSUME CardsFit PROVE PromptsSpec => CardsAreSpaced
  OBVIOUS
<1> DEFINE Spaced ==
      \A f \in Callers :
         /\ flows[f].pc = "record" /\ flows[f].result = "prompted" /\ flows'[f].pc = "card"
         /\ Key(f) \in DOMAIN calm /\ calm[Key(f)] # Never
         => now - calm[Key(f)] >= Window \/ flows[f].excused
<1>1. PromptInv /\ [PromptsNext]_promptVars => [Spaced]_promptVars
  <2> SUFFICES ASSUME PromptInv PROVE Spaced
    OBVIOUS
  <2> SUFFICES ASSUME NEW f \in Callers, flows[f].pc = "record", flows[f].result = "prompted",
                      Key(f) \in DOMAIN calm, calm[Key(f)] # Never, ~flows[f].excused
               PROVE  now - calm[Key(f)] >= Window
    OBVIOUS
  <2>1. flows[f].about # Absent /\ FlowOK(flows[f])
    BY FlowFacts
  <2>2. ~Calm(About(flows[f]))
    BY <2>1, Zenon DEF FlowOK
  <2>3. About(flows[f]) = Key(f)
    BY DEF About, Key
  <2>4. ~(now - calm[Key(f)] < Window)
    BY <2>2, <2>3 DEF Calm
  <2>5. now \in Int /\ calm[Key(f)] \in Int
    BY DEF PromptInv, PromptTypeOK
  <2> QED
    BY <2>4, <2>5
<1> QED
  BY <1>1, PromptInvHolds, PTL DEF PromptsSpec, CardsAreSpaced

=============================================================================
