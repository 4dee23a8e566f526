-------------------------------- MODULE Ntrip --------------------------------
(***************************************************************************)
(* The stream of corrections (DGNSS over NTRIP): GnssAdapter asks the XTRA *)
(* daemon for a source of corrections while somebody tracks, and keeps     *)
(* what it asked to ask again when the daemon restarts.                    *)
(*                                                                         *)
(* Some sources want the position of the device, as a GGA sentence.  They  *)
(* are asked for once a sentence was made, and told a new one every ten    *)
(* minutes.  The adapter's task handles the commands, the answers of the   *)
(* modem and the sentences; consent to give the position away is set on    *)
(* the caller's thread.  The modem and the daemon are external.            *)
(***************************************************************************)
EXTENDS Naturals

CONSTANTS
  Sources,       \* parameters of sources
  Wanting,       \* the sources that require the position (requiresNmeaLocation)
  NoSource,
  ApNmea,        \* sentences are made by the adapter, not by the modem
  Swaps,         \* another source may be enabled while one is in use
  ConsentChanges,
  MayRefuse,     \* the modem may refuse to start
  MaxAnswers,    \* bound of the starts not yet answered
  MaxRestarts    \* bound of the restarts of the daemon

ASSUME SourcesAssumption == NoSource \notin Sources /\ Wanting \subseteq Sources
ASSUME AnswersAssumption == MaxAnswers \in Nat

VARIABLES
  enabled, noPending, streaming,    \* the bits of mDgnssState
  ntripParams,   \* mStartDgnssNtripParams.ntripParams
  gga,           \* mStartDgnssNtripParams.nmea: of this session, of one before, or none
  consent,       \* mSendNmeaConsent
  lastGga,       \* mDgnssLastNmeaBootTimeMilli: zero, within ten minutes, or older
  inSession,     \* mTimeBasedTrackingSessions is not empty
  suspended,     \* suspendSessions was called, the restart is due
  startAnswers,  \* starts of the modem not yet answered
  keptParams,    \* mNtripParamsString
  daemonUp,
  daemonSource,  \* the source the daemon reads, with the position it was given
  statusAsked,   \* requestStatus is in the adapter's queue
  restarts

dgnssState == <<enabled, noPending, streaming, ntripParams, gga, lastGga>>
daemon == <<daemonUp, statusAsked, restarts>>
ntripVars ==
  <<dgnssState, consent, inSession, suspended, startAnswers, keptParams, daemonSource, daemon>>

Nothing == [source |-> NoSource, gga |-> "none"]

NtripInit ==
  /\ enabled = FALSE /\ noPending = FALSE /\ streaming = FALSE
  /\ ntripParams = NoSource /\ gga = "none" /\ consent \in BOOLEAN /\ lastGga = "zero"
  /\ inSession = FALSE /\ suspended = FALSE /\ startAnswers = 0
  /\ keptParams = Nothing /\ daemonUp = TRUE /\ daemonSource = Nothing
  /\ statusAsked = FALSE /\ restarts = 0

-----------------------------------------------------------------------------
(***************************************************************************)
(* The source, once the state is known.                                    *)
(***************************************************************************)
IsDgnssNmeaRequired(source) == consent /\ source \in Wanting

\* A message to the daemon is lost while it is down.
Told(source) == IF daemonUp THEN source ELSE daemonSource

StartDgnssSource(source, position) ==
  LET asked == [source |-> source, gga |-> IF source \in Wanting THEN position ELSE "none"] IN
  keptParams' = asked /\ daemonSource' = Told(asked)

\* A slip: what was asked is not forgotten with the source.
StopDgnssSource_Keeps == UNCHANGED keptParams /\ daemonSource' = Told(Nothing)

StopDgnssSource == keptParams' = Nothing /\ daemonSource' = Told(Nothing)

\* checkUpdateDgnssNtrip, with the bits and the sentence as they are by then.
CheckUpdate(source, on, clear, running, position, valid) ==
  LET starts == inSession /\ on /\ clear /\ ~running
      updates == inSession /\ running /\ valid /\ IsDgnssNmeaRequired(source) /\ lastGga # "recent"
  IN
  /\ enabled' = on /\ noPending' = clear /\ ntripParams' = source /\ gga' = position
  /\ streaming' = (running \/ starts)
  /\ IF starts THEN StartDgnssSource(source, position)
     ELSE IF updates /\ daemonUp /\ daemonSource # Nothing
     THEN daemonSource' = [daemonSource EXCEPT !.gga = position] /\ UNCHANGED keptParams
     ELSE UNCHANGED <<keptParams, daemonSource>>
  /\ lastGga' = IF (starts /\ IsDgnssNmeaRequired(source)) \/ updates THEN "recent" ELSE lastGga

CheckAgain == CheckUpdate(ntripParams, enabled, noPending, streaming, gga, FALSE)

\* stopDgnssNtrip.
Stop ==
  /\ gga' = "none" /\ streaming' = FALSE
  /\ IF streaming THEN StopDgnssSource ELSE UNCHANGED <<keptParams, daemonSource>>

\* What a stop of the modem's session does to the stream.
StopWithSession ==
  /\ Stop
  /\ noPending' = (noPending /\ ~IsDgnssNmeaRequired(ntripParams))
  /\ UNCHANGED <<enabled, ntripParams, lastGga>>

-----------------------------------------------------------------------------
(***************************************************************************)
(* The adapter's handlers.                                                 *)
(***************************************************************************)
HandleEnablePPENtrip(source) ==
  /\ Swaps \/ ~streaming \/ source = ntripParams
  /\ ~(enabled /\ source = ntripParams)
  /\ IF IsDgnssNmeaRequired(source)
     THEN /\ enabled' = TRUE /\ noPending' = FALSE /\ streaming' = FALSE
          /\ ntripParams' = source /\ gga' = "none" /\ lastGga' = "zero"
          /\ UNCHANGED <<keptParams, daemonSource>>
     ELSE CheckUpdate(source, TRUE, TRUE, FALSE, "none", FALSE)
  /\ UNCHANGED <<consent, inSession, suspended, startAnswers, daemon>>

HandleDisablePPENtrip ==
  /\ enabled' = FALSE /\ noPending' = TRUE /\ Stop
  /\ UNCHANGED <<ntripParams, lastGga, consent, inSession, suspended, startAnswers, daemon>>

\* The first session starts the modem; the answer looks after the stream.
StartTimeBasedTracking ==
  /\ ~inSession /\ inSession' = TRUE
  /\ startAnswers < MaxAnswers /\ startAnswers' = startAnswers + 1
  /\ gga' = IF gga = "new" THEN "old" ELSE gga
  /\ UNCHANGED <<enabled, noPending, streaming, ntripParams, lastGga, consent, suspended,
                 keptParams, daemonSource, daemon>>

StartAnswered ==
  /\ startAnswers > 0 /\ startAnswers' = startAnswers - 1
  /\ CheckAgain
  /\ UNCHANGED <<consent, inSession, suspended, daemon>>

StartRefused ==
  /\ MayRefuse /\ startAnswers > 0 /\ startAnswers' = startAnswers - 1
  /\ inSession' = FALSE
  /\ UNCHANGED <<dgnssState, consent, suspended, keptParams, daemonSource, daemon>>

StopTracking ==
  /\ inSession /\ inSession' = FALSE /\ StopWithSession
  /\ UNCHANGED <<consent, suspended, startAnswers, daemon>>

\* The satellites to use are configured: sessions are suspended, and restarted
\* with the answer.
SuspendSessions ==
  /\ inSession /\ ~suspended /\ suspended' = TRUE /\ StopWithSession
  /\ UNCHANGED <<consent, inSession, startAnswers, daemon>>

\* The same restarts a session when the modem is back.
RestartSessions ==
  /\ suspended' = FALSE
  /\ IF inSession THEN CheckAgain ELSE UNCHANGED <<dgnssState, keptParams, daemonSource>>
  /\ UNCHANGED <<consent, inSession, startAnswers, daemon>>

\* A GGA sentence: the adapter makes them for fixes while it tracks, without a
\* position too; of the modem's those with a position count, whenever they come.
ReportGGA(valid) ==
  /\ IsDgnssNmeaRequired(ntripParams)
  /\ IF ApNmea THEN inSession ELSE valid
  /\ CheckUpdate(ntripParams, enabled, TRUE, streaming, "new", valid)
  /\ UNCHANGED <<consent, inSession, suspended, startAnswers, daemon>>

HandleStatusRequest ==
  /\ statusAsked /\ statusAsked' = FALSE
  /\ daemonSource' = IF keptParams # Nothing THEN Told(keptParams) ELSE daemonSource
  /\ UNCHANGED <<dgnssState, consent, inSession, suspended, startAnswers, keptParams, daemonUp,
                 restarts>>

-----------------------------------------------------------------------------
(***************************************************************************)
(* Others.                                                                 *)
(***************************************************************************)
UpdateNTRIPGGAConsent ==
  /\ ConsentChanges /\ consent' = ~consent
  /\ UNCHANGED <<dgnssState, inSession, suspended, startAnswers, keptParams, daemonSource, daemon>>

TenMinutes ==
  /\ lastGga = "recent" /\ lastGga' = "old"
  /\ UNCHANGED <<enabled, noPending, streaming, ntripParams, gga, consent, inSession, suspended,
                 startAnswers, keptParams, daemonSource, daemon>>

DaemonDies ==
  /\ daemonUp /\ restarts < MaxRestarts
  /\ daemonUp' = FALSE /\ daemonSource' = Nothing /\ restarts' = restarts + 1
  /\ UNCHANGED <<dgnssState, consent, inSession, suspended, startAnswers, keptParams, statusAsked>>

DaemonReturns ==
  /\ ~daemonUp /\ daemonUp' = TRUE /\ statusAsked' = TRUE
  /\ UNCHANGED <<dgnssState, consent, inSession, suspended, startAnswers, keptParams, daemonSource,
                 restarts>>

NtripNext ==
  \/ \E s \in Sources : HandleEnablePPENtrip(s)
  \/ HandleDisablePPENtrip
  \/ StartTimeBasedTracking \/ StartAnswered \/ StartRefused \/ StopTracking
  \/ SuspendSessions \/ RestartSessions
  \/ \E valid \in BOOLEAN : ReportGGA(valid)
  \/ HandleStatusRequest \/ UpdateNTRIPGGAConsent \/ TenMinutes \/ DaemonDies \/ DaemonReturns

NtripSpec == NtripInit /\ [][NtripNext]_ntripVars

-----------------------------------------------------------------------------
NtripTypeOK ==
  /\ {enabled, noPending, streaming, inSession, suspended, consent} \subseteq BOOLEAN
  /\ ntripParams \in Sources \cup {NoSource}
  /\ gga \in {"none", "old", "new"} /\ lastGga \in {"zero", "recent", "old"}
  /\ startAnswers \in 0 .. MaxAnswers
  /\ {keptParams, daemonSource}
       \subseteq [source : Sources \cup {NoSource}, gga : {"none", "old", "new"}]

Settled == startAnswers = 0 /\ ~suspended /\ daemonUp /\ ~statusAsked

\* When nothing is under way, the daemon reads the source that was enabled last if
\* somebody tracks and the position the source wants is known, and none otherwise:
\* whatever sessions, commands and restarts of the daemon came in between.
SourceFollows ==
  Settled =>
    /\ daemonSource.source =
         IF enabled /\ inSession /\ (IsDgnssNmeaRequired(ntripParams) => noPending)
         THEN ntripParams ELSE NoSource
    /\ streaming <=> keptParams # Nothing

\* A source that requires the position is never asked for with one of a session that
\* has ended.
PositionFresh == keptParams.gga # "old"

\* Whatever happens to the sessions, the settings and the modem, a daemon that has
\* restarted reads the source that was asked for last.
DaemonFollows == Settled => daemonSource.source = keptParams.source

\* With consent, a source that requires the position is asked for with one.
PositionGiven ==
  consent /\ keptParams.source \in Wanting => keptParams.gga # "none"

\* Nothing changes below the adapter but its sessions, the daemon and the source that
\* is enabled when none is in use.
Steady == ApNmea /\ ~Swaps /\ ~ConsentChanges /\ ~MayRefuse

\* The daemon reads the source it was asked for last, and when nothing else changes that
\* is the one it should read, with a position of the session.
CorrectionsTrue ==
  /\ DaemonFollows
  /\ Steady => SourceFollows /\ PositionFresh /\ PositionGiven
=============================================================================
