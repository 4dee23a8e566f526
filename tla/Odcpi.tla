--------------------------------- MODULE Odcpi ---------------------------------
(***************************************************************************)
(* On demand injection of a coarse position (gps/gnss/GnssAdapter.cpp and  *)
(* its OdcpiTimer).                                                        *)
(*                                                                         *)
(* The modem starts and stops requests for a position, often in quick      *)
(* succession.  The adapter passes them on to the framework at most once   *)
(* per period of a timer, and repeats a request that is still active when  *)
(* the timer expires.  The expiry comes from the timer's thread and is a   *)
(* message to the adapter: requests may be handled ahead of it.            *)
(***************************************************************************)
EXTENDS Naturals

CONSTANT MaxExpires     \* bound: expiries not yet handled

VARIABLES
  registered,     \* mOdcpiRequestCb is set
  priority,       \* mCallbackPriority is high
  requestActive,  \* mOdcpiRequestActive
  emergency,      \* mOdcpiRequest.isEmergencyMode
  timerActive,    \* OdcpiTimer::mActive
  running,        \* the LocTimer below it
  expires,        \* expiry messages on the adapter's queue
  framework       \* the last request the framework got

odcpiVars == <<registered, priority, requestActive, emergency, timerActive, running,
               expires, framework>>

OdcpiTypeOK ==
  /\ {registered, priority, requestActive, emergency, timerActive, running} \subseteq BOOLEAN
  /\ expires \in Nat
  /\ framework \in {"none", "start", "start_emergency", "stop"}

OdcpiInit ==
  /\ registered = FALSE /\ priority = FALSE
  /\ requestActive = FALSE /\ emergency = FALSE
  /\ timerActive = FALSE /\ running = FALSE /\ expires = 0
  /\ framework = "none"

StartOf(em) == IF em THEN "start_emergency" ELSE "start"

\* start, stop and restart of the timer.
TimerStarted == timerActive' = TRUE /\ running' = TRUE
TimerStopped == timerActive' = FALSE /\ running' = FALSE
TimerKept == UNCHANGED <<timerActive, running>>

\* initOdcpi: a client of at least the same priority replaces the callback.
InitOdcpi(high) ==
  /\ priority => high
  /\ registered' = TRUE /\ priority' = high
  /\ UNCHANGED <<requestActive, emergency, timerActive, running, expires, framework>>

\* A start is passed on when nothing is active, and when it is the first that is
\* an emergency; otherwise the timer's expiry passes it on.
RequestStart(em) ==
  /\ registered
  /\ \/ /\ ~requestActive /\ ~timerActive
        /\ framework' = StartOf(em) /\ requestActive' = TRUE /\ TimerStarted
     \/ /\ requestActive \/ timerActive
        /\ ~emergency /\ em
        /\ framework' = StartOf(em) /\ requestActive' = TRUE /\ TimerStarted
     \/ /\ requestActive \/ timerActive
        /\ emergency \/ ~em
        /\ requestActive' = TRUE /\ TimerKept /\ UNCHANGED framework
  /\ emergency' = em
  /\ UNCHANGED <<registered, priority, expires>>

\* A stop lets the timer run, and leaves the last start's mode where it is.
RequestStop ==
  /\ registered
  /\ framework' = "stop" /\ requestActive' = FALSE
  /\ UNCHANGED <<registered, priority, emergency, timerActive, running, expires>>

\* restartSessions after a restart of the modem.
ModemRestarts ==
  /\ requestActive' = FALSE
  /\ UNCHANGED <<registered, priority, emergency, timerActive, running, expires, framework>>

\* timeOutCallback, on the timer's thread; the LocTimer is done by then.
TimeOut ==
  /\ running /\ running' = FALSE
  /\ expires < MaxExpires /\ expires' = expires + 1
  /\ UNCHANGED <<registered, priority, requestActive, emergency, timerActive, framework>>

\* Slip: the timer is restarted only if it has not been stopped meanwhile.
TimerExpire_Once ==
  /\ expires > 0 /\ expires' = expires - 1
  /\ \/ /\ requestActive
        /\ framework' = StartOf(emergency) /\ TimerKept
     \/ /\ ~requestActive
        /\ TimerStopped /\ UNCHANGED framework
  /\ UNCHANGED <<registered, priority, requestActive, emergency>>

\* Slip: an active request is not repeated.
TimerExpire_Silent ==
  /\ expires > 0 /\ expires' = expires - 1
  /\ IF requestActive THEN TimerStarted ELSE TimerStopped
  /\ UNCHANGED <<registered, priority, requestActive, emergency, framework>>

\* odcpiTimerExpire.
TimerExpire ==
  /\ expires > 0 /\ expires' = expires - 1
  /\ \/ /\ requestActive
        /\ framework' = StartOf(emergency) /\ TimerStarted
     \/ /\ ~requestActive
        /\ TimerStopped /\ UNCHANGED framework
  /\ UNCHANGED <<registered, priority, requestActive, emergency>>

OdcpiNext ==
  \/ \E high \in BOOLEAN : InitOdcpi(high)
  \/ \E em \in BOOLEAN : RequestStart(em)
  \/ RequestStop \/ ModemRestarts \/ TimeOut \/ TimerExpire

\* The adapter's thread handles what is queued, and time passes.
OdcpiFair == WF_odcpiVars(TimerExpire) /\ WF_odcpiVars(TimeOut)

OdcpiSpec == OdcpiInit /\ [][OdcpiNext]_odcpiVars /\ OdcpiFair

-----------------------------------------------------------------------------
\* A request that waits for the timer waits for one that runs, or whose expiry is
\* on its way: however starts, stops, restarts and late expiries follow each
\* other, nothing stops the timer for good while a request is active.
OdcpiTimed ==
  /\ requestActive => timerActive
  /\ timerActive => running \/ expires > 0

\* A request that stays active reaches the framework, although the framework was
\* told to stop, or forgot it, in between.
OdcpiRequested ==
  requestActive ~> (framework \in {"start", "start_emergency"} \/ ~requestActive)
=============================================================================
