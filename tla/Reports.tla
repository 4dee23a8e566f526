------------------------------- MODULE Reports -------------------------------
(***************************************************************************)
(* What the modem and the engine hub report while tracking, on its way     *)
(* through GnssAdapter to the clients: positions with the NMEA sentences   *)
(* made of them, satellites and latencies.                                 *)
(*                                                                         *)
(* LocApi's thread turns each report into a message of the adapter's task, *)
(* or hands it to the engine hub, which reports fixes and satellites of    *)
(* its own later.  What one report leaves behind, the next one uses: the   *)
(* satellites of a fix mark those of the next satellite report, the time   *)
(* of its sentences decides on the next ones, and a latency waits for the  *)
(* fix it belongs to.  What a report says but for that is left out.        *)
(***************************************************************************)
EXTENDS Integers, FiniteSets, Sequences

CONSTANTS
  Callbacks,        \* a function: the callbacks that each client has
  Hub,              \* the engine hub is loaded
  ApNmea,           \* NMEA_PROVIDER_AP: sentences are made here
  OneHz,            \* NMEA_REPORT_RATE is 1HZ
  Intermediates,    \* INTERMEDIATE_POS: intermediate fixes are reported
  FlpNetwork,       \* mAllowFlpNetworkFixes
  Satellites, Bands,
  Fixes,            \* the fixes of the modem
  Kinds,            \* the kinds of reports the modem makes
  SessionKinds,     \* the kinds of sessions clients start: "time", "distance"
  Intervals,        \* intervals of tracking, in ms
  Starts,           \* the modem's time at first, in ms
  MaxTime,          \* bound of the modem's time
  MaxQueue,         \* bound of the reports under way
  Never             \* no sentences were made yet

VARIABLES
  tracked,      \* the kinds of sessions listed: time and distance based
  interval,     \* mLocPositionMode.min_interval
  toAdapter,    \* reports in the queue of the adapter's task
  atHub,        \* reports the engine hub has yet to deal with
  svAvail, svUsed,       \* mGnssSvIdUsedInPosAvail, mGnssSvIdUsedInPosition
  mbAvail, mbUsed,       \* mGnssMbSvIdUsedInPosAvail, mGnssMbSvIdUsedInPosition
  prevNmea,     \* mPrevNmeaRptTimeNsec
  latencies,    \* mGnssLatencyInfoQueue: the moments the entries are about
  clock,        \* the modem's time
  due,          \* what the modem may still report of this moment
  \* history
  seenUsed,     \* the signals used in the fix GNSS clients got last, since the satellites
  lastOurs,     \* that was the last fix reported to anybody
  intruded,     \* clients got a location or sentences while nobody tracked
  crowded,      \* sentences were made twice for one second while tracking
  mistimed      \* a latency was logged with a fix of an earlier moment

marks == <<svAvail, svUsed, mbAvail, mbUsed>>
told == <<seenUsed, lastOurs, intruded, crowded, mistimed>>
reportsVars ==
  <<tracked, interval, toAdapter, atHub, marks, prevNmea, latencies, clock, due, told>>

Signals == Satellites \X Bands

\* The reports of one moment come in order.
After(kind) ==
  CASE kind = "latency" -> {"position", "sv"} [] kind = "position" -> {"sv"} [] OTHER -> {}

ReportsInit ==
  /\ tracked = {} /\ interval \in Intervals
  /\ toAdapter = <<>> /\ atHub = <<>>
  /\ svAvail = FALSE /\ svUsed = {} /\ mbAvail = FALSE /\ mbUsed = {}
  /\ prevNmea = Never /\ latencies = <<>>
  /\ clock \in Starts /\ due = Kinds
  /\ seenUsed = {} /\ lastOurs = FALSE /\ intruded = FALSE /\ crowded = FALSE /\ mistimed = FALSE

-----------------------------------------------------------------------------
(***************************************************************************)
(* Whom a fix reaches, and what it leaves behind.                          *)
(***************************************************************************)
FlpClients ==
  {c \in DOMAIN Callbacks :
     Callbacks[c] \cap {"info", "sv", "nmea", "data", "measurements"} = {}}

NeedReport(fix) ==
  \/ fix.status = "success" /\ fix.tech \in {"satellite", "sensors"}
  \/ fix.status = "intermediate" /\ Intermediates /\ fix.accurate

NeedReportForGnssClient(fix) == Hub \/ NeedReport(fix)

NeedReportForFlpClient(fix) ==
  /\ fix.status # "failure"
  /\ fix.status = "intermediate" => fix.tech = "sensors" \/ FlpNetwork

Reached(fix) ==
  {c \in DOMAIN Callbacks :
     /\ IF c \in FlpClients THEN NeedReportForFlpClient(fix) ELSE NeedReportForGnssClient(fix)
     /\ \/ Callbacks[c] \cap {"info", "tracking"} # {}
        \/ "engine" \in Callbacks[c] /\ ~Hub}

NeedToGenerateNmea(at) ==
  /\ ApNmea /\ "time" \in tracked
  /\ \/ ~OneHz \/ interval >= 1000
     \/ prevNmea = Never
     \/ at % 1000 <= 99
     \/ at - prevNmea >= 975

\* The marks that reportSv sets: the satellite was used, on this signal if the
\* fix told the signals apart.
Marked(s) == svAvail /\ IF mbAvail THEN s \in mbUsed ELSE s[1] \in svUsed

UsedSignals(fix) ==
  {s \in Signals : IF fix.multiband THEN s \in fix.used
                   ELSE \E u \in fix.used : u[1] = s[1]}

\* A slip: a fix that does not tell the signals apart leaves the signals of the
\* fix before in use.
RememberUsed_KeepsBands(fix) ==
  LET gnss == NeedReportForGnssClient(fix) /\ fix.lists IN
  /\ svAvail' = gnss
  /\ svUsed' = IF gnss THEN {s[1] : s \in fix.used} ELSE svUsed
  /\ mbAvail' = ((gnss /\ fix.multiband) \/ mbAvail)
  /\ mbUsed' = IF gnss /\ fix.multiband THEN fix.used ELSE mbUsed

RememberUsed(fix) ==
  LET gnss == NeedReportForGnssClient(fix) /\ fix.lists IN
  /\ svAvail' = gnss
  /\ svUsed' = IF gnss THEN {s[1] : s \in fix.used} ELSE svUsed
  /\ mbAvail' = (gnss /\ fix.multiband)
  /\ mbUsed' = IF gnss /\ fix.multiband THEN fix.used ELSE mbUsed

LogLatency(at) ==
  /\ latencies' = IF latencies = <<>> THEN <<>> ELSE Tail(latencies)
  /\ mistimed' = (mistimed \/ (latencies # <<>> /\ Head(latencies) > at))

-----------------------------------------------------------------------------
(***************************************************************************)
(* The adapter's handlers.                                                 *)
(***************************************************************************)
\* reportPosition: the fix of the modem, or the fused one of the engine hub.
ReportPosition(fix, at) ==
  LET gnss == NeedReportForGnssClient(fix)
      forFlp == NeedReportForFlpClient(fix)
      sentences == NeedToGenerateNmea(at)
  IN
  /\ IF gnss \/ forFlp
     THEN /\ LogLatency(at) /\ RememberUsed(fix)
          /\ seenUsed' = IF gnss THEN (IF fix.lists THEN UsedSignals(fix) ELSE {}) ELSE seenUsed
          /\ lastOurs' = gnss
     ELSE UNCHANGED <<latencies, mistimed, marks, seenUsed, lastOurs>>
  /\ prevNmea' = IF sentences THEN at ELSE prevNmea
  /\ crowded' = (crowded \/ (sentences /\ prevNmea # Never /\ at \div 1000 = prevNmea \div 1000))
  /\ intruded' = (intruded \/ (tracked = {} /\ (Reached(fix) # {} \/ sentences)))

\* reportEnginePositions: of several engines' fixes the fused one is a position.
ReportEnginePositions(locs, at) ==
  IF "fused" \in DOMAIN locs
  THEN ReportPosition(locs["fused"], at)
  ELSE UNCHANGED <<latencies, mistimed, marks, prevNmea, seenUsed, lastOurs, crowded, intruded>>

\* MsgReportSPEPosition.
HandlePosition(m) ==
  IF tracked = {} THEN UNCHANGED <<marks, prevNmea, latencies, told, atHub>>
  ELSE IF Hub
  THEN /\ atHub' = Append(atHub, m)
       /\ IF m.fix.unpropagated THEN UNCHANGED <<marks, prevNmea, latencies, told>>
          ELSE ReportEnginePositions([spe |-> m.fix], m.at)
  ELSE /\ UNCHANGED atHub
       /\ IF m.fix.unpropagated THEN UNCHANGED <<marks, prevNmea, latencies, told>>
          ELSE ReportPosition(m.fix, m.at)

\* reportSv: the marks are used up.
HandleSv ==
  /\ svAvail' = FALSE /\ mbAvail' = FALSE /\ UNCHANGED <<svUsed, mbUsed>>
  /\ seenUsed' = {} /\ lastOurs' = FALSE
  /\ UNCHANGED <<prevNmea, latencies, intruded, crowded, mistimed, atHub>>

Handle ==
  LET m == Head(toAdapter) IN
  /\ toAdapter # <<>> /\ toAdapter' = Tail(toAdapter)
  /\ CASE m.kind = "position" -> HandlePosition(m)
       [] m.kind = "engines" ->
            ReportEnginePositions(m.locs, m.at) /\ UNCHANGED atHub
       [] m.kind = "sv" -> HandleSv
       [] m.kind = "latency" ->
            /\ latencies' = Append(latencies, m.at)
            /\ UNCHANGED <<marks, prevNmea, told, atHub>>
  /\ UNCHANGED <<tracked, interval, clock, due>>

\* Sessions are listed and forgotten; the first time based one starts the
\* sentences anew.
Track(kind) ==
  /\ IF kind = "time" THEN interval' \in Intervals ELSE UNCHANGED interval
  /\ tracked' = tracked \cup {kind}
  /\ prevNmea' = IF kind = "time" /\ "time" \notin tracked THEN Never ELSE prevNmea
  /\ UNCHANGED <<toAdapter, atHub, marks, latencies, clock, due, told>>

Untrack(kind) ==
  /\ kind \in tracked /\ tracked' = tracked \ {kind}
  /\ UNCHANGED <<interval, toAdapter, atHub, marks, prevNmea, latencies, clock, due, told>>

-----------------------------------------------------------------------------
(***************************************************************************)
(* The modem and LocApi's thread, and the engine hub.                      *)
(***************************************************************************)
\* Some reports of a moment may be missing.
Emit(kind, m) ==
  /\ kind \in due /\ due' = due \cap After(kind)
  /\ Len(toAdapter) + Len(atHub) < MaxQueue
  /\ IF kind = "sv" /\ Hub
     THEN atHub' = Append(atHub, m) /\ UNCHANGED toAdapter
     ELSE toAdapter' = Append(toAdapter, m) /\ UNCHANGED atHub
  /\ UNCHANGED <<tracked, interval, marks, prevNmea, latencies, clock, told>>

ModemPosition ==
  \E fix \in Fixes : Emit("position", [kind |-> "position", fix |-> fix, at |-> clock])

ModemReport ==
  \E kind \in Kinds \ {"position"} : Emit(kind, [kind |-> kind, at |-> clock])

Elapse ==
  /\ clock + interval <= MaxTime
  /\ clock' = clock + interval /\ due' = Kinds
  /\ UNCHANGED <<tracked, interval, toAdapter, atHub, marks, prevNmea, latencies, told>>

\* The hub makes a fused fix of what it got, or none; satellites it passes on.
HubReport ==
  LET m == Head(atHub) IN
  /\ atHub # <<>> /\ atHub' = Tail(atHub)
  /\ \/ m.kind = "sv" /\ toAdapter' = Append(toAdapter, m)
     \/ m.kind = "position" /\ UNCHANGED toAdapter
     \/ m.kind = "position"
        /\ toAdapter' =
             Append(toAdapter, [kind |-> "engines", locs |-> [fused |-> m.fix], at |-> m.at])
  /\ UNCHANGED <<tracked, interval, marks, prevNmea, latencies, clock, due, told>>

ReportsNext ==
  \/ Handle
  \/ \E kind \in SessionKinds : Track(kind) \/ Untrack(kind)
  \/ ModemPosition \/ ModemReport \/ Elapse \/ HubReport

ReportsSpec == ReportsInit /\ [][ReportsNext]_reportsVars

-----------------------------------------------------------------------------
ReportsTypeOK ==
  /\ tracked \subseteq SessionKinds /\ interval \in Intervals
  /\ Len(toAdapter) + Len(atHub) <= MaxQueue
  /\ mbAvail => svAvail
  /\ svUsed \subseteq Satellites /\ mbUsed \subseteq Signals
  /\ prevNmea \in (1 .. clock) \cup {Never}
  /\ due \subseteq Kinds

\* A satellite is marked as used on a signal only if the fix that GNSS clients
\* got last, after the satellites before, used it there; and it is marked then,
\* unless another fix was reported since.
MarksTrue ==
  /\ \A s \in Signals : Marked(s) => s \in seenUsed
  /\ lastOurs => \A s \in seenUsed : Marked(s)

\* When the last session is gone, fixes that are still under way are thrown
\* away: nobody gets a location or sentences for them (without the hub).
QuietWhenIdle == ~Hub => ~intruded

\* With sentences once a second, there is at most one set of them for a second,
\* whichever of the second's fixes it is made of.
OncePerSecond == OneHz => ~crowded

\* A latency is logged with the fix it is about or, when fixes were thrown away,
\* with a later one, but never before its fix (without the hub).
LatenciesPast == ~Hub => ~mistimed

=============================================================================
