------------------------------ MODULE MCAdapters ------------------------------
(***************************************************************************)
(* Small instances of GeofenceAdapter, Ntrip, Batching, GnssClient,        *)
(* MeasurementClient, Reports, Thermal and Refresh side by side: the       *)
(* initial state chooses one, by part, and the behaviour stays in it.      *)
(*   geofence  the geofences of two clients, an extended module            *)
(*   trips     batching: a device that moves, and commands of a client     *)
(*             that overlap                                                *)
(*   restart   batching: the modem restarts, and commands of two clients   *)
(*             come one by one                                             *)
(*   session   the framework's session, the framework restarts             *)
(*   settings  the framework's configuration, set before and after the     *)
(*             callback                                                    *)
(*   measure   the measurements of the framework, a third extended module, *)
(*             closed before the next callback                             *)
(*   replaced  the same with callbacks of another version in between       *)
(*   fixes     reports of the modem to the clients                         *)
(*   hub       the same behind an engine hub                               *)
(*   pace      NMEA sentences once a second                                *)
(*   unsteady  corrections, another extended module: with refusals, and    *)
(*             sources and consent that change                             *)
(*   steady    the same with one source that stays and positions of fixes  *)
(*   thermal   the thermal profiles of the applications                    *)
(*   refresh   the refresh rates of the applications                       *)
(***************************************************************************)
EXTENDS GeofenceAdapter, Ntrip, MeasurementClient, TLC

CONSTANTS
  alice, bob, near, far, r1, r2, m1, m2, c1, Unset, NoHost, NoId,
  flp, Never, s1, s2

VARIABLES
  part,
  st, known, pendingMsgs, inbox, subscribers, started, awaiting, engine,
  callback, iface, step, mTracking, baseTracking, options, session, requests, capsCached,
  capsHeld, api, pendingConf, lastConf, messages, carried, sessions, adapterConf, capsTold,
  knows, status, wants, stuck, lateFixes, setConf,
  tracked, interval, toAdapter, atHub, svAvail, svUsed, mbAvail, mbUsed, prevNmea, latencies,
  clock, due, seenUsed, lastOurs, intruded, crowded, mistimed,
  front, screen, changed, events, texts, mScreenOn, mCurrentApp, doing, sconfig, chosen, heard,
  mixed,
  shownApp, landscape, stackChanged, lists, listing, rate, default, isAppInList, mPreviousApp,
  isLandscape, orientation, user, told

\* The first two geofences are alice's, the others bob's.
MCOwner == [id \in Ids |-> IF id <= 2 THEN alice ELSE bob]

RequestSymmetry == Permutations(Reqs) \cup Permutations(Opts)

BatchOwner == [s \in 1 .. 2 |-> IF s = 1 THEN alice ELSE bob]
Batch(mode, dist, tbf) == [mode |-> mode, dist |-> dist, tbf |-> tbf]

Trips == INSTANCE Batching WITH
  Sessions <- 1 .. 2, Owner <- [s \in 1 .. 2 |-> alice],
  Options <- {Batch("manual", 0, 1), Batch("trip", 1, 1)}, Word <- 16,
  ModemFails <- FALSE, ClientsWait <- TRUE, MaxQueue <- 1, Moves <- TRUE, MaxRestarts <- 0

Restart == INSTANCE Batching WITH
  Sessions <- 1 .. 2, Owner <- BatchOwner,
  Options <- {Batch("routine", 0, 1), Batch("trip", 2, 1)}, Word <- 16,
  ModemFails <- FALSE, ClientsWait <- TRUE, MaxQueue <- 0, Moves <- TRUE, MaxRestarts <- 1

batchOnly == <<st, known, pendingMsgs, inbox, subscribers, started, awaiting, engine>>

Session == INSTANCE GnssClient WITH
  TrackIds <- 1 .. 2, Modes <- {m1, m2}, Items <- {}, ItemValues <- {}, BeforeCallback <- {},
  MayRefuseStart <- TRUE, MaxCallbacks <- 2, MaxCapabilities <- 1, MaxTracked <- 1

Settings == INSTANCE GnssClient WITH
  TrackIds <- 1 .. 2, Modes <- {m1}, Items <- {"lock", "supl"}, ItemValues <- {c1},
  BeforeCallback <- {"lock", "supl"}, MayRefuseStart <- FALSE, MaxCallbacks <- 1,
  MaxCapabilities <- 1, MaxTracked <- 1

halOnly == <<callback, iface, step, mTracking, baseTracking, options, session, requests,
             capsCached, capsHeld, api, pendingConf, lastConf, messages, carried, sessions,
             adapterConf, capsTold, knows, status, wants, stuck, lateFixes, setConf>>

MCMeasured == {[count |-> 1, facts |-> {"flags", "state", "adr", "halfCycle", "codeType", "navic",
                 "known", "elapsedRealtime", "baseband", "isb", "isbReference", "clock"}],
               [count |-> 65, facts |-> {"flags", "clock"}]}

Replaced == INSTANCE MeasurementClient WITH
  MeasureIds <- 1 .. 2, NoMeasureId <- 0, Notifications <- MCMeasured, SvsCount <- 64,
  Replaces <- TRUE, MayRefuseSession <- TRUE, MaxRegistered <- 2, MaxMeasureQueue <- 0

clientsOnly == <<halOnly, measureVars>>

MCCallbacks == [c \in {alice, flp} |->
  IF c = alice THEN {"info", "sv", "nmea", "tracking"} ELSE {"tracking"}]

\* Fixes by status and technique, accuracy and the satellites they list.
Lists ==
  {[lists |-> FALSE, multiband |-> FALSE, used |-> {}]}
  \cup {[lists |-> TRUE, multiband |-> mb, used |-> {<<1, "L1">>}] : mb \in BOOLEAN}
  \cup {[lists |-> TRUE, multiband |-> TRUE, used |-> {<<1, "L1">>, <<2, "L5">>}]}
Fix(result, tech, accurate, raw, l) ==
  [status |-> result, tech |-> tech, accurate |-> accurate, unpropagated |-> raw,
   lists |-> l.lists, multiband |-> l.multiband, used |-> l.used]
Success(ls) == {Fix("success", "satellite", TRUE, FALSE, l) : l \in ls}
Others ==
  {Fix("intermediate", "network", acc, FALSE, l) : acc \in BOOLEAN, l \in Lists}
  \cup {Fix("failure", "network", TRUE, FALSE, CHOOSE l \in Lists : ~l.lists)}
Raw == {Fix("success", "satellite", TRUE, TRUE, l) : l \in {l \in Lists : l.multiband}}

FixReports == INSTANCE Reports WITH
  Callbacks <- MCCallbacks, Hub <- FALSE, ApNmea <- TRUE, OneHz <- FALSE,
  Intermediates <- TRUE, FlpNetwork <- TRUE, Satellites <- {1, 2}, Bands <- {"L1", "L5"},
  Fixes <- Success(Lists) \cup Others, Kinds <- {"latency", "position", "sv"},
  SessionKinds <- {"time", "distance"}, Intervals <- {1000}, Starts <- {1000},
  MaxTime <- 3000, MaxQueue <- 2

HubReports == INSTANCE Reports WITH
  Callbacks <- MCCallbacks, Hub <- TRUE, ApNmea <- TRUE, OneHz <- FALSE,
  Intermediates <- FALSE, FlpNetwork <- FALSE, Satellites <- {1, 2}, Bands <- {"L1", "L5"},
  Fixes <- Success(Lists) \cup Raw, Kinds <- {"position", "sv"}, SessionKinds <- {"time"},
  Intervals <- {1000}, Starts <- {1000}, MaxTime <- 3000, MaxQueue <- 2

PaceReports == INSTANCE Reports WITH
  Callbacks <- MCCallbacks, Hub <- FALSE, ApNmea <- TRUE, OneHz <- TRUE,
  Intermediates <- FALSE, FlpNetwork <- FALSE, Satellites <- {1}, Bands <- {"L1"},
  Fixes <- Success({l \in Lists : ~l.lists}), Kinds <- {"position"}, SessionKinds <- {"time"},
  Intervals <- {100, 500}, Starts <- {950, 975}, MaxTime <- 2500, MaxQueue <- 1

reportsOnly == <<tracked, interval, toAdapter, atHub, svAvail, svUsed, mbAvail, mbUsed, prevNmea,
                 latencies, clock, due, seenUsed, lastOurs, intruded, crowded, mistimed>>

Calm == INSTANCE Ntrip WITH
  ApNmea <- TRUE, Swaps <- FALSE, ConsentChanges <- FALSE, MayRefuse <- FALSE,
  MaxAnswers <- 2, MaxRestarts <- 2

\* Three applications on the page, of which one's name ends another's; and the page itself.
MCPage == <<"settings">>
MCApps == {<<"b">>, <<"a", "b">>, <<"c">>}
Thermal == INSTANCE Thermal WITH
  Apps <- MCApps, Page <- MCPage, ModeNames <- <<"gaming", "default">>, Standard <- 2,
  DefaultState <- [app \in MCApps |-> IF app = <<"c">> THEN 1 ELSE 2], HastyUser <- FALSE,
  MaxText <- 5, MaxEvents <- 1, knows <- heard
Refresh == INSTANCE Refresh WITH
  Apps <- {<<"b">>, <<"a", "b">>}, Page <- MCPage,
  Rates <- {[min |-> 60, max |-> max] : max \in {60, 120}}, TurnsLate <- FALSE, MayDie <- FALSE,
  MaxText <- 3, front <- shownApp, changed <- stackChanged, texts <- lists, doing <- listing

thermalOnly == <<front, screen, changed, events, texts, mScreenOn, mCurrentApp, doing, sconfig,
                 chosen, heard, mixed>>
refreshOnly == <<shownApp, landscape, stackChanged, lists, listing, rate, default, isAppInList,
                 mPreviousApp, isLandscape, orientation, user, told>>
profilesOnly == <<thermalOnly, refreshOnly>>

AdaptersInit ==
  /\ part \in {"geofence", "trips", "restart", "session", "settings", "measure", "replaced",
               "fixes", "hub", "pace", "unsteady", "steady", "thermal", "refresh"}
  /\ Init
  /\ IF part = "restart" THEN Restart!BatchingInit ELSE Trips!BatchingInit
  /\ IF part = "session" THEN Session!GnssClientInit ELSE Settings!GnssClientInit
  /\ IF part = "replaced" THEN Replaced!MeasurementInit ELSE MeasurementInit
  /\ CASE part = "hub" -> HubReports!ReportsInit
       [] part = "pace" -> PaceReports!ReportsInit
       [] OTHER -> FixReports!ReportsInit
  /\ NtripInit
  /\ Thermal!ThermalInit /\ Refresh!RefreshInit
  /\ user.max = 120 => part = "refresh"
  /\ consent => part \in {"unsteady", "steady"}

AdaptersNext ==
  /\ UNCHANGED part
  /\ \/ /\ UNCHANGED <<reportsOnly, ntripVars, profilesOnly>>
        /\ \/ part = "geofence" /\ Next /\ UNCHANGED <<batchOnly, clientsOnly>>
           \/ part = "trips" /\ Trips!BatchingNext /\ UNCHANGED <<vars, clientsOnly>>
           \/ part = "restart" /\ Restart!BatchingNext /\ UNCHANGED <<vars, clientsOnly>>
           \/ part = "session" /\ Session!GnssClientNext
              /\ UNCHANGED <<vars, batchOnly, measureVars>>
           \/ part = "settings" /\ Settings!GnssClientNext
              /\ UNCHANGED <<vars, batchOnly, measureVars>>
     \/ /\ UNCHANGED <<vars, batchOnly, halOnly, reportsOnly, ntripVars, profilesOnly>>
        /\ \/ part = "measure" /\ MeasurementNext
           \/ part = "replaced" /\ Replaced!MeasurementNext
     \/ /\ UNCHANGED <<vars, batchOnly, clientsOnly, ntripVars, profilesOnly>>
        /\ \/ part = "fixes" /\ FixReports!ReportsNext
           \/ part = "hub" /\ HubReports!ReportsNext
           \/ part = "pace" /\ PaceReports!ReportsNext
     \/ /\ UNCHANGED <<vars, batchOnly, clientsOnly, reportsOnly, profilesOnly>>
        /\ \/ part = "unsteady" /\ NtripNext
           \/ part = "steady" /\ Calm!NtripNext
     \/ /\ UNCHANGED <<vars, batchOnly, clientsOnly, reportsOnly, ntripVars>>
        /\ \/ part = "thermal" /\ Thermal!ThermalNext /\ UNCHANGED refreshOnly
           \/ part = "refresh" /\ Refresh!RefreshNext /\ UNCHANGED thermalOnly

AdaptersSpec ==
  /\ AdaptersInit
  /\ [][AdaptersNext]_<<part, vars, batchOnly, clientsOnly, reportsOnly, ntripVars, profilesOnly>>

-----------------------------------------------------------------------------
(***************************************************************************)
(* The properties, as each module states them.                             *)
(***************************************************************************)
\* When nothing is under way the modem batches for exactly the listed sessions, and
\* every start of one is answered.
BatchesAgree ==
  IF part = "restart"
  THEN Restart!BatchingTypeOK /\ Restart!BatchesAgree /\ Restart!StartsAnswered
  ELSE Trips!BatchingTypeOK /\ Trips!BatchesAgree /\ Trips!StartsAnswered

\* The adapter runs the session that the framework wants, with the configuration that
\* it set last; the framework knows that the session began and what the device can do,
\* and few fixes come after it stopped.
FrameworkReach ==
  CASE part = "session" ->
         Session!GnssClientTypeOK /\ Session!SessionFollows /\ Session!FrameworkKnows /\ Session!FewLateFixes
    [] part = "settings" -> Settings!GnssClientTypeOK /\ Settings!ConfigurationHeld
    [] part = "measure" ->
         /\ MeasurementTypeOK /\ MeasurementsFollow /\ PowerFollows
         /\ FewLateMeasurements /\ MeasurementsFit
    [] part = "replaced" ->
         Replaced!MeasurementTypeOK /\ Replaced!MeasurementsFollow /\ Replaced!FewLateMeasurements
    [] OTHER -> TRUE

\* Satellites are marked as the fix before them says, nobody is disturbed when nobody
\* tracks, and sentences come once a second if so configured.  The daemon reads the source
\* of corrections it should.  Of the applications, the profile and the rates in force are
\* those of the one in front, as the user chose them, and the user's rates come back.
PartsHold ==
  CASE part = "fixes" -> /\ FixReports!ReportsTypeOK /\ FixReports!MarksTrue
                         /\ FixReports!QuietWhenIdle /\ FixReports!LatenciesPast
    [] part = "hub" -> HubReports!ReportsTypeOK /\ HubReports!MarksTrue
    [] part = "pace" -> PaceReports!OncePerSecond /\ PaceReports!QuietWhenIdle
    [] part = "steady" -> Calm!NtripTypeOK /\ Calm!CorrectionsTrue
    [] part = "thermal" -> Thermal!ThermalTypeOK /\ Thermal!ChoicesFound /\ Thermal!ProfileFollows
    [] part = "refresh" -> Refresh!RefreshTypeOK /\ Refresh!RatesGivenBack /\ Refresh!RatesOfList
    [] OTHER -> TRUE

=============================================================================
