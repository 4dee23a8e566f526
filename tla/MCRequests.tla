------------------------------ MODULE MCRequests ------------------------------
(***************************************************************************)
(* Models of requests and their answers side by side: the initial state    *)
(* chooses one, by part, and the behaviour stays in it.                    *)
(*   agps    data connections, without restarts of the modem               *)
(*   ni      network initiated requests                                    *)
(*   odcpi   requests for on-demand locations                              *)
(*   groups  NMEA sentences, grouped                                       *)
(*   plain   NMEA sentences, not grouped                                   *)
(*   debug   what the engine says of itself                                *)
(*   hasty   the queue and the thread of a task, stopped while others send *)
(*   task    the same, stopped by the rules                                *)
(*   race    tracking sessions of both kinds, clients that do not wait     *)
(*   ssr     time based sessions only, the modem restarts                  *)
(* It extends the modules of the first three and of the hasty task.        *)
(***************************************************************************)
EXTENDS Agps, Ni, Odcpi, MsgTask

CONSTANTS alice, bob, n1, n2, NoAgc, Unsaid, Junk

VARIABLES
  part,
  code, fix, svs, sentences,
  modem, waiting, cache, shown, said, heard,
  clients, capsKnown, timeSess, distSess, pending, mode, hubOn, nHz, speFast, removing, msgs,
  calls, modemUp, engine, distEngine, stage, owed

UsedBy(gps, glo, gal, bds, qzs, nav) ==
  [GPS |-> gps, GLONASS |-> glo, GALILEO |-> gal, BEIDOU |-> bds, QZSS |-> qzs, NAVIC |-> nav]
AFix(used, corrections, tech, latLong, own) ==
  [used |-> used, usedData |-> TRUE, corrections |-> corrections, tech |-> tech,
   latLong |-> latLong, custom |-> own, gps |-> 1000, utc |-> 0, pz90 |-> own, generate |-> TRUE]
Some == UsedBy(1 .. 13, {3}, {}, {}, {}, {})
\* Fixes by the satellites used, by quality, and by time around the leap second.
ByUse ==
  {AFix(UsedBy(gps, glo, gal, bds, qzs, nav), {}, {"satellite"}, TRUE, FALSE) :
     gps \in {{}, {1, 2}, 1 .. 13}, glo \in {{}, {3}}, gal \in {{}, 1 .. 12}, bds \in {{}, 1 .. 25},
     qzs \in {{}, {1}}, nav \in {{}, {1}}}
ByQuality ==
  {AFix(Some, c, t, l, o) :
     c \in {{}, {"ppp", "sbas"}, {"rtkFixed"}, {"rtkFloat", "dgnss"}, {"dgnss"}, {"sbas"}},
     t \in SUBSET {"satellite", "sensors"}, l \in BOOLEAN, o \in BOOLEAN}

\* 18 leap seconds, and the 19th at the end of the second day.
LeapMoment == 2 * 86400000 + 18000
ByTime ==
  {[AFix(Some, {}, {"satellite"}, TRUE, FALSE) EXCEPT !.gps = g,
      !.utc = g - 1000 * IF g < LeapMoment THEN 18 ELSE 19] :
     g \in {LeapMoment + d : d \in {-1000, -500, -1, 0, 1, 500, 999, 1000, 1500, 2000}}}
MCFixes ==
  ByUse \cup ByQuality \cup ByTime
  \cup {[AFix(Some, {}, {"satellite"}, TRUE, FALSE) EXCEPT ![f] = FALSE] :
           f \in {"usedData", "generate"}}

\* Reports of satellites: every three, many of one kind, and one of each signal.
Sv(type, id, signal) == [type |-> type, id |-> id, signal |-> signal]
SvKinds ==
  {Sv("GPS", 5, "GPS_L1CA"), Sv("GPS", 5, "GPS_L5"), Sv("GPS", 7, "GPS_L2"), Sv("GPS", 9, "GPS_L1C"),
   Sv("SBAS", 120, "SBAS_L1"), Sv("GLONASS", 255, "GLONASS_G1"), Sv("GALILEO", 301, "none"),
   Sv("BEIDOU", 201, "BEIDOU_B2AQ"), Sv("BEIDOU", 202, "BEIDOU_B2AI")}
MCNotifications ==
  {<<a, b, c>> : a \in SvKinds, b \in SvKinds, c \in SvKinds}
  \cup {[k \in 1 .. n |-> Sv("GPS", k, "GPS_L1CA")] : n \in 4 .. 9}
  \cup {<<Sv("GLONASS", 66, "GLONASS_G2"), Sv("GALILEO", 302, "GALILEO_E5A"),
          Sv("GALILEO", 302, "GALILEO_E5B"), Sv("QZSS", 193, "QZSS_L1CA"), Sv("QZSS", 193, "QZSS_L5"),
          Sv("QZSS", 193, "QZSS_L2"), Sv("BEIDOU", 203, "BEIDOU_B1I"), Sv("BEIDOU", 203, "BEIDOU_B1C"),
          Sv("NAVIC", 401, "NAVIC_L5"), Sv("QZSS", 194, "QZSS_L1S"), Sv("BEIDOU", 204, "BEIDOU_B2I")>>}
Grouped == INSTANCE Nmea WITH Fixes <- MCFixes, Notifications <- MCNotifications, LeapAt <- LeapMoment,
  LeapBefore <- 18, Grouping <- TRUE, MaxCode <- 4
Plain == INSTANCE Nmea WITH Fixes <- MCFixes, Notifications <- MCNotifications, LeapAt <- LeapMoment,
  LeapBefore <- 18, Grouping <- FALSE, MaxCode <- 4

nmeaOnly == <<code, fix, svs, sentences>>

\* One satellite of each constellation, but two of GPS and of GALILEO.
MCSvNum == [GPS |-> 2, GLONASS |-> 1, BEIDOU |-> 1, GALILEO |-> 2, QZSS |-> 1, NAVIC |-> 1]
Sentence(name, fields, says) == [name |-> name, fields |-> fields, ends |-> TRUE, says |-> says]

\* The first sentence: whole, without the finer uncertainty, and without leap seconds.
M1(fields, valid, tow, leap, band, error) ==
  Sentence("M1", fields,
    [clock |-> [valid |-> valid, tow |-> tow, leap |-> leap, unc |-> fields > 31], xo |-> 1,
     rf |-> [agc |-> band, amp |-> fields > 30], recovery |-> error])
Clocks ==
  {M1(32, TRUE, 10000, 18, 1, 0), M1(31, TRUE, 12500, 18, 1, 0), M1(24, FALSE, 12500, 0, 2, 1),
   [name |-> "measurements", time |-> 12000], [name |-> "data", time |-> 12000]}

\* Positions of two places, of one with two accuracies.
Position(place, accuracy) ==
  Sentence("position", 0, [location |-> [valid |-> TRUE, place |-> place, accuracy |-> accuracy]])
Best(place) == Sentence("P2", 7, [best |-> [valid |-> TRUE, place |-> place]])
Positions == {Position(1, 5), Position(1, 9), Position(2, 5), Best(3)}

\* The age of each satellite's ephemeris, with and without NAVIC.
Ages(from) == [c \in DOMAIN MCSvNum |-> [i \in 0 .. MCSvNum[c] - 1 |-> 10 * from + i + Len(c)]]
Row(ages, c) == [i \in 1 .. MCSvNum[c] |-> ages[c][i - 1]]
P7(ages) ==
  LET all == Row(ages, "GPS") \o Row(ages, "GLONASS") \o Row(ages, "BEIDOU") \o Row(ages, "GALILEO")
               \o Row(ages, "QZSS") \o Row(ages, "NAVIC") IN
  [name |-> "P7", fields |-> 2 + 3 * (Len(all) - IF ages["NAVIC"][0] = 0 THEN 1 ELSE 0),
   ends |-> TRUE, svs |-> ages, says |-> [nav |-> [i \in 0 .. Len(all) - 1 |-> all[i + 1]]]]
Of(kinds, c, bits) ==
  [d \in DOMAIN MCSvNum |-> [k \in DOMAIN kinds |-> IF d = c THEN kinds[k] \cap bits ELSE {}]]
Health ==
  Sentence("P5", 17, [health |-> Of([good |-> {0}, bad |-> {1}], "GALILEO", {0, 1})])
Predicted ==
  Sentence("P3", 13, [xtra |-> [valid |-> Of([valid |-> {1}], "GPS", {0, 1}), age |-> 7]])
Ephemerides == {P7(Ages(1)), P7([Ages(2) EXCEPT !["NAVIC"][0] = 0])}
Others ==
  {Sentence("P1", 9, [injected |-> v]) : v \in 1 .. 2} \cup {Sentence("P4", 7, [ephemeris |-> 1])}
Failures == {Sentence("P6", 3, [pdr |-> 1]), Sentence("S1", 4, [failure |-> 1])}
Debug == INSTANCE DebugReports WITH
  Modems <- <<Clocks, Positions, Ephemerides, {Health, Predicted}, Others, Failures>>,
  SvNum <- MCSvNum, LongBits <- 63, StackHolds <- {}, MaxItem <- 2

debugOnly == <<modem, waiting, cache, shown, said, heard>>

Tidy == INSTANCE MsgTask WITH Disciplined <- TRUE

Options(i, d, p) == [size |-> 1, interval |-> i, distance |-> d, power |-> p]
SessionOwner == [s \in 1 .. 2 |-> IF s = 2 THEN bob ELSE alice]

Race == INSTANCE GnssTracking WITH
  Clients <- {alice, bob}, NoClient <- None, Sessions <- 1 .. 2, Owner <- SessionOwner,
  Registrations <- {"ready"}, Opts <- {Options(1, 0, 2), Options(2, 50, 2)},
  MinInterval <- 1, ClientsWait <- FALSE, DistanceSupported <- TRUE, MayFail <- FALSE,
  NHzPossible <- FALSE, MayReconfigure <- FALSE, MaxSsr <- 0, MaxQueue <- 2

Ssr == INSTANCE GnssTracking WITH
  Clients <- {alice, bob}, NoClient <- None, Sessions <- 1 .. 2, Owner <- SessionOwner,
  Registrations <- {"ready"}, Opts <- {Options(0, 0, 2), Options(2, 0, 1)},
  MinInterval <- 1, ClientsWait <- FALSE, DistanceSupported <- FALSE, MayFail <- FALSE,
  NHzPossible <- FALSE, MayReconfigure <- FALSE, MaxSsr <- 1, MaxQueue <- 2

\* Agps and GnssTracking both count the restarts of the modem in ssrs.
trackingOnly == <<clients, capsKnown, timeSess, distSess, pending, mode, hubOn, nHz, speFast,
                  removing, msgs, calls, modemUp, engine, distEngine, stage, owed>>
agpsOnly == <<state, subs, atl, toFw, fromFw, wds, connected>>
othersOnly == <<niVars, odcpiVars, nmeaOnly, debugOnly, msgTaskVars>>

\* A task that was stopped has nothing more to do.
Idle == part \in {"task", "hasty"} /\ owner = "gone" /\ holders = {} /\ calling = {}

\* No part has to do anything in another part: fairness asks nothing of those that rest.
RequestsInit ==
  /\ part \in {"agps", "ni", "odcpi", "groups", "plain", "debug", "task", "hasty", "race", "ssr"}
  /\ Race!Init
  /\ Init /\ NiInit /\ OdcpiInit /\ Grouped!NmeaInit /\ Debug!DebugInit
  /\ part # "ni" => listening = {}
  /\ part # "debug" => modem = 1
  /\ TaskInit
  /\ part \notin {"task", "hasty"} => thread = "wait"

RequestsNext ==
  /\ UNCHANGED part
  /\ \/ /\ UNCHANGED trackingOnly
        /\ \/ part = "agps" /\ Next /\ UNCHANGED othersOnly
           \/ part = "ni" /\ NiNext
              /\ UNCHANGED <<vars, odcpiVars, nmeaOnly, debugOnly, msgTaskVars>>
           \/ part = "odcpi" /\ OdcpiNext
              /\ UNCHANGED <<vars, niVars, nmeaOnly, debugOnly, msgTaskVars>>
           \/ /\ \/ part = "groups" /\ Grouped!NmeaNext
                 \/ part = "plain" /\ Plain!NmeaNext
              /\ UNCHANGED <<vars, niVars, odcpiVars, debugOnly, msgTaskVars>>
           \/ part = "debug" /\ Debug!DebugNext
              /\ UNCHANGED <<vars, niVars, odcpiVars, nmeaOnly, msgTaskVars>>
           \/ /\ \/ part = "task" /\ Tidy!TaskNext
                 \/ part = "hasty" /\ TaskNext
                 \/ Idle /\ UNCHANGED msgTaskVars
              /\ UNCHANGED <<vars, niVars, odcpiVars, nmeaOnly, debugOnly>>
     \/ /\ UNCHANGED <<agpsOnly, othersOnly>>
        /\ \/ part = "race" /\ Race!Next
           \/ part = "ssr" /\ Ssr!Next
           \/ part \in {"race", "ssr"} /\ Race!Quiescent /\ UNCHANGED <<trackingOnly, ssrs>>

requestsVars == <<part, trackingOnly, vars, othersOnly>>

\* The two threads of the race do not stop.
InRace(A) == part = "race" /\ A /\ UNCHANGED <<part, agpsOnly, othersOnly>>
RaceFair ==
  WF_requestsVars(InRace(Race!AdapterStep)) /\ WF_requestsVars(InRace(Race!LocApiStep))

RequestsSpec ==
  /\ RequestsInit /\ [][RequestsNext]_requestsVars
  /\ Fairness /\ NiFair /\ OdcpiFair /\ TaskFair /\ RaceFair

-----------------------------------------------------------------------------
(***************************************************************************)
(* The properties, as each module states them.                             *)
(***************************************************************************)
\* The sentences list every satellite, and agree on time, quality and groups; what the
\* engine says of itself is kept, shown and put into measurements as it was said.  A task
\* that keeps to the rules handles what its queue took, in order and once, loses nothing,
\* does not sleep while there is something to do, and ends soon after it is stopped, which
\* the hasty one does too.  Through restarts of the modem no tracking request is left
\* without its answer and none is answered twice.  And every variable keeps its type.
PartsHold ==
  CASE part = "groups" ->
         /\ Grouped!NmeaTypeOK /\ Grouped!EveryoneListed /\ Grouped!UsedListed
         /\ Grouped!GroupsApart /\ Grouped!TimeAdvances /\ Grouped!QualityAgrees
    [] part = "plain" -> Plain!UsedListed
    [] part = "debug" ->
         /\ Debug!HistoryKept /\ Debug!NewestTrue /\ Debug!GainTrue /\ Debug!SatellitesTrue
         /\ Debug!PositionTrue
    [] part = "task" ->
         Tidy!TaskTypeOK /\ Tidy!EachOnce /\ Tidy!NobodyOversleeps /\ Tidy!FewAfterStop /\ Tidy!NothingLost
    [] part = "hasty" -> TaskTypeOK /\ NobodyOversleeps /\ FewAfterStop
    [] part = "race" -> Race!NeverTwice /\ Race!EngineServes
    [] part = "ssr" -> Ssr!Answered /\ Ssr!NeverTwice /\ Ssr!EngineServes
    [] OTHER -> TypeOK /\ NiTypeOK /\ OdcpiTypeOK

\* A network initiated request that a user was asked about is answered; a request for an
\* on-demand location reaches the framework; a message that a queue took is handled or
\* freed, and a task that is stopped ends; and a client that stopped its tracking session
\* gets its answers.
RequestsEnd ==
  NiAnswered /\ OdcpiRequested /\ MessagesEnd /\ (part = "race" => Race!StopAnswered)

=============================================================================
