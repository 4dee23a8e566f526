------------------------------ MODULE DebugReports ------------------------------
(***************************************************************************)
(* What the engine says of itself: the debug sentences ($PQWM1, $PQWP1 to  *)
(* $PQWP7, $PQWS1) and the positions that SystemStatus keeps, the debug    *)
(* report a bug report asks for, and the gain (AGC) that GnssAdapter puts  *)
(* into measurements and data.                                             *)
(*                                                                         *)
(* The modem reports on the thread of LocApi; the adapter's task handles   *)
(* the reports in order.  Nothing of a report is used before it is         *)
(* handled, so that an action reports and handles it, but for              *)
(* measurements: their gain is looked up when they are queued, behind      *)
(* sentences that are still to be handled.  The debug report is read under *)
(* the mutex of SystemStatus, by any thread, in any state.  A sentence is  *)
(* a record of the number of its fields and of what it says of each item.  *)
(***************************************************************************)
EXTENDS Integers, Sequences

CONSTANTS
  Modems,        \* what a modem says, by its number: sentences, positions, measurements
  SvNum,         \* satellites of each constellation
  LongBits,      \* bits of a mask that strtol can return
  NoAgc, Unsaid, \* no gain, and nothing said
  Junk,          \* what uninitialised memory holds
  StackHolds,    \* places that the memory of a default location may hold
  MaxItem        \* maxItem: reports kept of an item

VARIABLES
  modem,     \* the number of this modem
  waiting,   \* the measurements in the queue of the adapter's task: one message or none
  cache,     \* mCache: the reports of each item, the newest last, with its time
  shown,     \* the last measurement or data handed to the clients
  said,      \* the last value of each item that the modem gave, or Unsaid
  heard      \* when: never, now or before

reportVars == <<modem, waiting, cache, shown, said, heard>>

-----------------------------------------------------------------------------
(***************************************************************************)
(* The items.                                                              *)
(***************************************************************************)
ClockItems == {"clock", "xo", "rf", "recovery"}
PositionItems == {"injected", "best", "location"}
SatelliteItems == {"xtra", "ephemeris", "health", "nav"}
OtherItems == {"pdr", "failure"}
Items == ClockItems \cup PositionItems \cup SatelliteItems \cup OtherItems

Constellations == DOMAIN SvNum
\* The order of the satellites in mNav, where QZSS comes behind GALILEO.
Base(c) ==
  CASE c = "GPS" -> 0
    [] c = "GLONASS" -> SvNum["GPS"]
    [] c = "BEIDOU" -> SvNum["GPS"] + SvNum["GLONASS"]
    [] c = "GALILEO" -> SvNum["GPS"] + SvNum["GLONASS"] + SvNum["BEIDOU"]
    [] c = "QZSS" -> SvNum["GPS"] + SvNum["GLONASS"] + SvNum["BEIDOU"] + SvNum["GALILEO"]
    [] c = "NAVIC" ->
         SvNum["GPS"] + SvNum["GLONASS"] + SvNum["BEIDOU"] + SvNum["GALILEO"] + SvNum["QZSS"]
SvAllNumMin == Base("NAVIC")
SvAllNum == SvAllNumMin + SvNum["NAVIC"]

NoMasks(kinds) == [c \in Constellations |-> [k \in kinds |-> {}]]
NoClock ==
  [clock |-> [valid |-> FALSE, tow |-> 0, leap |-> 0, unc |-> FALSE], xo |-> 0,
   rf |-> [agc |-> 0, amp |-> FALSE], recovery |-> 0]
NoPosition(place) ==
  [injected |-> 0, best |-> [valid |-> FALSE, place |-> 0],
   location |-> [valid |-> FALSE, place |-> place, accuracy |-> 0]]
NoSatellites ==
  [xtra |-> [valid |-> NoMasks({"valid"}), age |-> 0], ephemeris |-> 0,
   health |-> NoMasks({"good", "bad"}), nav |-> [i \in 0 .. SvAllNum - 1 |-> 0]]

Default(item, place) ==
  IF item \in ClockItems THEN NoClock[item]
  ELSE IF item \in PositionItems THEN NoPosition(place)[item]
  ELSE IF item \in SatelliteItems THEN NoSatellites[item] ELSE 0

\* Whether a report says the same as another, as equals has it.
Same(item, a, b) ==
  CASE item \in {"location", "best"} -> a.place = b.place
    [] OTHER -> a = b

-----------------------------------------------------------------------------
(***************************************************************************)
(* The sentences: what each item becomes.                                  *)
(***************************************************************************)
\* The fields that are found: none, when the end of the sentence was cut off.
Fields(s) == IF s.ends THEN s.fields ELSE 0

\* The values of an item, when its sentence needs so many fields.  A shorter one is stored
\* from memory that was not initialised.
Given(s, item, least) == IF Fields(s) >= least THEN {s.says[item]} ELSE {Junk}

FromM1(s) ==
  IF Fields(s) <= 22 THEN NoClock
  ELSE [s.says EXCEPT
          !.clock.leap = IF Fields(s) > 24 THEN @ ELSE 0,
          !.clock.unc = Fields(s) > 31,
          !.rf.amp = Fields(s) > 30]

\* A mask, of which strtol returns at most its own bits.
Hex(mask) == IF \A bit \in mask : bit < LongBits THEN mask ELSE 0 .. LongBits - 1
Masks(by) == [c \in Constellations |-> [k \in DOMAIN by[c] |-> Hex(by[c][k])]]

InjectedPosition(s) == Given(s, "injected", 9)
BestPosition(s) == {IF b = Junk THEN [valid |-> TRUE, place |-> Junk] ELSE b : b \in Given(s, "best", 7)}
Xtra(s) ==
  {IF x = Junk THEN Junk ELSE [x EXCEPT !.valid = [Masks(@) EXCEPT !["NAVIC"] = [valid |-> {}]]] :
     x \in Given(s, "xtra", 13)}
Ephemeris(s) == Given(s, "ephemeris", 7)
SvHealth(s) ==
  {IF h = Junk THEN Junk ELSE [Masks(h) EXCEPT !["NAVIC"] = [good |-> {}, bad |-> {}]] :
     h \in Given(s, "health", 17)}
Pdr(s) == Given(s, "pdr", 3)
NavData(s) ==
  LET limit == IF Fields(s) < 2 + 3 * SvAllNum THEN SvAllNumMin ELSE SvAllNum IN
  {IF n = Junk THEN Junk ELSE [i \in DOMAIN n |-> IF i < limit THEN n[i] ELSE 0] :
     n \in Given(s, "nav", 2 + 3 * SvAllNumMin)}
PositionFailure(s) == Given(s, "failure", 4)

\* What a sentence makes of the items it is about.
Parsed(s) ==
  CASE s.name = "M1" -> {FromM1(s)}
    [] s.name = "P1" -> {[injected |-> v] : v \in InjectedPosition(s)}
    [] s.name = "P2" -> {[best |-> v] : v \in BestPosition(s)}
    [] s.name = "P3" -> {[xtra |-> v] : v \in Xtra(s)}
    [] s.name = "P4" -> {[ephemeris |-> v] : v \in Ephemeris(s)}
    [] s.name = "P5" -> {[health |-> v] : v \in SvHealth(s)}
    [] s.name = "P6" -> {[pdr |-> v] : v \in Pdr(s)}
    [] s.name = "P7" -> {[nav |-> v] : v \in NavData(s)}
    [] s.name = "S1" -> {[failure |-> v] : v \in PositionFailure(s)}
    [] s.name = "position" ->
         {[location |-> [s.says.location EXCEPT !.valid = TRUE]]}

-----------------------------------------------------------------------------
(***************************************************************************)
(* The reports that are kept.                                              *)
(***************************************************************************)
Empty == [values |-> <<>>, reported |-> "never"]
Newest(values) == values[Len(values)]
Cut(values) == IF Len(values) > MaxItem THEN Tail(values) ELSE values
Pushed(report, value) == [values |-> Cut(Append(report.values, value)), reported |-> "now"]

\* setIteminReport.
SetItem(report, item, value) ==
  IF item = "recovery" /\ value = 0 THEN report
  ELSE IF report.values # <<>> /\ Same(item, Newest(report.values), value)
  THEN [report EXCEPT !.reported = "now"]
  ELSE Pushed(report, value)

\* getReport, of the latest reports only: what an item is, if there is a report.
Has(item) == cache[item].values # <<>>
GetItem(item) == Newest(cache[item].values)

SetItems(values) ==
  [item \in Items |->
     IF item \in DOMAIN values THEN SetItem(cache[item], item, values[item]) ELSE cache[item]]

\* What an item is, or is taken for without a report.
SomeOr(item, otherwise) == IF Has(item) THEN GetItem(item) ELSE otherwise

-----------------------------------------------------------------------------
(***************************************************************************)
(* The debug report.                                                       *)
(***************************************************************************)
Told(valid, place, accuracy, reported) ==
  [valid |-> valid, place |-> place, accuracy |-> accuracy, reported |-> reported]

DebugLocation ==
  IF Has("location") /\ GetItem("location").valid
  THEN Told(TRUE, GetItem("location").place, GetItem("location").accuracy,
            cache["location"].reported)
  ELSE IF Has("best") /\ GetItem("best").valid
  THEN Told(TRUE, GetItem("best").place, 0, cache["best"].reported)
  ELSE Told(FALSE, 0, 0, "never")

DebugTime ==
  IF Has("clock") /\ GetItem("clock").valid
  THEN [valid |-> TRUE, estimate |-> GetItem("clock").tow - 1000 * GetItem("clock").leap]
  ELSE [valid |-> FALSE, estimate |-> 0]

Satellite(c, i) ==
  LET health == SomeOr("health", NoSatellites.health)[c]
      xtra == SomeOr("xtra", NoSatellites.xtra) IN
  [nav |-> SomeOr("nav", NoSatellites.nav)[Base(c) + i],
   health |-> IF i \in health.good THEN "good" ELSE IF i \in health.bad THEN "bad" ELSE "unknown",
   predicted |-> i \in xtra.valid[c].valid, age |-> xtra.age]
SatelliteInfo(c) == [i \in 0 .. SvNum[c] - 1 |-> Satellite(c, i)]

DebugReport ==
  [location |-> DebugLocation, time |-> DebugTime,
   satellites |-> [c \in Constellations |-> SatelliteInfo(c)]]

\* What the framework is given: an accuracy and a time that are not known become the worst.
DebugData_2_0 ==
  [DebugReport EXCEPT
     !.location.accuracy = IF @ <= 0 THEN "worst" ELSE @,
     !.time.estimate = IF DebugReport.time.valid THEN @ ELSE "long ago"]

\* The first version does not know NAVIC.
DebugData ==
  [DebugData_2_0 EXCEPT
     !.satellites =
       [c \in (Constellations \ {"NAVIC"}) \cup {"UNKNOWN"} |->
          IF c = "UNKNOWN" THEN @["NAVIC"] ELSE @[c]]]

-----------------------------------------------------------------------------
(***************************************************************************)
(* The gain.                                                               *)
(***************************************************************************)
Types == Constellations \cup {"SBAS"}
Near(a, b) == a - b < 2000 /\ b - a < 2000

\* The band whose gain a satellite's measurement or signal is given.
MeasuredBand(type) ==
  CASE type \in {"GPS", "QZSS"} -> "GPS" [] type \in {"GALILEO", "GLONASS", "BEIDOU"} -> type
    [] OTHER -> "none"
DataBand(type) == IF type = "SBAS" THEN "GPS" ELSE MeasuredBand(type)

\* The gain of a band, when the clock's sentence is of about the same time.
Gain(time, band) ==
  IF Has("rf") /\ Has("clock") /\ Near(time, GetItem("clock").tow) /\ band # "none"
  THEN [agc |-> GetItem("rf").agc, band |-> band]
  ELSE [agc |-> NoAgc, band |-> "none"]

GetAgcInformation(time) == [type \in Types |-> Gain(time, MeasuredBand(type))]
GetDataInformation(time) == [type \in Types |-> Gain(time, DataBand(type))]

-----------------------------------------------------------------------------
(***************************************************************************)
(* The modem, and the task.                                                *)
(***************************************************************************)
Nothing == [time |-> 0, gain |-> [type \in Types |-> [agc |-> NoAgc, band |-> "none"]]]

DebugInit ==
  /\ modem \in DOMAIN Modems /\ waiting = <<>> /\ cache = [item \in Items |-> Empty]
  /\ shown = Nothing /\ said = [item \in Items |-> Unsaid] /\ heard = [item \in Items |-> "never"]

Says(names) == {s \in Modems[modem] : s.name \in names}

\* The items a sentence speaks of, but a mark of recovery that is not set.
SpokenOf(s) == {item \in DOMAIN s.says : ~(item = "recovery" /\ s.says[item] = 0)}
\* The value that the modem meant an item to have: none, when the first sentence is short.
Meant(s, item) == IF s.name = "M1" /\ Fields(s) <= 22 THEN NoClock[item] ELSE s.says[item]

Stored(s) ==
  /\ \E values \in Parsed(s) : cache' = SetItems(values)
  /\ said' = [item \in Items |-> IF item \in SpokenOf(s) THEN Meant(s, item) ELSE said[item]]
  /\ heard' = [item \in Items |-> IF item \in SpokenOf(s) THEN "now" ELSE heard[item]]
  /\ UNCHANGED <<modem, waiting, shown>>

ReportNmea ==
  \E s \in Says({"M1", "P1", "P2", "P3", "P4", "P5", "P6", "P7", "S1"}) : Stored(s)
ReportPosition == \E s \in Says({"position"}) : Stored(s)

\* Measurements are queued, with their gain, and handed to the clients.
QueueMeasurements ==
  /\ waiting = <<>>
  /\ \E m \in Says({"measurements"}) :
       waiting' = <<[time |-> m.time, gain |-> GetAgcInformation(m.time)]>>
  /\ UNCHANGED <<modem, cache, shown, said, heard>>
ReportMeasurements ==
  /\ waiting # <<>> /\ shown' = Head(waiting) /\ waiting' = <<>>
  /\ UNCHANGED <<modem, cache, said, heard>>

ReportData ==
  /\ \E m \in Says({"data"}) : shown' = [time |-> m.time, gain |-> GetDataInformation(m.time)]
  /\ UNCHANGED <<modem, waiting, cache, said, heard>>

\* setDefaultGnssEngineStates: everything is deleted.
SetDefaults ==
  \E place \in StackHolds \cup {0} :
    cache' = [item \in Items |-> Pushed(cache[item], Default(item, place))]
DeleteAidingData ==
  /\ SetDefaults
  /\ said' = [item \in Items |-> Default(item, 0)]
  /\ heard' = [item \in Items |-> "now"]
  /\ UNCHANGED <<modem, waiting, shown>>

\* Time passes.
Elapse ==
  LET older(when) == IF when = "now" THEN "before" ELSE when IN
  /\ \E item \in Items : heard[item] = "now"
  /\ heard' = [item \in Items |-> older(heard[item])]
  /\ cache' = [item \in Items |-> [cache[item] EXCEPT !.reported = older(@)]]
  /\ UNCHANGED <<modem, waiting, shown, said>>

DebugNext ==
  \/ ReportNmea \/ ReportPosition \/ QueueMeasurements \/ ReportMeasurements \/ ReportData
  \/ DeleteAidingData \/ Elapse
DebugSpec == DebugInit /\ [][DebugNext]_reportVars

-----------------------------------------------------------------------------
\* The reports of an item are few, and none repeats the one before, unless it was deleted.
HistoryKept ==
  \A item \in Items :
    LET values == cache[item].values IN
    /\ Len(values) <= MaxItem
    /\ \A k \in 1 .. Len(values) - 1 :
         LET later == values[k + 1] IN
         Same(item, values[k], later) => later = Default(item, 0)

\* The newest report of an item is what the modem said last, at the time it said it, or the
\* default when everything was deleted since.
NewestTrue ==
  \A item \in Items :
    /\ said[item] = Unsaid <=> ~Has(item)
    /\ Has(item) =>
         /\ Same(item, GetItem(item), said[item])
         /\ cache[item].reported = heard[item]
         /\ item \in {"location", "best"} => GetItem(item).valid = said[item].valid

\* A gain is shown with a measurement only if the modem gave it within two seconds of the
\* measurement, in one sentence with the time.
GainTrue ==
  \A type \in Types :
    LET gain == shown.gain[type] IN
    gain.agc # NoAgc =>
      \E s \in Says({"M1"}) :
        /\ s.says.rf.agc = gain.agc
        /\ Near(s.says.clock.tow, shown.time)

\* The debug report says of each satellite what the modem said of it.
SatellitesTrue ==
  \A c \in Constellations :
    \A i \in 0 .. SvNum[c] - 1 :
      LET told == Satellite(c, i) IN
      /\ \A s \in Says({"P7"}) :
           said["nav"] = s.says.nav => told.nav = s.svs[c][i]
      /\ told.health = "good" => i \in said["health"][c].good
      /\ told.health = "bad" => i \in said["health"][c].bad \ said["health"][c].good

\* What is deleted is not shown as a position before the modem gave one again, and a position
\* that is shown has its own time.
PositionTrue ==
  LET shows == DebugData.location IN
  /\ shows.valid <=> \E item \in {"location", "best"} : said[item] # Unsaid /\ said[item].valid
  /\ shows.valid =>
       \E item \in {"location", "best"} :
         said[item] # Unsaid /\ said[item].place = shows.place /\ heard[item] = shows.reported

=============================================================================
