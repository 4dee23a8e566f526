---------------------------------- MODULE Nmea ----------------------------------
(***************************************************************************)
(* loc_nmea: the NMEA sentences that GnssAdapter makes of a fix and of a   *)
(* report of satellites.                                                   *)
(*                                                                         *)
(* A sentence is a record of what its fields say: which satellites, which  *)
(* time, whether there is a position.  How a number is written, and the    *)
(* checksum, are left out.  The one thing kept between reports is the code *)
(* of the groups of GSA sentences, a static variable.  Times are in        *)
(* milliseconds, of an epoch in which GPS and UTC once agreed.             *)
(***************************************************************************)
EXTENDS Integers, Sequences, SequencesExt, FiniteSets

CONSTANTS
  Fixes,          \* positions to make sentences of
  Notifications,  \* reports of satellites: sequences of [type, id, signal]
  LeapAt,         \* GPS time of the change of leap seconds
  LeapBefore,     \* leap seconds before it; one more after it
  Grouping,       \* isTagBlockGroupingEnabled
  MaxCode         \* MAX_TAG_BLOCK_GROUP_CODE

VARIABLES
  code,        \* the code of the next group
  fix,         \* the fix the sentences are about, or
  svs,         \* the satellites
  sentences    \* nmeaArraystr

nmeaVars == <<code, fix, svs, sentences>>

NoFix == [used |-> [c \in {} |-> {}]]
NmeaInit == code = 1 /\ fix = NoFix /\ svs = <<>> /\ sentences = <<>>

CeilDiv(n, d) == (n + d - 1) \div d

-----------------------------------------------------------------------------
(***************************************************************************)
(* Constellations and signals.                                             *)
(***************************************************************************)
Talker(type) ==
  CASE type \in {"GPS", "SBAS"} -> "GP" [] type = "GLONASS" -> "GL" [] type = "GALILEO" -> "GA"
    [] type = "QZSS" -> "GQ" [] type = "BEIDOU" -> "GB" [] type = "NAVIC" -> "GI"

SvIdOffset(type) ==
  CASE type = "SBAS" -> 87 [] type = "GALILEO" -> 300 [] type = "QZSS" -> 192
    [] type = "BEIDOU" -> 200 [] type = "NAVIC" -> 400 [] OTHER -> 0

SignalId(signal) ==
  CASE signal \in {"GPS_L1CA", "SBAS_L1", "GLONASS_G1", "GALILEO_E5A", "QZSS_L1CA", "BEIDOU_B1I",
                   "NAVIC_L5"} -> 1
    [] signal = "GALILEO_E5B" -> 2
    [] signal \in {"GLONASS_G2", "BEIDOU_B1C"} -> 3
    [] signal \in {"BEIDOU_B2AI", "BEIDOU_B2AQ"} -> 5
    [] signal \in {"GPS_L2", "QZSS_L2"} -> 6
    [] signal = "GALILEO_E1" -> 7
    [] signal \in {"GPS_L5", "QZSS_L5"} -> 8
    [] signal = "BEIDOU_B2I" -> 11
    [] OTHER -> 0

DefaultSignal(type) ==
  CASE type = "GPS" -> "GPS_L1CA" [] type = "SBAS" -> "SBAS_L1" [] type = "GLONASS" -> "GLONASS_G1"
    [] type = "GALILEO" -> "GALILEO_E1" [] type = "QZSS" -> "QZSS_L1CA"
    [] type = "BEIDOU" -> "BEIDOU_B1I" [] type = "NAVIC" -> "NAVIC_L5"

-----------------------------------------------------------------------------
(***************************************************************************)
(* Satellites in view: GSV.                                                *)
(***************************************************************************)
\* The kinds of sentences, in their order.
GsvKinds == <<
  <<"GPS", "GPS_L1CA">>, <<"GPS", "GPS_L5">>, <<"GPS", "GPS_L2">>,
  <<"GLONASS", "GLONASS_G1">>, <<"GLONASS", "GLONASS_G2">>,
  <<"GALILEO", "GALILEO_E1">>, <<"GALILEO", "GALILEO_E5A">>, <<"GALILEO", "GALILEO_E5B">>,
  <<"QZSS", "QZSS_L1CA">>, <<"QZSS", "QZSS_L5">>, <<"QZSS", "QZSS_L2">>,
  <<"BEIDOU", "BEIDOU_B1I">>, <<"BEIDOU", "BEIDOU_B1C">>, <<"BEIDOU", "BEIDOU_B2AI">>,
  <<"NAVIC", "NAVIC_L5">> >>

TypesOf(kind) == {kind[1]} \cup IF kind[1] = "GPS" THEN {"SBAS"} ELSE {}

\* The counter of a satellite: that of its signal, or of the first signal of its
\* constellation.
Counter(sv) ==
  LET type == IF sv.type = "SBAS" THEN "GPS" ELSE sv.type
      own == IF sv.signal = "BEIDOU_B2AQ" THEN "BEIDOU_B2AI" ELSE sv.signal
  IN IF <<type, own>> \in ToSet(GsvKinds) THEN <<type, own>> ELSE <<type, DefaultSignal(type)>>

Counted(notify, kind) == Len(SelectSeq(notify, LAMBDA sv : Counter(sv) = kind))

Listed(notify, kind) ==
  SelectSeq(notify, LAMBDA sv :
    /\ sv.type \in TypesOf(kind)
    /\ SignalId(IF sv.signal = "none" THEN DefaultSignal(sv.type) ELSE sv.signal)
         = SignalId(kind[2]))

\* The offset found for an SBAS satellite stays for those that follow.
NumberIn(list, k) ==
  IF list[k].type = "GLONASS" /\ list[k].id = 255 THEN 0
  ELSE IF \E j \in 1 .. k : list[j].type = "SBAS"
       THEN list[k].id - SvIdOffset("SBAS")
       ELSE list[k].id - SvIdOffset(list[k].type)

\* A slip: a rest of one satellite gets no sentence.
GsvSentences_Short(notify, kind) ==
  LET total == Counted(notify, kind)
      list == Listed(notify, kind)
      numbers == [k \in DOMAIN list |-> NumberIn(list, k)]
  IN [n \in 1 .. (total + 2) \div 4 |->
        [name |-> "GSV", talker |-> Talker(kind[1]), of |-> (total + 2) \div 4, number |-> n,
         total |-> total, signal |-> SignalId(kind[2]),
         svs |-> SubSeq(numbers, 4 * n - 3, IF 4 * n <= Len(list) THEN 4 * n ELSE Len(list))]]

\* loc_nmea_generate_GSV: four satellites to a sentence.
GsvSentences(notify, kind) ==
  LET total == Counted(notify, kind)
      list == Listed(notify, kind)
      numbers == [k \in DOMAIN list |-> NumberIn(list, k)]
  IN [n \in 1 .. CeilDiv(total, 4) |->
        [name |-> "GSV", talker |-> Talker(kind[1]), of |-> CeilDiv(total, 4), number |-> n,
         total |-> total, signal |-> SignalId(kind[2]),
         svs |-> SubSeq(numbers, 4 * n - 3, IF 4 * n <= Len(list) THEN 4 * n ELSE Len(list))]]

GenerateSv(notify) ==
  /\ sentences = <<>> /\ svs' = notify /\ fix' = NoFix
  /\ sentences' = FlattenSeq([k \in DOMAIN GsvKinds |-> GsvSentences(notify, GsvKinds[k])])
  /\ UNCHANGED code

-----------------------------------------------------------------------------
(***************************************************************************)
(* Satellites in use: GSA.                                                 *)
(***************************************************************************)
GsaTypes == <<"GPS", "GLONASS", "GALILEO", "BEIDOU", "QZSS">>
UsedTypes == ToSet(GsaTypes) \cup {"NAVIC"}

\* The masks of satellites used, if the fix says so.
Used(f, type) == IF f.usedData THEN f.used[type] ELSE {}
TypesUsed(f) == {t \in UsedTypes : Used(f, t) # {}}
TotalUsed(f) == Cardinality(UNION {{t} \X Used(f, t) : t \in UsedTypes})

TalkerOf(f, type) == IF Cardinality(TypesUsed(f)) > 1 THEN "GN" ELSE Talker(type)

FixType(f) == CASE TotalUsed(f) = 0 -> 1 [] TotalUsed(f) \in 1 .. 3 -> 2 [] OTHER -> 3

\* In the order of the bits of the mask; GLONASS satellites are numbered from 65.
GsaList(f, type) ==
  LET bits == SelectSeq([i \in 1 .. 64 |-> i], LAMBDA i : i \in Used(f, type))
  IN [k \in DOMAIN bits |-> bits[k] + IF type = "GLONASS" THEN 64 ELSE 0]

\* A group is more than twelve satellites, if sentences are grouped.  The code that
\* is the last one is taken back as soon as it was written.
Grouped(list) == Grouping /\ Len(list) > 12

CodeAfter(list, c) ==
  IF ~Grouped(list) THEN c ELSE IF c = MaxCode THEN 2 ELSE c + 1

\* loc_nmea_generate_GSA: twelve satellites to a sentence, and without grouping one
\* sentence only.
GsaSentences(f, type, c) ==
  LET list == GsaList(f, type)
      count == IF Grouping THEN CeilDiv(Len(list), 12) ELSE IF list = <<>> THEN 0 ELSE 1
  IN [n \in 1 .. count |->
        [name |-> "GSA", talker |-> TalkerOf(f, type), fixType |-> FixType(f), system |-> type,
         svs |-> SubSeq(list, 12 * n - 11, IF 12 * n <= Len(list) THEN 12 * n ELSE Len(list)),
         group |-> IF Grouped(list)
                   THEN <<n, count, IF n > 1 /\ c = MaxCode THEN 1 ELSE c>> ELSE <<>>]]

CodeBefore(f, k, c) ==
  FoldLeft(LAMBDA d, type : CodeAfter(GsaList(f, type), d), c, SubSeq(GsaTypes, 1, k - 1))

AllGsa(f, c) ==
  FlattenSeq([k \in DOMAIN GsaTypes |-> GsaSentences(f, GsaTypes[k], CodeBefore(f, k, c))])

\* Satellites of NAVIC are not counted.
SvUsedCount(f) == Cardinality(UNION {{t} \X Used(f, t) : t \in ToSet(GsaTypes)})

-----------------------------------------------------------------------------
(***************************************************************************)
(* Time, and the quality of a fix.                                         *)
(***************************************************************************)
Day == 86400000

\* get_utctime_with_leapsecond_transition: the second that is put in.
InTransition(f) == f.gps >= LeapAt /\ f.gps < LeapAt + 1000

\* The day and the time of the day; 23:59:60 is written at the end of the day.
Shown(f) ==
  IF InTransition(f)
  THEN <<(LeapAt - LeapBefore * 1000 - 1000) \div Day, Day + (f.gps % 1000)>>
  ELSE <<f.utc \div Day, f.utc % Day>>

\* loc_nmea_get_fix_quality, first part: the first correction counts.
Corrections == <<"ppp", "rtkFixed", "rtkFloat", "dgnss", "sbas">>
Correction(f) == SelectSeq(Corrections, LAMBDA c : c \in f.corrections)

Quality(f) ==
  CASE ~f.latLong -> 0
    [] f.latLong /\ Correction(f) # <<>> ->
         [ppp |-> 2, rtkFixed |-> 4, rtkFloat |-> 5, dgnss |-> 2, sbas |-> 2][Correction(f)[1]]
    [] f.latLong /\ Correction(f) = <<>> /\ "satellite" \in f.tech -> 1
    [] f.latLong /\ Correction(f) = <<>> /\ f.tech = {"sensors"} -> 6
    [] OTHER -> 0

ModeIndicator(f) ==
  CASE Quality(f) = 0 -> "N"
    [] Quality(f) # 0 /\ Correction(f) # <<>> ->
         [ppp |-> "P", rtkFixed |-> "R", rtkFloat |-> "F", dgnss |-> "D", sbas |-> "D"][
            Correction(f)[1]]
    [] Quality(f) # 0 /\ Correction(f) = <<>> /\ "satellite" \in f.tech -> "A"
    [] OTHER -> "E"

\* VTG has no letters for RTK.
VtgMode(f) == IF ModeIndicator(f) \in {"R", "F"} THEN "D" ELSE ModeIndicator(f)

GnsModes(f) ==
  [t \in UsedTypes |->
     IF ModeIndicator(f) = "E" \/ (ModeIndicator(f) # "N" /\ f.used[t] # {})
     THEN ModeIndicator(f) ELSE "N"]

\* Second part: the qualities of the device's own; they look at the technique only.
CustomQuality(f) ==
  IF ~f.custom THEN <<Quality(f)>>
  ELSE IF "ppp" \in f.corrections
  THEN <<IF "sensors" \in f.tech THEN 6 ELSE 5, 9>>
  ELSE IF "sensors" \notin f.tech THEN <<Quality(f)>>
  ELSE IF f.corrections # {} \/ "satellite" \in f.tech THEN <<6, Quality(f)>>
  ELSE <<6>>

-----------------------------------------------------------------------------
(***************************************************************************)
(* The sentences of a fix.                                                 *)
(***************************************************************************)
\* The talker of the last constellation that made a GSA sentence.
TalkerLast(f) ==
  LET made == SelectSeq(GsaTypes, LAMBDA t : Used(f, t) # {})
  IN IF made = <<>> THEN "GP" ELSE TalkerOf(f, Last(made))

EmptyGsa == [name |-> "GSA", talker |-> "GP", fixType |-> 1, system |-> "none", svs |-> <<>>,
             group |-> <<>>]
Vtg(f) == [name |-> "VTG", talker |-> TalkerLast(f), mode |-> VtgMode(f)]
Dtm(f) == [name |-> "DTM", talker |-> TalkerLast(f)]
Rmc(f) == [name |-> "RMC", talker |-> TalkerLast(f), time |-> Shown(f), valid |-> SvUsedCount(f) > 0,
           position |-> f.latLong, mode |-> ModeIndicator(f)]
Gns(f) == [name |-> "GNS", talker |-> TalkerLast(f), time |-> Shown(f), position |-> f.latLong,
           modes |-> GnsModes(f), used |-> SvUsedCount(f)]
Gga(f) == [name |-> "GGA", talker |-> TalkerLast(f), time |-> Shown(f), position |-> f.latLong,
           quality |-> CustomQuality(f),
           used |-> IF SvUsedCount(f) > 12 THEN 12 ELSE SvUsedCount(f)]

\* With the datum PZ90 each position is told its datum.
InOrder(f) ==
  LET again == IF f.pz90 THEN <<Dtm(f)>> ELSE <<>>
  IN <<Vtg(f), Dtm(f), Rmc(f)>> \o again \o <<Gns(f)>> \o again \o <<Gga(f)>>

Blank == [k \in 1 .. 6 |-> [name |-> <<"GSA", "VTG", "DTM", "RMC", "GNS", "GGA">>[k],
                            talker |-> "GP"]]

GeneratePos(f) ==
  /\ sentences = <<>> /\ fix' = f /\ svs' = <<>>
  /\ IF f.generate
     THEN /\ sentences' =
               (IF SvUsedCount(f) = 0 THEN <<EmptyGsa>> ELSE AllGsa(f, code)) \o InOrder(f)
          /\ code' = CodeBefore(f, Len(GsaTypes) + 1, code)
     ELSE sentences' = Blank /\ UNCHANGED code

\* The sentences are handed to the clients.
ReportNmea ==
  /\ sentences' = <<>> /\ fix' = NoFix /\ svs' = <<>> /\ UNCHANGED code

NmeaNext ==
  \/ ReportNmea
  \/ \E f \in Fixes : GeneratePos(f)
  \/ \E notify \in Notifications : GenerateSv(notify)

NmeaSpec == NmeaInit /\ [][NmeaNext]_nmeaVars

-----------------------------------------------------------------------------
(***************************************************************************)
(* Properties.                                                             *)
(***************************************************************************)
NmeaTypeOK == code \in 1 .. MaxCode /\ fix \in Fixes \cup {NoFix} /\ svs \in Notifications \cup {<<>>}

Named(name) == SelectSeq(sentences, LAMBDA s : s.name = name)
All(list) == FlattenSeq([k \in DOMAIN list |-> list[k].svs])
Full == fix # NoFix /\ fix.generate

\* The number that NMEA gives to a satellite.
NmeaId(sv) ==
  CASE sv.type \in {"GPS", "GLONASS"} -> IF sv.id = 255 THEN 0 ELSE sv.id
    [] sv.type = "SBAS" -> sv.id - 87
    [] sv.type = "GALILEO" -> sv.id - 300 [] sv.type = "QZSS" -> sv.id - 192
    [] sv.type = "BEIDOU" -> sv.id - 200 [] sv.type = "NAVIC" -> sv.id - 400

\* Every satellite of a report is listed once, with its number and the signal it was
\* heard on, if all signals have sentences of their own and no satellite of GPS comes
\* after one of SBAS; sentences tell how many they are and how many satellites.
EveryoneListed ==
  LET gsv == Named("GSV")
      kinds == {<<s.talker, s.signal>> : s \in ToSet(gsv)}
      of(kind) == SelectSeq(gsv, LAMBDA s : <<s.talker, s.signal>> = kind)
      signalOf(sv) == IF sv.signal = "none" THEN DefaultSignal(sv.type) ELSE sv.signal
      heard(kind) ==
        SelectSeq(svs, LAMBDA sv : <<Talker(sv.type), SignalId(signalOf(sv))>> = kind)
      plain ==
        /\ \A sv \in ToSet(svs) : sv.signal \notin {"GPS_L1C", "BEIDOU_B2I", "QZSS_L1S"}
        /\ \A i, j \in DOMAIN svs : svs[i].type = "SBAS" /\ svs[j].type = "GPS" => j < i
  IN
  plain =>
    /\ {<<Talker(sv.type), SignalId(signalOf(sv))>> : sv \in ToSet(svs)} = kinds
    /\ \A kind \in kinds :
         LET list == of(kind) IN
         /\ All(list) = [k \in DOMAIN heard(kind) |-> NmeaId(heard(kind)[k])]
         /\ \A n \in DOMAIN list :
              /\ list[n].number = n /\ list[n].of = Len(list)
              /\ list[n].total = Len(All(list)) /\ Len(list[n].svs) \in 1 .. 4

\* Every satellite used, but those of NAVIC, is listed once: all of them with groups,
\* the first twelve of a constellation without.
UsedListed ==
  Full =>
    \A type \in ToSet(GsaTypes) :
      LET list == All(SelectSeq(Named("GSA"), LAMBDA s : s.system = type))
          all == {i + IF type = "GLONASS" THEN 64 ELSE 0 : i \in Used(fix, type)}
      IN
      /\ IF Grouping THEN ToSet(list) = all
         ELSE /\ ToSet(list) \subseteq all
              /\ Len(list) = IF Cardinality(all) > 12 THEN 12 ELSE Cardinality(all)
      /\ IsInjective(list)

\* Sentences of one group carry one code, of different groups of a report different
\* ones (until the code starts over: then a group is torn).
GroupsApart ==
  Full =>
    LET gsa == SelectSeq(Named("GSA"), LAMBDA s : s.group # <<>>)
        torn == \E s \in ToSet(gsa) : s.group[3] = MaxCode
    IN torn \/ \A s, t \in ToSet(gsa) : (s.group[3] = t.group[3]) <=> (s.system = t.system)

\* A later fix shows a later time, through the second that is put in.
TimeAdvances ==
  Full =>
    \A f \in {f \in Fixes : f.gps < fix.gps} :
      LET a == Shown(f) b == Last(sentences).time
      IN a[1] < b[1] \/ (a[1] = b[1] /\ a[2] < b[2])

\* The sentences of a fix agree on its quality: none of them claims a fix, and none
\* but the device's own quality for dead reckoning, when there is no position.
QualityAgrees ==
  Full =>
    LET rmc == Named("RMC")[1] gga == Named("GGA")[1] vtg == Named("VTG")[1]
        gns == Named("GNS")[1]
    IN /\ rmc.mode = "N" <=> vtg.mode = "N"
       /\ rmc.mode = "N" => \A t \in UsedTypes : gns.modes[t] = "N"
       /\ ~fix.latLong /\ ~fix.custom => gga.quality = <<0>> /\ rmc.mode = "N"
       /\ gga.quality = <<0>> => rmc.mode = "N"
       /\ Cardinality({s.talker : s \in ToSet(sentences)} \ {"GN"}) <= 1
=============================================================================
