-------------------------------- MODULE LocCfg --------------------------------
(***************************************************************************)
(* Configuration files (gps/utils/loc_cfg.cpp) and what is decided by them *)
(* at start: which location processes run, whether the engine hub is       *)
(* loaded (GnssAdapter::initEngHubProxy), and which features of the engine *)
(* are used (ContextBase::setEngineCapabilities).                          *)
(*                                                                         *)
(* A line names a parameter and has a value, a sequence of words; a line   *)
(* that names no parameter is a comment.  The reader knows no blocks: it   *)
(* reads on until it has seen as many lines of its table as the table has  *)
(* entries.  The entries are static, so one that is not read keeps what it *)
(* had, and what loc_util_split_string left of it.                         *)
(***************************************************************************)
EXTENDS Naturals, Sequences, FiniteSets, SequencesExt

CONSTANTS
  Files,     \* contents of izat.conf
  Devices,   \* [platform, soc, baseband, hardware, lowRam, sglte, xtra, vendor, hubLib]
  Reported,  \* sets of features that an engine may report
  Updates,   \* what loc_update_conf may be given: lines and a table
  MaxReports \* bound: times an engine reports its capabilities

ProcessTable ==
  {"PROCESS_NAME", "PROCESS_ARGUMENT", "PROCESS_STATE", "PROCESS_GROUPS", "PREMIUM_FEATURE",
   "IZAT_FEATURE_MASK", "PLATFORMS", "SOC_IDS", "BASEBAND", "LOW_RAM_TARGETS",
   "HARDWARE_TYPE", "VENDOR_ENHANCED_PROCESS"}

FeatureTable ==
  {"GTP_MODE", "GTP_WAA", "SAP", "ODCPI", "FREE_WIFI_SCAN_INJECT", "SUPL_WIFI",
   "WIFI_SUPPLICANT_INFO"}

Empty == <<>>
\* The value of a line that ends after its "=": what is left of it is the line's end.
Newline == <<"newline">>

VARIABLES
  file, device,
  conf,       \* the static entries
  pos,        \* the first line that is not read yet
  phase,      \* "features", "count", "processes", "hub", "done"
  counted,    \* proc_list_length
  children,   \* the processes decided so far
  hub,        \* the engine hub is loaded
  mDreIntEnabled,
  capsKnown,  \* sIsEngineCapabilitiesKnown
  supported,  \* sFeaturesSupported
  sapKnown,   \* isSapModeKnown
  reports,    \* times the capabilities were reported
  updated     \* the last loc_update_conf: its records, and what it returned

fileVars == <<conf, pos, phase, counted, children>>
engineVars == <<capsKnown, supported, sapKnown, reports>>
cfgVars == <<file, device, fileVars, hub, mDreIntEnabled, engineVars, updated>>

-----------------------------------------------------------------------------
(***************************************************************************)
(* Reading lines into a table.                                             *)
(***************************************************************************)
Named(lines, table, from, to) == {i \in from .. to : lines[i].name \in table}

\* The last line that is read from line `from` on for n lines of the table.
LastRead(lines, table, from, n) ==
  LET named == Named(lines, table, from, Len(lines))
  IN IF n = 0 THEN from - 1
     ELSE IF Cardinality(named) < n THEN Len(lines)
     ELSE CHOOSE i \in named : Cardinality({j \in named : j <= i}) = n

Stored(value) == IF value = <<"NULL">> THEN Empty ELSE value

\* The entries after lines from .. to: the last line that names an entry counts.
Filled(old, lines, table, from, to) ==
  [p \in DOMAIN old |->
     LET at == Named(lines, table \cap {p}, from, to)
     IN IF at = {} THEN old[p] ELSE Stored(lines[Max(at)].value)]

\* Slip: one line less is read.
ReadLast_Short(lines, table, from) == LastRead(lines, table, from, Cardinality(table) - 1)

ReadLast(lines, table, from) == LastRead(lines, table, from, Cardinality(table))

\* loc_read_conf_r_long: the line it ends at, and the entries.
ReadConf(old, table, from) ==
  LET last == ReadLast(file, table, from)
  IN [next |-> last + 1, conf |-> Filled(old, file, table, from, last)]

\* loc_update_conf_long: a record less than the table has, and lines are counted.
UpdateConf(lines, table) ==
  LET last == LastRead(lines, table, 1, Cardinality(table) - 1)
  IN [result |-> last, records |-> Cardinality({lines[i].name : i \in Named(lines, table, 1, last)})]

\* A table of one entry takes the first line that names it.
Says(p) == Named(file, {p}, 1, Len(file)) # {}
Said(p) == Stored(file[LastRead(file, {p}, 1, 1)].value)

-----------------------------------------------------------------------------
(***************************************************************************)
(* Whether a process runs, and with which arguments.                       *)
(***************************************************************************)
Is(value, word) == value = <<word>>
Basic(c, p) == c[p] \in {<<"BASIC">>, <<"PREMIUM">>}

\* The features that the file turns on.
ServiceMask(c) ==
  (IF Is(c["GTP_MODE"], "LEGACY_WWAN") THEN {"GTP_MODEM_CELL_BASIC"} ELSE {})
  \cup (IF c["GTP_MODE"] \in {<<"SDK">>, <<"SDK_WIFI">>} THEN {"GTP_WIFI_BASIC"} ELSE {})
  \cup (IF Is(c["GTP_WAA"], "BASIC") THEN {"GTP_WAA_BASIC"} ELSE {})
  \cup (IF c["SAP"] \in {<<"PREMIUM">>, <<"PREMIUM_ENV_AIDING">>} THEN {"SAP_PREMIUM"}
        ELSE IF Is(c["SAP"], "DISABLED") THEN {} ELSE {"SAP_BASIC"})
  \cup {p \in {"ODCPI", "FREE_WIFI_SCAN_INJECT", "SUPL_WIFI", "WIFI_SUPPLICANT_INFO"} : Basic(c, p)}

Flag(value) == value \notin {Empty, Newline, <<"0">>}

\* Slip: a list of exclusions is read as a list of inclusions.
Lists_Excluded(words, me) == me \in Range(words) \/ Head(words) = "all"

\* "all", "all exclude" with names that are not this device's, or a list with its name.
Lists(words, me) ==
  \/ words \in {<<"all">>, <<"all", "exclude">>}
  \/ /\ Len(words) > 2 /\ words[1] = "all" /\ words[2] = "exclude"
     /\ \A i \in 3 .. Len(words) : words[i] # me
  \/ words[1] # "all" /\ me \in Range(words)

Suits(c) ==
  /\ Lists(c["PLATFORMS"], device.platform)
  /\ Lists(c["SOC_IDS"], device.soc)
  /\ \/ Lists(c["BASEBAND"], device.baseband)
     \/ Head(c["BASEBAND"]) # "all" /\ "sglte" \in Range(c["BASEBAND"]) /\ device.sglte
  /\ Head(c["HARDWARE_TYPE"]) = "all" \/ device.hardware \in Range(c["HARDWARE_TYPE"])

\* What the process asks for that the file turns on.
Granted(c) == Range(c["IZAT_FEATURE_MASK"]) \cap ServiceMask(c)

Mode(c, basic, premium) ==
  IF basic \in ServiceMask(c) THEN "BASIC"
  ELSE IF premium \in ServiceMask(c) THEN "PREMIUM" ELSE "DISABLED"

Option(c, mine, option, basic, premium) ==
  IF Range(c["IZAT_FEATURE_MASK"]) \cap mine = {} THEN <<>>
  ELSE <<option, Mode(c, basic, premium)>>

FeatureArgs(c) ==
  Option(c, {"GTP_WIFI_BASIC", "GTP_WIFI_PREMIUM"}, "--gtp-wifi", "GTP_WIFI_BASIC", "GTP_WIFI_PREMIUM")
  \o Option(c, {"GTP_CELL_BASIC", "GTP_CELL_PREMIUM"}, "--gtp-modem-cell", "GTP_MODEM_CELL_BASIC", "none")
  \o Option(c, {"SAP_BASIC", "SAP_PREMIUM"}, "--sap", "SAP_BASIC", "SAP_PREMIUM")
  \o Option(c, {"GTP_WAA_BASIC"}, "--gtp-waa", "GTP_WAA_BASIC", "none")

Child(status, name, args) == [status |-> status, name |-> name, args |-> args]

Mandatory ==
  {"PROCESS_NAME", "PROCESS_GROUPS", "PLATFORMS", "BASEBAND", "PROCESS_STATE", "HARDWARE_TYPE",
   "SOC_IDS"}

\* The reasons not to look at the lists, in their order.
Barred(c) ==
  IF \E p \in Mandatory : c[p] = Empty THEN "DISABLED"
  ELSE IF Is(c["PROCESS_NAME"], "xtra-daemon") /\ ~device.xtra THEN "DISABLED_FROM_CONF"
  ELSE IF ~device.vendor /\ Flag(c["VENDOR_ENHANCED_PROCESS"])
       THEN "DISABLED_VIA_VENDOR_ENHANCED_CHECK"
  ELSE IF Is(c["PROCESS_STATE"], "DISABLED") THEN "DISABLED_FROM_CONF" ELSE "no"

LowRam(c) == device.lowRam /\ c["LOW_RAM_TARGETS"] # Empty /\ Head(c["LOW_RAM_TARGETS"]) = "DISABLED"

Decide(c) ==
  IF Barred(c) # "no" THEN Child(Barred(c), Empty, <<>>)
  ELSE IF LowRam(c) \/ ~Suits(c) THEN Child("DISABLED", c["PROCESS_NAME"], <<>>)
  ELSE IF Flag(c["PREMIUM_FEATURE"]) /\ Granted(c) = {}
       THEN Child("DISABLED", c["PROCESS_NAME"], c["PROCESS_NAME"] \o c["PROCESS_ARGUMENT"])
  ELSE Child("ENABLED", c["PROCESS_NAME"],
             c["PROCESS_NAME"] \o (IF Flag(c["PREMIUM_FEATURE"]) THEN FeatureArgs(c) ELSE <<>>)
             \o c["PROCESS_ARGUMENT"])

Split == {"PROCESS_GROUPS", "PLATFORMS", "SOC_IDS", "BASEBAND", "HARDWARE_TYPE", "LOW_RAM_TARGETS"}

\* Splitting a string into words cuts it off after the first.
Cut(c) ==
  IF Barred(c) # "no" THEN c
  ELSE [p \in DOMAIN c |-> IF p \in Split /\ c[p] # Empty THEN <<Head(c[p])>> ELSE c[p]]

-----------------------------------------------------------------------------
NothingRead ==
  /\ conf = [p \in ProcessTable \cup FeatureTable |-> Empty]
  /\ pos = 1 /\ phase = "features" /\ counted = 0 /\ children = <<>>
  /\ hub = FALSE /\ mDreIntEnabled = FALSE
  /\ capsKnown = FALSE /\ supported = {} /\ sapKnown = FALSE /\ reports = 0
  /\ updated = [result |-> 0, records |-> 0]

CfgInit == file \in Files /\ device \in Devices /\ NothingRead

\* The features are read; then the file is opened again.
ReadFeatures ==
  /\ phase = "features" /\ phase' = "count"
  /\ conf' = ReadConf(conf, FeatureTable, 1).conf /\ pos' = 1
  /\ UNCHANGED <<file, device, counted, children, hub, mDreIntEnabled, engineVars, updated>>

\* Processes are counted, name by name, until no line is left; then from the start.
CountProcess ==
  LET read == ReadConf([conf EXCEPT !["PROCESS_NAME"] = Empty], {"PROCESS_NAME"}, pos)
  IN /\ phase = "count" /\ conf' = read.conf
     /\ \/ /\ conf'["PROCESS_NAME"] # Empty
           /\ counted' = counted + 1 /\ pos' = read.next /\ UNCHANGED phase
        \/ /\ conf'["PROCESS_NAME"] = Empty
           /\ pos' = 1 /\ phase' = "processes" /\ UNCHANGED counted
     /\ UNCHANGED <<file, device, children, hub, mDreIntEnabled, engineVars, updated>>

MoreProcesses == Len(children) < counted

ReadProcess ==
  LET read == ReadConf(conf, ProcessTable, pos)
  IN /\ phase = "processes" /\ MoreProcesses
     /\ pos' = read.next /\ conf' = Cut(read.conf)
     /\ children' = Append(children, Decide(read.conf))
     /\ UNCHANGED <<file, device, phase, counted, hub, mDreIntEnabled, engineVars, updated>>

External == "LOAD_ENGHUB_FOR_EXTERNAL_ENGINE"

EngineServices ==
  {i \in DOMAIN children :
     children[i].name = <<"engine-service">> /\ children[i].status = "ENABLED"}

DreInt(i) == Len(children[i].args) > 1 /\ children[i].args[2] = "DRE-INT"

\* The hub is loaded for an engine of the file, or one that runs outside.
InitEngHubProxy ==
  /\ phase = "processes" /\ ~MoreProcesses /\ phase' = "done"
  /\ mDreIntEnabled' = \E i \in EngineServices : DreInt(i)
  /\ hub' = (device.hubLib
              /\ (EngineServices # {} \/ (Says(External) /\ Flag(Said(External)))))
  /\ UNCHANGED <<file, device, conf, pos, counted, children, engineVars, updated>>

-----------------------------------------------------------------------------
(***************************************************************************)
(* What the engine can do.                                                 *)
(***************************************************************************)
Correction == "MEASUREMENTS_CORRECTION"

\* The buffer of the setting is not initialized: without a line for it, anything is there.
SapAllows(b) ==
  ~Says("SAP") \/ b = Is(Said("SAP"), "PREMIUM_ENV_AIDING")

\* Slip: each report of an engine is taken.
TakesReport_Always == TRUE
TakesReport == ~capsKnown

SetEngineCapabilities(features) ==
  /\ reports < MaxReports /\ reports' = reports + 1
  /\ \/ ~TakesReport /\ UNCHANGED <<capsKnown, supported, sapKnown>>
     \/ /\ TakesReport /\ capsKnown' = TRUE
        /\ \/ /\ Correction \notin features \/ sapKnown
              /\ supported' = features /\ UNCHANGED sapKnown
           \/ /\ Correction \in features /\ ~sapKnown
              /\ sapKnown' = Says("SAP")
              /\ \E b \in BOOLEAN :
                   SapAllows(b) /\ supported' = IF b THEN features ELSE features \ {Correction}
  /\ UNCHANGED <<file, device, fileVars, hub, mDreIntEnabled, updated>>

Update(u) ==
  /\ updated' = UpdateConf(u.lines, u.table)
  /\ UNCHANGED <<file, device, fileVars, hub, mDreIntEnabled, engineVars>>

CfgNext ==
  \/ ReadFeatures \/ CountProcess \/ ReadProcess \/ InitEngHubProxy
  \/ \E features \in Reported : SetEngineCapabilities(features)
  \/ \E u \in Updates : Update(u)

CfgSpec == CfgInit /\ [][CfgNext]_cfgVars

-----------------------------------------------------------------------------
(***************************************************************************)
(* Properties.                                                             *)
(***************************************************************************)
CfgTypeOK ==
  /\ file \in Files /\ device \in Devices
  /\ DOMAIN conf = ProcessTable \cup FeatureTable
  /\ pos \in 1 .. Len(file) + 1
  /\ phase \in {"features", "count", "processes", "done"}
  /\ counted \in 0 .. Len(file) /\ Len(children) <= counted
  /\ {hub, mDreIntEnabled, capsKnown, sapKnown} \subseteq BOOLEAN
  /\ reports \in 0 .. MaxReports

\* The lines that describe processes, in their order, and the k-th twelve of them.
ProcessLines == SelectSeq(file, LAMBDA l : l.name \in ProcessTable)
Block(k) == SubSeq(ProcessLines, 12 * k - 11, 12 * k)
Blocks == Len(ProcessLines) \div 12

\* izat.conf is as loc_cfg.h asks when every twelve lines say everything once.
WellFormed ==
  /\ Len(ProcessLines) = 12 * Blocks
  /\ \A k \in 1 .. Blocks : {Block(k)[i].name : i \in 1 .. 12} = ProcessTable

Own(k) ==
  [p \in DOMAIN conf |->
     IF p \in ProcessTable
     THEN Stored(Block(k)[CHOOSE i \in 1 .. 12 : Block(k)[i].name = p].value)
     ELSE conf[p]]

\* In a file in which every process has all its lines, each process is decided by its
\* own lines alone: the reader stays in step with the blocks, and nothing is left over
\* of the processes before.
OwnSettings ==
  WellFormed /\ phase = "done" =>
    /\ Len(children) = Blocks
    /\ \A k \in 1 .. Blocks : children[k] = Decide(Own(k))

\* A process that runs is one that the lists of its own lines let run on this device.
NotExcluded ==
  WellFormed /\ phase = "done" =>
    \A k \in 1 .. Blocks : children[k].status = "ENABLED" =>
      \A p \in {<<"PLATFORMS", device.platform>>, <<"SOC_IDS", device.soc>>} :
        LET words == Own(k)[p[1]]
        IN p[2] \in Range(words) => words[1] # "all"

\* Dead reckoning is taken to be there only if an engine service that is not disabled has
\* it as its first argument, and the hub is loaded only for an engine.
HubFollows ==
  WellFormed /\ phase = "done" =>
    LET services == {k \in 1 .. Blocks : Is(Own(k)["PROCESS_NAME"], "engine-service")
                                          /\ ~Is(Own(k)["PROCESS_STATE"], "DISABLED")}
    IN /\ mDreIntEnabled => \E k \in services : Head(Own(k)["PROCESS_ARGUMENT"]) = "DRE-INT"
       /\ hub => services # {} \/ Says(External)

\* Measurements are corrected only if the file asks for aid by the environment, whatever
\* the engine reports, and however often.
CorrectionAsked ==
  Says("SAP") /\ Correction \in supported => Is(Said("SAP"), "PREMIUM_ENV_AIDING")
=============================================================================
