-------------------------------- MODULE MCUtils -------------------------------
(***************************************************************************)
(* Small instances of the utilities of gps/utils, side by side: the        *)
(* initial state chooses one, by part, and the behaviour stays in it.      *)
(*   timer   timers and their container, an instance this module extends   *)
(*   heap    the tree of a container's timers                              *)
(*   conf    files with two processes of eight kinds on devices that       *)
(*           differ in what lists name, an instance it extends too         *)
(***************************************************************************)
EXTENDS LocTimer, LocCfg

CONSTANT Parts

VARIABLES part, tree, pushed

\* Seven timers, of which two have the same time but for one.
Heap == INSTANCE LocHeap WITH Rankables <- 1 .. 7, RankOf <- [d \in 1 .. 7 |-> (d + 1) \div 2]

heapOnly == <<tree, pushed>>

-----------------------------------------------------------------------------
(***************************************************************************)
(* Files, devices and reports.                                             *)
(***************************************************************************)
Line(name, value) == [name |-> name, value |-> value]
Comment == Line("comment", Empty)

Process(name, argument, state, premium, features, platforms, socs, basebands, hardware, vendor) ==
  <<Line("PROCESS_NAME", name), Line("PROCESS_ARGUMENT", argument),
    Line("PROCESS_STATE", state), Line("PROCESS_GROUPS", <<"gps", "inet">>),
    Line("PREMIUM_FEATURE", premium), Line("IZAT_FEATURE_MASK", features),
    Line("PLATFORMS", platforms), Line("SOC_IDS", socs), Line("BASEBAND", basebands),
    Line("LOW_RAM_TARGETS", IF premium = <<"1">> THEN <<"DISABLED">> ELSE <<"ENABLED">>),
    Line("HARDWARE_TYPE", hardware), Line("VENDOR_ENHANCED_PROCESS", vendor)>>

All == <<"all">>
Lowi ==
  Process(<<"lowi-server">>, Newline, <<"ENABLED">>, <<"0">>, <<"GTP_WIFI_BASIC">>,
          All, All, All, All, <<"0">>)
Slim ==
  Process(<<"slim_daemon">>, Newline, <<"ENABLED">>, <<"1">>, <<"SAP_BASIC", "SAP_PREMIUM">>,
          <<"all", "exclude">>, <<"all", "exclude", "386">>, All, All, <<"1">>)
Wifi ==
  Process(<<"xtwifi-client">>, <<"NULL">>, <<"ENABLED">>, <<"1">>,
          <<"GTP_WIFI_BASIC", "GTP_CELL_BASIC", "GTP_WAA_BASIC">>,
          <<"holi">>, All, <<"sglte">>, <<"automotive">>, <<"0">>)
Xtra ==
  Process(<<"xtra-daemon">>, Newline, <<"ENABLED">>, <<"0">>, Newline,
          All, <<"386">>, <<"all", "exclude", "msm">>, All, <<"0">>)
Dre ==
  Process(<<"engine-service">>, <<"DRE-INT", "libloc_epDr.so">>, <<"ENABLED">>, <<"0">>,
          <<"0">>, All, All, All, All, <<"1">>)
Ppe ==
  Process(<<"engine-service">>, <<"PPE", "libepsimulator.so">>, <<"ENABLED">>, <<"0">>,
          <<"0">>, All, All, All, All, <<"0">>)
Off ==
  Process(<<"engine-service">>, <<"DRE-INT">>, <<"DISABLED">>, <<"0">>, <<"0">>, All, All, All, All, <<"0">>)

\* The lines of a process in another order, with a comment.
Turned(p) == SubSeq(p, 7, 12) \o <<Comment>> \o SubSeq(p, 1, 6)

Without(p, name) == SelectSeq(p, LAMBDA l : l.name # name)

Features ==
  {<<Line("GTP_MODE", <<"SDK">>), Line("SAP", <<"PREMIUM_ENV_AIDING">>), Line(External, <<"1">>)>>,
   <<Line("GTP_WAA", <<"BASIC">>), Line("SAP", <<"DISABLED">>), Line("ODCPI", <<"BASIC">>)>>,
   <<Line("GTP_MODE", <<"LEGACY_WWAN">>)>>}

SomeProcesses == {Lowi, Slim, Wifi, Xtra, Dre, Ppe, Off, Turned(Dre)}

SomeFiles ==
  {f \o <<Comment>> \o p \o <<Comment>> \o q : f \in Features, p \in SomeProcesses, q \in SomeProcesses}

Device(platform, soc, baseband, hardware, flags) ==
  [platform |-> platform, soc |-> soc, baseband |-> baseband, hardware |-> hardware,
   lowRam |-> "lowRam" \in flags, sglte |-> "sglte" \in flags, xtra |-> "xtra" \in flags,
   vendor |-> "vendor" \in flags, hubLib |-> "hub" \in flags]

SomeDevices ==
  {Device("holi", "386", "apq", "automotive", {"sglte", "vendor", "hub"}),
   Device("holi", "454", "msm", "", {"xtra", "vendor", "hub"}),
   Device("other", "386", "apq", "", {"xtra", "lowRam", "hub"})}

SomeReports == {{}, {Correction}, {Correction, "DEBUG_NMEA"}}

GpsConf(values) == [i \in DOMAIN values |-> Line(values[i], <<"1">>)]
SomeUpdates ==
  {[lines |-> GpsConf(l), table |-> {"SUPL_VER", "SUPL_MODE", "CAPABILITIES"}] :
     l \in {<<"SUPL_VER", "SUPL_MODE">>, <<"SUPL_VER", "comment">>, <<"SUPL_MODE", "SUPL_MODE">>}}

-----------------------------------------------------------------------------
UtilsInit ==
  /\ part \in Parts
  /\ Init /\ Heap!HeapInit
  /\ IF part = "conf" THEN CfgInit ELSE file = <<>> /\ device = <<>> /\ NothingRead

UtilsNext ==
  /\ UNCHANGED part
  /\ \/ part = "timer" /\ Next /\ UNCHANGED <<heapOnly, cfgVars>>
     \/ part = "heap" /\ Heap!HeapNext /\ UNCHANGED <<vars, cfgVars>>
     \/ part = "conf" /\ CfgNext /\ UNCHANGED <<vars, heapOnly>>

utilsVars == <<part, vars, heapOnly, cfgVars>>

\* The threads of the timers run and time passes; the others owe nothing.
InTimer(A) == part = "timer" /\ A /\ UNCHANGED <<part, heapOnly, cfgVars>>
TimerFair ==
  WF_utilsVars(InTimer(Task)) /\ WF_utilsVars(InTimer(Poll)) /\ WF_utilsVars(InTimer(Tick))

UtilsSpec == UtilsInit /\ [][UtilsNext]_utilsVars /\ TimerFair

-----------------------------------------------------------------------------
(***************************************************************************)
(* The properties, as the other modules state them.                        *)
(***************************************************************************)
\* The timers keep their types.  Their tree has the soonest on top and loses none.  A
\* process is decided by its own lines and does not run where they exclude it, and what is
\* loaded of the engine is what the file asks for.
UtilsHold ==
  CASE part = "timer" -> TypeOK
    [] part = "heap" -> Heap!TreeIsSet
    [] part = "conf" -> CfgTypeOK /\ OwnSettings /\ NotExcluded /\ HubFollows

=============================================================================
