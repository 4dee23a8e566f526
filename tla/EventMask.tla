------------------------------ MODULE EventMask ------------------------------
(***************************************************************************)
(* What the modem reports to the HAL: LocApiBase (core/LocApiBase.cpp)     *)
(* opens the modem with the union of the event masks of its adapters, and  *)
(* each adapter computes its mask from its clients, the AGPS and ODCPI     *)
(* callbacks and the engine hub (core/LocAdapterBase.{h,cpp},              *)
(* GnssAdapter::updateClientsEventMask and its namesakes).                 *)
(*                                                                         *)
(* The adapters share a task; LocApiBase has one of its own.  An open is a *)
(* message to the latter that reads the masks when it is handled, not when *)
(* it was sent.  The modem may restart: it forgets what it was opened      *)
(* with, and LocApiBase opens it again and tells every adapter.            *)
(*                                                                         *)
(* Left out: BATCH_FULL (module Batching), the latency reports that only a *)
(* log wants, and the removal of an adapter, which nobody calls while the  *)
(* HAL is loaded.                                                          *)
(***************************************************************************)
EXTENDS Naturals, Sequences, FiniteSets

CONSTANTS
  Clients,       \* those who give callbacks to the adapters
  Offers,        \* the sets of callbacks that a client may give, by adapter
  ConfTypes,     \* the NMEA types that the configuration asks for
  Excluded,      \* mExcludedMask: the events of another LocApi
  HubLoaded,     \* is there an engine hub?
  HubRepeats,    \* may the hub say twice that it needs N Hz measurements?
  MaxUnderway,   \* bound: messages under way when the environment acts
  MaxRestarts,   \* bound: restarts of the modem
  MaxInfo        \* bound: reports of each piece of the system information

VARIABLES
  adapters,      \* mLocAdapters
  callbacks,     \* mClientData: of each adapter and client; {} of none
  evtMask,       \* mEvtMask of each adapter
  nmeaMask,      \* mNmeaMask
  agps,          \* mAgpsManager.isRegistered()
  odcpi,         \* is mOdcpiRequestCb set?
  sysInfo,       \* mLocSystemInfo: the report of each piece that is cached, 0: none
  taskQ,         \* messages of the adapters' task
  apiQ,          \* messages of the LocApi task
  modem,         \* what the modem has: [up, mask, types]
  restarts,      \* restarts of the modem so far
  upSince,       \* the last restart that each adapter knows of, once it is up
  nhzWish,       \* the hub's last word on N Hz measurements
  infoSent,      \* reports of each piece that the modem has made
  infoSeen       \* the last report of each piece that each client was told

adapterVars == <<adapters, callbacks, evtMask, nmeaMask, agps, odcpi, sysInfo>>
queueVars == <<taskQ, apiQ>>
worldVars == <<modem, restarts, upSince, nhzWish, infoSent, infoSeen>>
maskVars == <<adapterVars, queueVars, worldVars>>

Adapters == {"gnss", "geofence", "batching"}
Pieces == {"current", "change"}
NoInfo == [p \in Pieces |-> 0]
Down == [up |-> FALSE, mask |-> {}, types |-> {}]

MaskInit ==
  /\ adapters = {} /\ callbacks = [a \in Adapters |-> [c \in Clients |-> {}]]
  /\ evtMask = [a \in Adapters |-> {}] /\ nmeaMask = {}
  /\ agps = FALSE /\ odcpi = FALSE /\ sysInfo = NoInfo
  /\ taskQ = <<>> /\ apiQ = <<>>
  /\ modem = [Down EXCEPT !.up = TRUE] /\ restarts = 0
  /\ upSince = [a \in Adapters |-> MaxRestarts + 1] /\ nhzWish = FALSE
  /\ infoSent = NoInfo /\ infoSeen = [c \in Clients |-> NoInfo]

-----------------------------------------------------------------------------
(***************************************************************************)
(* The masks.                                                              *)
(***************************************************************************)
\* Some client of an adapter gave this callback.
Has(a, given, callback) == \E c \in Clients : callback \in given[a][c]

HubBits == {"measurement", "polynomial", "unpropagated", "ephemeris"}

\* GnssAdapter::updateClientsEventMask: the mask for the callbacks given.
GnssMask(given) ==
  {"info"}
  \cup (IF Has("gnss", given, "tracking") THEN {"position"} ELSE {})
  \cup (IF Has("gnss", given, "sv") THEN {"satellites"} ELSE {})
  \cup (IF Has("gnss", given, "nmea") /\ nmeaMask # {} THEN {"nmea"} ELSE {})
  \cup (IF Has("gnss", given, "measurement") THEN {"measurement"} ELSE {})
  \cup (IF Has("gnss", given, "data") THEN {"position", "nmea"} ELSE {})
  \cup (IF HubLoaded THEN HubBits \cup (evtMask["gnss"] \cap {"nhz"}) ELSE {})
  \cup (IF agps THEN {"server"} ELSE {})
  \cup (IF odcpi THEN {"wifi"} ELSE {})

\* GeofenceAdapter::updateClientsEventMask.
GeofenceMask(given) ==
  (IF Has("geofence", given, "breach") THEN {"breach", "dwell"} ELSE {})
  \cup (IF Has("geofence", given, "status") THEN {"alert"} ELSE {})

\* BatchingAdapter::updateClientsEventMask.
BatchingMask(given) == IF Has("batching", given, "batching") THEN {"batchStatus"} ELSE {}

ClientsMask(a, given) ==
  CASE a = "gnss" -> GnssMask(given)
    [] a = "geofence" -> GeofenceMask(given)
    [] OTHER -> BatchingMask(given)

\* LocApiBase::getEvtMask.
Union == (UNION {evtMask[a] : a \in adapters}) \ Excluded

OpenMsg == [op |-> "open", adapter |-> "none"]
TypesMsg(types) == [op |-> "types", types |-> types]

-----------------------------------------------------------------------------
(***************************************************************************)
(* Messages of the adapters' task.                                         *)
(***************************************************************************)
Told(seen, c, report) == [p \in Pieces |-> IF report[p] > 0 THEN report[p] ELSE seen[p]]

\* MsgAddClient: a client that is new to the system information is told what is cached,
\* and then the mask is computed; a client of data has the debug sentences registered.
AddClient(a, c, given) ==
  /\ infoSeen' =
       IF a = "gnss" /\ "system" \in given /\ "system" \notin callbacks["gnss"][c]
       THEN [infoSeen EXCEPT ![c] = Told(@, c, sysInfo)] ELSE infoSeen
  /\ callbacks' = [callbacks EXCEPT ![a][c] = given]
  /\ evtMask' = [evtMask EXCEPT ![a] = ClientsMask(a, callbacks')]
  /\ apiQ' = apiQ
       \o (IF a = "gnss" /\ Has("gnss", callbacks', "data")
           THEN <<TypesMsg(nmeaMask \cup {"debug"})>> ELSE <<>>)
       \o <<OpenMsg>>
  /\ UNCHANGED <<nmeaMask, sysInfo>>

SetConfig_TypesOnly ==
  /\ nmeaMask' = ConfTypes /\ UNCHANGED evtMask
  /\ apiQ' = apiQ \o (IF ConfTypes # {} THEN <<TypesMsg(ConfTypes)>> ELSE <<>>)

SetConfig_OnceTyped ==
  /\ nmeaMask' = ConfTypes
  /\ LET enable == nmeaMask # ConfTypes /\ ConfTypes # {} /\ Has("gnss", callbacks, "nmea")
     IN /\ evtMask' = IF enable THEN [evtMask EXCEPT !["gnss"] = @ \cup {"nmea"}] ELSE evtMask
        /\ apiQ' = apiQ \o (IF enable THEN <<OpenMsg, TypesMsg(ConfTypes)>> ELSE <<>>)

\* setConfig, as GnssAdapter's handler of an engine that came up calls it: the types of
\* the configuration, registered and given to the modem.
SetConfig ==
  /\ nmeaMask' = ConfTypes
  /\ LET enable == nmeaMask # ConfTypes /\ ConfTypes # {} /\ Has("gnss", callbacks, "nmea")
     IN /\ evtMask' = IF enable THEN [evtMask EXCEPT !["gnss"] = @ \cup {"nmea"}] ELSE evtMask
        /\ apiQ' = apiQ \o (IF enable THEN <<OpenMsg>> ELSE <<>>)
             \o (IF ConfTypes # {} THEN <<TypesMsg(ConfTypes)>> ELSE <<>>)

\* The handler of handleEngineUpEvent of an adapter.
EngineUp(a, since) ==
  /\ upSince' = [upSince EXCEPT ![a] = since]
  /\ IF a = "gnss" THEN SetConfig ELSE UNCHANGED <<nmeaMask, evtMask, apiQ>>

SystemInfo_Replaces(report) ==
  /\ sysInfo' = report
  /\ infoSeen' = [c \in Clients |->
       IF "system" \in callbacks["gnss"][c] THEN Told(infoSeen[c], c, report) ELSE infoSeen[c]]

\* reportLocationSystemInfo: the pieces of a report are merged with those that are kept,
\* and the report is told as it is to those who have the callback.
SystemInfo(report) ==
  /\ sysInfo' = Told(sysInfo, "none", report)
  /\ infoSeen' = [c \in Clients |->
       IF "system" \in callbacks["gnss"][c] THEN Told(infoSeen[c], c, report) ELSE infoSeen[c]]

Enable(bit) ==
  /\ evtMask' = [evtMask EXCEPT !["gnss"] = @ \cup {bit}]
  /\ apiQ' = Append(apiQ, OpenMsg)

Disable(bit) ==
  /\ evtMask' = [evtMask EXCEPT !["gnss"] = @ \ {bit}]
  /\ apiQ' = Append(apiQ, OpenMsg)

\* The hub's callback: it registers the measurements when they are not, and otherwise
\* takes the registration back, whatever it was called with.
UpdateNHz(needed) ==
  CASE needed /\ "nhz" \notin evtMask["gnss"] -> Enable("nhz")
    [] "nhz" \in evtMask["gnss"] -> Disable("nhz")
    [] OTHER -> UNCHANGED <<evtMask, apiQ>>

\* MsgTask: the next message of the adapters' task.
HandleMessage ==
  /\ taskQ # <<>>
  /\ taskQ' = Tail(taskQ)
  /\ LET msg == Head(taskQ)
     IN \/ /\ msg.op = "client" /\ AddClient(msg.adapter, msg.client, msg.given)
           /\ UNCHANGED <<agps, odcpi, upSince>>
        \/ /\ msg.op = "up" /\ EngineUp(msg.adapter, msg.since)
           /\ UNCHANGED <<callbacks, agps, odcpi, sysInfo, infoSeen>>
        \/ /\ msg.op = "info" /\ SystemInfo(msg.report)
           /\ UNCHANGED <<callbacks, evtMask, nmeaMask, agps, odcpi, apiQ, upSince>>
        \/ /\ msg.op = "agps" /\ agps' = TRUE /\ Enable("server")
           /\ UNCHANGED <<callbacks, nmeaMask, odcpi, sysInfo, infoSeen, upSince>>
        \/ /\ msg.op = "odcpi" /\ odcpi' = TRUE /\ Enable("wifi")
           /\ UNCHANGED <<callbacks, nmeaMask, agps, sysInfo, infoSeen, upSince>>
        \/ /\ msg.op = "nhz" /\ UpdateNHz(msg.needed)
           /\ UNCHANGED <<callbacks, nmeaMask, agps, odcpi, sysInfo, infoSeen, upSince>>
  /\ UNCHANGED <<adapters, modem, restarts, nhzWish, infoSent>>

-----------------------------------------------------------------------------
(***************************************************************************)
(* Messages of the LocApi task.  The modem is not reached while it is      *)
(* down; the open of a restart waits for it.                               *)
(***************************************************************************)
UpMsgs(as) ==
  LET one(a) == IF a \in as
                THEN <<[op |-> "up", adapter |-> a, since |-> restarts]>> ELSE <<>>
  IN one("gnss") \o one("geofence") \o one("batching")

\* LocOpenMsg: the modem is opened with the masks of this moment.  The adapter that was
\* added is told that the engine is up, if the modem took the call.
Open(msg) ==
  /\ modem' = IF modem.up THEN [modem EXCEPT !.mask = Union] ELSE modem
  /\ taskQ' = IF modem.up THEN taskQ \o UpMsgs({msg.adapter}) ELSE taskQ

Reopen_Untold ==
  /\ modem.up
  /\ modem' = [modem EXCEPT !.mask = Union]
  /\ UNCHANGED taskQ

\* LocSsrMsg: the modem is closed and opened, and every adapter is told.
Reopen ==
  /\ modem.up
  /\ modem' = [modem EXCEPT !.mask = Union]
  /\ taskQ' = taskQ \o UpMsgs(adapters)

\* setNMEATypesSync.
SetTypes(types) ==
  /\ modem' = IF modem.up THEN [modem EXCEPT !.types = types] ELSE modem
  /\ UNCHANGED taskQ

HandleApi ==
  /\ apiQ # <<>>
  /\ apiQ' = Tail(apiQ)
  /\ LET msg == Head(apiQ)
     IN \/ msg.op = "open" /\ Open(msg)
        \/ msg.op = "ssr" /\ Reopen
        \/ msg.op = "types" /\ SetTypes(msg.types)
  /\ UNCHANGED <<adapterVars, restarts, upSince, nhzWish, infoSent, infoSeen>>

-----------------------------------------------------------------------------
(***************************************************************************)
(* What the adapters' users, the hub and the modem do.                     *)
(***************************************************************************)
MayAct == Len(taskQ) + Len(apiQ) < MaxUnderway

ToTask(msg) == /\ MayAct /\ taskQ' = Append(taskQ, msg) /\ UNCHANGED apiQ

\* The constructor of an adapter: LocApiBase::addAdapter.
AddAdapter(a) ==
  /\ MayAct /\ a \notin adapters
  /\ adapters' = adapters \cup {a}
  /\ apiQ' = Append(apiQ, [op |-> "open", adapter |-> a])
  /\ UNCHANGED <<callbacks, evtMask, nmeaMask, agps, odcpi, sysInfo, taskQ, worldVars>>

\* A client gives callbacks to an adapter, others than before, or takes them back.
GiveCallbacks(a, c, given) ==
  /\ a \in adapters /\ given # callbacks[a][c]
  /\ ToTask([op |-> "client", adapter |-> a, client |-> c, given |-> given])
  /\ UNCHANGED <<adapterVars, worldVars>>

\* initAgpsCommand, initOdcpiCommand: once, when the framework opens the interface.
GiveHandler(which) ==
  /\ "gnss" \in adapters
  /\ IF which = "agps" THEN ~agps ELSE ~odcpi
  /\ ToTask([op |-> which])
  /\ UNCHANGED <<adapterVars, worldVars>>

\* The hub changes its mind about the measurements, on the task that it was given.
HubWishes(needed) ==
  /\ HubLoaded /\ "info" \in evtMask["gnss"]
  /\ needed # nhzWish \/ HubRepeats
  /\ ToTask([op |-> "nhz", needed |-> needed])
  /\ nhzWish' = needed
  /\ UNCHANGED <<adapterVars, modem, restarts, upSince, infoSent, infoSeen>>

\* The modem reports pieces of the system information, if it was opened for it.
ReportInfo(pieces) ==
  /\ modem.up /\ "info" \in modem.mask
  /\ \A p \in pieces : infoSent[p] < MaxInfo
  /\ infoSent' = [p \in Pieces |-> infoSent[p] + (IF p \in pieces THEN 1 ELSE 0)]
  /\ ToTask([op |-> "info",
             report |-> [p \in Pieces |-> IF p \in pieces THEN infoSent'[p] ELSE 0]])
  /\ UNCHANGED <<adapterVars, modem, restarts, upSince, nhzWish, infoSeen>>

\* The modem dies: handleEngineDownEvent.
Die ==
  /\ MayAct /\ modem.up /\ adapters # {} /\ restarts < MaxRestarts
  /\ modem' = Down /\ restarts' = restarts + 1
  /\ apiQ' = Append(apiQ, [op |-> "ssr"])
  /\ UNCHANGED <<adapterVars, taskQ, upSince, nhzWish, infoSent, infoSeen>>

Return ==
  /\ ~modem.up
  /\ modem' = [modem EXCEPT !.up = TRUE]
  /\ UNCHANGED <<adapterVars, queueVars, restarts, upSince, nhzWish, infoSent, infoSeen>>

MaskNext ==
  \/ HandleMessage \/ HandleApi \/ Die \/ Return
  \/ \E a \in Adapters : AddAdapter(a)
  \/ \E a \in Adapters, c \in Clients : \E given \in Offers[a] \cup {{}} :
       GiveCallbacks(a, c, given)
  \/ \E which \in {"agps", "odcpi"} : GiveHandler(which)
  \/ \E needed \in BOOLEAN : HubWishes(needed)
  \/ \E pieces \in (SUBSET Pieces) \ {{}} : ReportInfo(pieces)

MaskSpec == MaskInit /\ [][MaskNext]_maskVars

-----------------------------------------------------------------------------
(***************************************************************************)
(* Properties.                                                             *)
(***************************************************************************)
Events == {"info", "position", "satellites", "nmea", "nhz", "server", "wifi", "breach",
           "dwell", "alert", "batchStatus"} \cup HubBits
NmeaTypes == {"general", "debug"}

\* The variables hold what their declarations say.
MaskTypeOK ==
  /\ adapters \subseteq Adapters
  /\ \A a \in Adapters, c \in Clients : callbacks[a][c] \in Offers[a] \cup {{}}
  /\ evtMask \in [Adapters -> SUBSET Events] /\ nmeaMask \subseteq NmeaTypes
  /\ agps \in BOOLEAN /\ odcpi \in BOOLEAN
  /\ sysInfo \in [Pieces -> 0 .. MaxInfo]
  /\ modem \in [up : BOOLEAN, mask : SUBSET Events, types : SUBSET NmeaTypes]
  /\ restarts \in 0 .. MaxRestarts /\ nhzWish \in BOOLEAN

Settled == taskQ = <<>> /\ apiQ = <<>> /\ modem.up

\* What those who use the adapters want reported, the housekeeping events aside.
Wanted ==
  (IF \E cb \in {"tracking", "data"} : Has("gnss", callbacks, cb) THEN {"position"} ELSE {})
  \cup (IF Has("gnss", callbacks, "sv") THEN {"satellites"} ELSE {})
  \cup (IF Has("gnss", callbacks, "data") \/ (ConfTypes # {} /\ Has("gnss", callbacks, "nmea"))
        THEN {"nmea"} ELSE {})
  \cup (IF Has("gnss", callbacks, "measurement") THEN {"measurement"} ELSE {})
  \cup (IF agps THEN {"server"} ELSE {}) \cup (IF odcpi THEN {"wifi"} ELSE {})
  \cup (IF nhzWish THEN {"nhz"} ELSE {})
  \cup GeofenceMask(callbacks) \cup BatchingMask(callbacks)

\* Once the messages are handled, the modem reports what the clients, the AGPS and ODCPI
\* handlers and the hub want, and nothing else: whatever the order in which they came, the
\* engine came up and the modem restarted.
MaskFollows ==
  Settled =>
    /\ modem.mask \ (HubBits \cup {"info"}) = Wanted \ (Excluded \cup HubBits)
    /\ (Wanted \cap HubBits) \ Excluded \subseteq modem.mask
    /\ (\E c \in Clients : callbacks["gnss"][c] # {})
         => "info" \in modem.mask \cup Excluded

\* Once the messages are handled, the modem has the NMEA types of the configuration, and
\* those that a client of the raw data needs.
TypesFollow ==
  Settled /\ "gnss" \in adapters =>
    modem.types = ConfTypes \cup (IF Has("gnss", callbacks, "data") THEN {"debug"} ELSE {})

\* Once the messages are handled, every adapter knows of the last restart: the adapters
\* start again what they had started, so none may be missed.
RestartsReach == Settled => \A a \in adapters : upSince[a] = restarts

\* A client that has the callback has seen the last report of every piece of the system
\* information that the adapter has handled, also of those made before it came.
InfoReaches ==
  \A c \in Clients : "system" \in callbacks["gnss"][c] =>
    \A p \in Pieces : infoSeen[c][p] = sysInfo[p]

\* The modem does what those who use the adapters want.
ModemObeys == MaskFollows /\ TypesFollow

\* The adapters hear of the modem's restarts, and clients of its information.
EveryoneTold == RestartsReach /\ InfoReaches

=============================================================================
