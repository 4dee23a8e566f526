------------------------------ MODULE GnssClient ------------------------------
(***************************************************************************)
(* The framework's GNSS session: the service Gnss, its GnssAPIClient, and  *)
(* the tracking queue and control client of LocationAPIClientBase.         *)
(*                                                                         *)
(* The framework calls on the one thread of the service; when it dies the  *)
(* service cleans up on the same thread, and a new framework registers a   *)
(* callback of its own, of any of three versions.  Answers, fixes and      *)
(* capabilities come on the adapter's thread, between any two steps.       *)
(***************************************************************************)
EXTENDS Naturals, Sequences

CONSTANTS
  TrackIds,       \* session ids of the adapter; those in use nowhere are fresh
  NoId,
  Modes,          \* options of a session
  Items,          \* of GnssConfig, each set by a call of its own
  ItemValues,
  Unset, NoHost,
  BeforeCallback, \* items that may be set before there is a callback
  MayRefuseStart, \* the modem may refuse a session
  MaxCallbacks,   \* bound: callbacks that are registered
  MaxCapabilities,\* bound: times the adapter tells the capabilities
  MaxTracked      \* bound: messages under way when the framework calls

Versions == {"v1", "v2_0", "v2_1"}
NoCallbacks == [v \in Versions |-> 0]

VARIABLES
  callback,     \* the callback that the service has, and its version
  iface,        \* GnssAPIClient: the callback of each version, 0 if null
  step,         \* where setCallback is on the service's thread
  mTracking,    \* GnssAPIClient
  baseTracking, \* LocationAPIClientBase: mTracking
  options,      \* mTrackingOptions
  session,      \* mRequestQueues[REQUEST_TRACKING]: its session
  requests,     \* and its requests
  capsCached,   \* mLocationCapabilitiesMask, 0 until mLocationCapabilitiesCached
  capsHeld,     \* what requestCapabilities read
  api,          \* mApi is there
  pendingConf,  \* mPendingConfig
  lastConf,     \* LocationAPIControlClient: mConfig, an item and its value
  messages,     \* the adapter's queue
  carried,      \* what a callback on the adapter's thread is about to give
  sessions,     \* the adapter: the options of this client's sessions
  adapterConf,  \* the adapter: the items it was given
  capsTold,     \* times the adapter has told the capabilities
  \* what the framework knows and wants
  knows,        \* capabilities of each callback
  status,       \* the last status of each callback
  wants,        \* to track
  stuck,        \* the modem has refused the session that it wants
  lateFixes,    \* fixes since it stopped
  setConf       \* the items as it set them last

clientState == <<callback, iface, step, mTracking, baseTracking, options, session, requests,
                 api, pendingConf, lastConf>>
capsState == <<capsCached, capsHeld>>
adapterState == <<sessions, adapterConf, capsTold>>
frameworkState == <<knows, status, wants, stuck, lateFixes, setConf>>
gnssVars == <<clientState, capsState, messages, carried, adapterState, frameworkState>>

Carry(k, to, c, ok) == [k |-> k, to |-> to, c |-> c, ok |-> ok]
Nothing == Carry("nothing", 0, 0, FALSE)
Message(k, s, m) == [k |-> k, s |-> s, m |-> m]
Configured == [Items -> ItemValues \cup {Unset, NoHost}]
NoConf == [i \in Items |-> Unset]

GnssClientTypeOK ==
  /\ callback \in [n : 0 .. MaxCallbacks, v : Versions]
  /\ iface \in [Versions -> 0 .. MaxCallbacks]
  /\ step \in {"idle", "set", "ask", "answer"}
  /\ {mTracking, baseTracking, api, wants, stuck} \subseteq BOOLEAN
  /\ options \in Modes /\ session \in TrackIds \cup {NoId}
  /\ requests \in Seq({"start", "stop", "update"})
  /\ {capsCached, capsHeld, capsTold} \subseteq 0 .. MaxCapabilities
  /\ {pendingConf, lastConf, adapterConf, setConf} \subseteq Configured
  /\ sessions \in [TrackIds -> Modes \cup {Unset}]
  /\ knows \in [0 .. MaxCallbacks -> 0 .. MaxCapabilities]
  /\ status \in [0 .. MaxCallbacks -> {"none", "begin", "end"}]
  /\ lateFixes \in Nat

\* options are those of initLocationOptions.
GnssClientInit ==
  /\ callback = [n |-> 0, v |-> "v1"] /\ iface = NoCallbacks /\ step = "idle"
  /\ mTracking = FALSE /\ baseTracking = FALSE /\ options \in Modes
  /\ session = NoId /\ requests = <<>> /\ api = FALSE
  /\ pendingConf = NoConf /\ lastConf = NoConf
  /\ capsCached = 0 /\ capsHeld = 0 /\ messages = <<>> /\ carried = Nothing
  /\ sessions = [s \in TrackIds |-> Unset] /\ adapterConf = NoConf /\ capsTold = 0
  /\ knows = [n \in 0 .. MaxCallbacks |-> 0]
  /\ status = [n \in 0 .. MaxCallbacks |-> "none"]
  /\ wants = FALSE /\ stuck = FALSE /\ lateFixes = 0 /\ setConf = NoConf

-----------------------------------------------------------------------------
(***************************************************************************)
(* What both threads use.                                                  *)
(***************************************************************************)
\* The callback that is called: the newest version comes first.
Target ==
  IF iface["v2_1"] # 0 THEN iface["v2_1"]
  ELSE IF iface["v2_0"] # 0 THEN iface["v2_0"] ELSE iface["v1"]

Running == {s \in TrackIds : sessions[s] # Unset}
Send(m) == messages' = Append(messages, m)
Quiet == messages = <<>> /\ carried = Nothing
Calm == step = "idle" /\ Len(messages) <= MaxTracked /\ Len(requests) <= MaxTracked

-----------------------------------------------------------------------------
(***************************************************************************)
(* Calls of the framework.                                                 *)
(***************************************************************************)
\* setCallback, setCallback_1_1, _2_0 and _2_1.  First the callbacks of the other
\* versions are dropped ...
SetCallback(v) ==
  /\ Calm /\ ~wants /\ callback.n < MaxCallbacks
  /\ callback' = [n |-> callback.n + 1, v |-> v]
  /\ iface' = IF api THEN [NoCallbacks EXCEPT ![v] = iface[v]] ELSE NoCallbacks
  /\ step' = "set"
  /\ UNCHANGED <<mTracking, baseTracking, options, session, requests, api, pendingConf, lastConf,
                 capsState, messages, carried, adapterState, frameworkState>>

\* ... then getApi may make the client, and hand it the configuration that was
\* held; the client gets the callback ...
SetsCallback ==
  /\ step = "set" /\ step' = "ask"
  /\ api' = TRUE /\ iface' = [iface EXCEPT ![callback.v] = callback.n]
  /\ \/ /\ pendingConf # NoConf
        /\ Send(Message("config", NoId, pendingConf))
        /\ lastConf' = pendingConf /\ pendingConf' = NoConf
     \/ pendingConf = NoConf /\ UNCHANGED <<messages, lastConf, pendingConf>>
  /\ UNCHANGED <<callback, mTracking, baseTracking, options, session, requests, capsState,
                 carried, adapterState, frameworkState>>

\* ... and requestCapabilities tells it what was told before, if anything was.
AskCapabilities ==
  /\ step = "ask"
  /\ \/ capsCached = 0 /\ step' = "idle" /\ UNCHANGED capsHeld
     \/ capsCached # 0 /\ step' = "answer" /\ capsHeld' = capsCached
  /\ UNCHANGED <<callback, iface, mTracking, baseTracking, options, session, requests, api,
                 pendingConf, lastConf, capsCached, messages, carried, adapterState,
                 frameworkState>>

AnswerCapabilities ==
  /\ step = "answer" /\ step' = "idle"
  /\ capsCached' = capsHeld
  /\ knows' = [knows EXCEPT ![Target] = capsHeld]
  /\ UNCHANGED <<callback, iface, mTracking, baseTracking, options, session, requests, api,
                 pendingConf, lastConf, capsHeld, messages, carried, adapterState,
                 status, wants, stuck, lateFixes, setConf>>

Fresh ==
  {s \in TrackIds \ (Running \cup {session}) :
     \A i \in DOMAIN messages : messages[i].s # s}

\* gnssStart.  A session that the client believes to be there is not started again.
Start ==
  /\ Calm /\ api
  /\ mTracking' = TRUE /\ wants' = TRUE /\ lateFixes' = 0
  /\ \/ /\ ~baseTracking /\ baseTracking' = TRUE
        /\ \E s \in Fresh : session' = s /\ Send(Message("start", s, options))
        /\ requests' = <<"start">>
     \/ baseTracking /\ UNCHANGED <<baseTracking, session, requests, messages>>
  /\ UNCHANGED <<callback, iface, step, options, api, pendingConf, lastConf, capsState, carried,
                 adapterState, knows, status, stuck, setConf>>

\* A request to the session that was started last, even if it was stopped since.
Request(k, m) ==
  IF session = NoId THEN UNCHANGED <<requests, messages>>
  ELSE requests' = Append(requests, k) /\ Send(Message(k, session, m))

\* gnssStop, of the framework or of cleanup when the framework died.
Stop ==
  /\ Calm /\ api
  /\ mTracking' = FALSE /\ wants' = FALSE /\ stuck' = FALSE
  /\ baseTracking' = (baseTracking /\ session = NoId)
  /\ Request("stop", Unset)
  /\ UNCHANGED <<callback, iface, step, options, session, api, pendingConf, lastConf, capsState,
                 carried, adapterState, knows, status, lateFixes, setConf>>

\* gnssSetPositionMode.
SetPositionMode(m) ==
  /\ Calm /\ api
  /\ options' = m /\ Request("update", m)
  /\ UNCHANGED <<callback, iface, step, mTracking, baseTracking, session, api, pendingConf,
                 lastConf, capsState, carried, adapterState, frameworkState>>

\* mPendingConfig keeps a host name only if it has one already.
Pending(i, v) == [pendingConf EXCEPT ![i] = IF i = "server" THEN NoHost ELSE v]

\* updateConfiguration.  What is the same as the last call's is not sent again.
UpdateConfiguration(i, v) ==
  LET conf == [NoConf EXCEPT ![i] = v]
  IN /\ Calm /\ setConf' = [setConf EXCEPT ![i] = v]
     /\ \/ /\ api /\ conf # lastConf /\ lastConf' = conf
           /\ Send(Message("config", NoId, conf)) /\ UNCHANGED pendingConf
        \/ api /\ conf = lastConf /\ UNCHANGED <<lastConf, messages, pendingConf>>
        \/ /\ ~api /\ i \in BeforeCallback
           /\ pendingConf' = Pending(i, v) /\ UNCHANGED <<lastConf, messages>>
     /\ UNCHANGED <<callback, iface, step, mTracking, baseTracking, options, session, requests,
                    api, capsState, carried, adapterState, knows, status, wants, stuck,
                    lateFixes>>

-----------------------------------------------------------------------------
(***************************************************************************)
(* The adapter's thread.                                                   *)
(***************************************************************************)
\* getRequestBySession: an answer takes the oldest request, if it is for the session
\* of the queue.
Respond(s, ok) ==
  IF s = session /\ requests # <<>>
  THEN /\ carried' = Carry(Head(requests), 0, 0, ok)
       /\ requests' = Tail(requests)
  ELSE UNCHANGED <<carried, requests>>

HandleStart(m) ==
  /\ m.k = "start"
  /\ \E ok \in {TRUE, ~MayRefuseStart} :
       /\ sessions' = IF ok THEN [sessions EXCEPT ![m.s] = m.m] ELSE sessions
       /\ stuck' = (stuck \/ (~ok /\ wants /\ m.s = session))
       /\ Respond(m.s, ok)
  /\ UNCHANGED adapterConf

HandleStop(m) ==
  /\ m.k = "stop"
  /\ sessions' = [sessions EXCEPT ![m.s] = Unset]
  /\ Respond(m.s, m.s \in Running)
  /\ UNCHANGED <<stuck, adapterConf>>

HandleUpdate(m) ==
  /\ m.k = "update"
  /\ sessions' = IF m.s \in Running THEN [sessions EXCEPT ![m.s] = m.m] ELSE sessions
  /\ Respond(m.s, m.s \in Running)
  /\ UNCHANGED <<stuck, adapterConf>>

HandleConfig(m) ==
  /\ m.k = "config"
  /\ adapterConf' = [i \in Items |-> IF m.m[i] = Unset THEN adapterConf[i] ELSE m.m[i]]
  /\ UNCHANGED <<sessions, stuck, carried, requests>>

AdapterRuns ==
  /\ carried = Nothing /\ messages # <<>> /\ messages' = Tail(messages)
  /\ LET m == Head(messages)
     IN HandleStart(m) \/ HandleStop(m) \/ HandleUpdate(m) \/ HandleConfig(m)
  /\ UNCHANGED <<callback, iface, step, mTracking, baseTracking, options, session, api,
                 pendingConf, lastConf, capsState, capsTold, knows, status, wants, lateFixes,
                 setConf>>

\* Slip: what is reported is cached once it was given.
KeepCapabilities_Late(c) == UNCHANGED capsCached
KeepCapabilities(c) == capsCached' = c

\* onCapabilitiesCb: what the modem can do may be told more than once.
TellCapabilities ==
  /\ carried = Nothing /\ api /\ capsTold < MaxCapabilities
  /\ capsTold' = capsTold + 1
  /\ KeepCapabilities(capsTold')
  /\ carried' = Carry("capabilities", 0, capsTold', FALSE)
  /\ UNCHANGED <<clientState, capsHeld, messages, sessions, adapterConf, frameworkState>>

\* onTrackingCb: fixes come for sessions of other clients too.
ReportFix ==
  /\ carried = Nothing /\ api /\ mTracking /\ Target # 0
  /\ carried' = Carry("fix", Target, 0, FALSE)
  /\ UNCHANGED <<clientState, capsState, messages, adapterState, frameworkState>>

\* What is carried reaches the framework; all but fixes go to the callback of now.
Give ==
  /\ carried # Nothing /\ carried' = Nothing
  /\ knows' = IF carried.k = "capabilities" THEN [knows EXCEPT ![Target] = carried.c] ELSE knows
  /\ status' = IF carried.ok /\ carried.k = "start" THEN [status EXCEPT ![Target] = "begin"]
               ELSE IF carried.ok /\ carried.k = "stop" THEN [status EXCEPT ![Target] = "end"]
               ELSE status
  /\ lateFixes' = IF carried.k = "fix" /\ ~wants THEN lateFixes + 1 ELSE lateFixes
  /\ UNCHANGED <<clientState, capsState, messages, adapterState, wants, stuck, setConf>>

GnssClientNext ==
  \/ \E v \in Versions : SetCallback(v)
  \/ SetsCallback \/ AskCapabilities \/ AnswerCapabilities
  \/ Start \/ Stop \/ \E m \in Modes : SetPositionMode(m)
  \/ \E i \in Items, v \in ItemValues : UpdateConfiguration(i, v)
  \/ AdapterRuns \/ TellCapabilities \/ ReportFix \/ Give

GnssClientSpec == GnssClientInit /\ [][GnssClientNext]_gnssVars

-----------------------------------------------------------------------------
(***************************************************************************)
(* Properties.                                                             *)
(***************************************************************************)
Settled == step = "idle" /\ messages = <<>> /\ carried = Nothing

\* A framework that has registered a callback is the one that is called, and it
\* knows what the device can do, although that may have been told before or while
\* it registered.
FrameworkKnows ==
  /\ step = "idle" /\ api => iface = [NoCallbacks EXCEPT ![callback.v] = callback.n]
  /\ Settled /\ api => knows[callback.n] = capsTold

\* Once nothing is under way the adapter runs the session that the framework wants,
\* as it last set it, or none; and the framework knows that it began.  A session that
\* the modem has refused is lost until the framework stops.
SessionFollows ==
  Settled /\ ~stuck =>
    /\ Running = IF wants THEN {session} ELSE {}
    /\ wants => sessions[session] = options
    /\ wants => status[callback.n] = "begin"

\* At most one fix, that was on its way, comes after the framework stopped.
FewLateFixes == lateFixes <= 1

\* The adapter has the configuration that the framework set last, even what was
\* set before there was a callback.
ConfigurationHeld == Settled /\ api => adapterConf = setConf
=============================================================================
