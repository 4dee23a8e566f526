------------------------------ MODULE LocationApi ------------------------------
(***************************************************************************)
(* Clients of the location API (gps/location/LocationAPI.cpp).             *)
(*                                                                         *)
(* A LocationAPI object is known to the library and to an adapter for each *)
(* kind of callback it brings.  Adapters live in libraries that are loaded *)
(* when first needed, and hear of clients by messages.  An object that is  *)
(* destroyed with a callback is freed by the adapter that is the last to   *)
(* forget it; its address may then be used by the next object.             *)
(*                                                                         *)
(* An adapter forgets an object without waiting for what still holds its   *)
(* address: calls of LocApi, whose answers come back as messages, and      *)
(* requests that it keeps until the engine is up.                          *)
(*                                                                         *)
(* Calls of clients hold one lock and are steps; adapters run beside them. *)
(***************************************************************************)
EXTENDS Naturals, Sequences, FiniteSets, SequencesExt

CONSTANTS
  Apis,       \* addresses of LocationAPI objects
  Kinds,      \* the kinds of adapters there are, of "gnss", "batching", "geofence"
  Missing,    \* kinds of adapters whose library cannot be loaded
  Starters,   \* bound: the objects that start sessions
  SessionIds, \* session ids; those in use nowhere are fresh
  MaxQueue    \* bound: what is under way when a client calls

ASSUME ApiAssumption == IsFiniteSet(Apis) /\ IsFiniteSet(SessionIds) /\ SessionIds \subseteq Nat

Order == <<"gnss", "batching", "geofence">>

VARIABLES
  object,       \* each address: "free", "live", or "leaving"
  clientData,   \* objects known to the library
  destroyData,  \* the adapters that must still forget an object
  loaded,       \* interfaces that are there
  refCount,     \* gOSFrameworkRefCount
  osFramework,  \* the instance behind it
  queue,        \* messages to each adapter
  kept,         \* mPendingMsgs: those that wait for the engine
  locCalls,     \* calls of LocApi that each adapter made and that were not answered
  adapter,      \* what each adapter knows
  asked,        \* live objects for which the capabilities were asked
  capable,      \* live objects that were told them
  strays,       \* objects that an adapter called when they were not there
  unstopped,    \* sessions of each adapter that LocApi refused to stop
  owed,         \* objects destroyed with a callback that was not called
  crashed       \* an empty callback was called

libraryVars == <<clientData, loaded, refCount, osFramework, asked, owed>>
objectVars == <<object, destroyData, crashed>>
adapterData == <<kept, locCalls, adapter, capable, strays, unstopped>>
apiVars == <<libraryVars, objectVars, adapterData, queue>>

ApiSessions == [c : Apis, id : SessionIds]

Msg(k, c) == [k |-> k, c |-> c]
\* A session that is near starts at once, one that is far may have to wait.
StartMsg(far, s) == [k |-> "start", far |-> far, s |-> s]
LocCall(op, s) == [op |-> op, s |-> s]
AnswerMsg(call, ok) == [k |-> "answer", op |-> call.op, s |-> call.s, ok |-> ok]
UpMsg == [k |-> "up"]

LocCalls == [op : {"start", "stop", "drop"}, s : ApiSessions]
Msgs == [k : {"add", "caps", "remove"}, c : Apis]
          \cup [k : {"start"}, far : BOOLEAN, s : ApiSessions]
          \cup [k : {"answer"}, op : {"start", "stop", "drop"}, s : ApiSessions, ok : BOOLEAN]
          \cup {UpMsg}

\* mClientData, the sessions of the two tables, and mIsEngineCapabilitiesKnown.
AdapterStates == [clients : SUBSET Apis, near : SUBSET ApiSessions, far : SUBSET ApiSessions,
              known : BOOLEAN]

ApiTypeOK ==
  /\ object \in [Apis -> {"free", "live", "leaving"}]
  /\ clientData \subseteq Apis /\ destroyData \in [Apis -> SUBSET Kinds]
  /\ loaded \subseteq Kinds
  /\ refCount \in Nat /\ {osFramework, crashed} \subseteq BOOLEAN
  /\ {queue, kept} \subseteq [Kinds -> Seq(Msgs)] /\ locCalls \in [Kinds -> Seq(LocCalls)]
  /\ adapter \in [Kinds -> AdapterStates] /\ unstopped \in [Kinds -> SUBSET ApiSessions]
  /\ asked \subseteq Apis /\ capable \subseteq Apis /\ owed \subseteq Apis /\ strays \subseteq Apis

ApiInit ==
  /\ object = [c \in Apis |-> "free"] /\ clientData = {}
  /\ destroyData = [c \in Apis |-> {}]
  /\ loaded = {} /\ refCount = 0 /\ osFramework = FALSE
  /\ queue = [k \in Kinds |-> <<>>] /\ kept = queue /\ locCalls = queue
  /\ adapter = [k \in Kinds |-> [clients |-> {}, near |-> {}, far |-> {}, known |-> FALSE]]
  /\ unstopped = [k \in Kinds |-> {}]
  /\ asked = {} /\ capable = {} /\ owed = {} /\ strays = {} /\ crashed = FALSE

-----------------------------------------------------------------------------
(***************************************************************************)
(* Calls of clients.                                                       *)
(***************************************************************************)
\* The interfaces that callbacks of these kinds need; each is tried once, in vain or not.
LoadInterfaces(kinds) ==
  loaded' = loaded \cup (kinds \ Missing)

\* Slip: capabilities are asked for before the adapter knows the client.
Registration_CapsFirst(c, k, asks) == IF asks THEN <<Msg("caps", c), Msg("add", c)>> ELSE <<Msg("add", c)>>

Registration(c, k, asks) == IF asks THEN <<Msg("add", c), Msg("caps", c)>> ELSE <<Msg("add", c)>>

\* The first adapter of the object is asked for the capabilities.
First(kinds, k) ==
  \A i, j \in DOMAIN Order : Order[i] = k /\ Order[j] \in kinds => i <= j

Register(c, kinds, asks) ==
  queue' = [k \in Kinds |->
              IF k \notin kinds THEN queue[k]
              ELSE queue[k] \o Registration(c, k, asks /\ First(kinds, k))]

Room ==
  MapThenSumSet(LAMBDA k : Len(queue[k]) + Len(kept[k]) + Len(locCalls[k]), Kinds) < MaxQueue

CreateInstance(c, kinds) ==
  /\ ~crashed /\ object[c] = "free" /\ Room
  /\ refCount' = refCount + 1
  /\ osFramework' = (osFramework \/ refCount' = 1)
  /\ LoadInterfaces(kinds)
  /\ Register(c, kinds \cap loaded', TRUE)
  /\ clientData' = clientData \cup {c}
  /\ object' = [object EXCEPT ![c] = "live"]
  /\ asked' = IF kinds \cap loaded' # {} THEN asked \cup {c} ELSE asked \ {c}
  /\ capable' = capable \ {c} /\ owed' = owed \ {c}
  /\ UNCHANGED <<destroyData, adapter, kept, locCalls, strays, unstopped, crashed>>

UpdateCallbacks(c, kinds) ==
  /\ ~crashed /\ object[c] = "live" /\ Room
  /\ LoadInterfaces(kinds)
  /\ Register(c, kinds \cap loaded', FALSE)
  /\ clientData' = clientData \cup {c}
  /\ UNCHANGED <<objectVars, adapterData, refCount, osFramework, asked, owed>>

\* Ids are never used again: one that nothing is about any more may stand for a new one.
UsedIds(k) ==
  {s.id : s \in adapter[k].near \cup adapter[k].far
               \cup {locCalls[k][i].s : i \in DOMAIN locCalls[k]}
               \cup {m.s : m \in {x \in ToSet(queue[k] \o kept[k]) : x.k \in {"start", "answer"}}}}
FreshId(k, id) ==
  id \notin UsedIds(k) /\ \A j \in SessionIds \ UsedIds(k) : id <= j

\* startTracking, startBatching, addGeofences: only the first looks at the client.
StartSession(c, k, far, id) ==
  /\ ~crashed /\ object[c] = "live" /\ c \in Starters /\ Room /\ FreshId(k, id)
  /\ k \in loaded /\ (k = "gnss" => c \in clientData) /\ (far => k = "gnss")
  /\ queue' = [queue EXCEPT ![k] = Append(@, StartMsg(far, [c |-> c, id |-> id]))]
  /\ UNCHANGED <<libraryVars, objectVars, adapterData>>

\* Slip: the count is compared as if it were decremented already.
ReleaseFramework_AtZero ==
  /\ refCount' = refCount - 1
  /\ osFramework' = (osFramework /\ refCount # 0)

ReleaseFramework ==
  /\ refCount' = refCount - 1
  /\ osFramework' = (osFramework /\ refCount # 1)

\* The callback is called if it is empty, and not if it is there.
InvokeIfEmpty(withCallback) == crashed' = (crashed \/ ~withCallback)

\* Slip: every kind of adapter is waited for.
WaitAdapterMask_AllKinds(withCallback) == IF withCallback THEN Kinds ELSE {}

WaitAdapterMask(withCallback) == IF withCallback THEN loaded ELSE {}

\* Every adapter that is loaded must forget the object, whether or not it knew it.
Destroy(c, withCallback) ==
  /\ ~crashed /\ object[c] = "live" /\ Room
  /\ destroyData' = [destroyData EXCEPT ![c] = WaitAdapterMask(withCallback)]
  /\ queue' = [k \in Kinds |-> IF k \in loaded THEN Append(queue[k], Msg("remove", c)) ELSE queue[k]]
  /\ clientData' = clientData \ {c}
  /\ ReleaseFramework
  /\ owed' = IF withCallback THEN owed \cup {c} ELSE owed
  /\ \/ /\ loaded # {}
        /\ object' = [object EXCEPT ![c] = "leaving"] /\ UNCHANGED crashed
     \/ /\ loaded = {}
        /\ object' = [object EXCEPT ![c] = "free"] /\ InvokeIfEmpty(withCallback)
  /\ asked' = asked \ {c} /\ capable' = capable \ {c}
  /\ UNCHANGED <<loaded, kept, locCalls, adapter, strays, unstopped>>

-----------------------------------------------------------------------------
(***************************************************************************)
(* The thread of an adapter.                                               *)
(***************************************************************************)
\* Slip: the first adapter that forgets the object frees it.
OnRemoveClientComplete_First(c, k) ==
  /\ destroyData' = [destroyData EXCEPT ![c] = {}]
  /\ object' = IF k \in destroyData[c] THEN [object EXCEPT ![c] = "free"] ELSE object
  /\ UNCHANGED crashed

\* An object destroyed without a callback is not in the map, and never freed.
OnRemoveClientComplete(c, k) ==
  /\ destroyData' = [destroyData EXCEPT ![c] = @ \ {k}]
  /\ \/ /\ destroyData[c] = {k}
        /\ object' = [object EXCEPT ![c] = "free"] /\ InvokeIfEmpty(TRUE)
     \/ destroyData[c] # {k} /\ UNCHANGED <<object, crashed>>

Received(k, kind) == queue[k] # <<>> /\ Head(queue[k]).k = kind

\* A callback is called, whether or not its object is there; most are looked up first, in
\* mClientData.
Called(cs) == strays' = strays \cup {c \in cs : object[c] = "free"}
Tell(k, cs) == Called(cs \cap adapter[k].clients)
TellNobody == UNCHANGED strays

\* capabilitiesCb
Learn(cs) == Called(cs) /\ capable' = capable \cup {c \in cs : object[c] = "live"}

NoCalls == UNCHANGED locCalls
MakeCalls(k, cs) == locCalls' = [locCalls EXCEPT ![k] = @ \o cs]

\* The one of GNSS tells the client what it knows of the system, without looking it up.
HandleAdd(k) ==
  /\ Received(k, "add")
  /\ adapter' = [adapter EXCEPT ![k].clients = @ \cup {Head(queue[k]).c}]
  /\ IF k = "gnss" THEN Called({Head(queue[k]).c}) ELSE TellNobody
  /\ NoCalls /\ UNCHANGED <<objectVars, capable, unstopped>>

\* Until the engine is up an adapter keeps what needs its capabilities.
MustWait(k) ==
  LET m == Head(queue[k])
  IN /\ ~adapter[k].known
     /\ m.k = "caps" \/ (m.k = "start" /\ (m.far \/ k = "batching"))

HandleCapabilities(k) ==
  /\ Received(k, "caps")
  /\ Learn(adapter[k].clients \cap {Head(queue[k]).c})
  /\ NoCalls /\ UNCHANGED <<objectVars, adapter, unstopped>>

\* Into its table; the adapter of geofences has others (GeofenceAdapter).
Saved(k, far, s) ==
  /\ adapter' = [adapter EXCEPT ![k].near = IF far \/ k = "geofence" THEN @ ELSE @ \cup {s},
                                ![k].far = IF far THEN @ \cup {s} ELSE @]
  /\ unstopped' = [unstopped EXCEPT ![k] = @ \ {s}]

\* What the modem does for other sessions (GnssTracking) may serve one that is time based.
HandleStart(k) ==
  LET m == Head(queue[k])
  IN /\ Received(k, "start")
     /\ \/ /\ k # "geofence" /\ m.s.c \notin adapter[k].clients
           /\ TellNobody /\ NoCalls /\ UNCHANGED <<adapter, unstopped>>
        \/ /\ k = "geofence" \/ m.s.c \in adapter[k].clients
           /\ Saved(k, m.far, m.s)
           /\ \/ TellNobody /\ MakeCalls(k, <<LocCall("start", m.s)>>)
              \/ /\ k = "gnss" /\ ~m.far
                 /\ Tell(k, {m.s.c}) /\ NoCalls
     /\ UNCHANGED <<objectVars, capable>>

Erased(k, s) ==
  /\ adapter' = [adapter EXCEPT ![k].near = @ \ {s}, ![k].far = @ \ {s}]
  /\ unstopped' = [unstopped EXCEPT ![k] = @ \ {s}]

\* What the answer does, which finds the session by its id, to the tables.
AnswerOf(k, m) ==
  \/ /\ m.op = "start" /\ ~m.ok /\ k # "geofence"
     /\ Erased(k, m.s)
  \/ /\ m.op = "stop" /\ ~m.ok /\ k = "batching"    \* assumed to be stopped
     /\ adapter' = [adapter EXCEPT ![k].near = @ \cup {m.s}]
     /\ unstopped' = [unstopped EXCEPT ![k] = @ \cup {m.s}]
  \/ /\ m.op = "drop" /\ m.ok
     /\ Erased(k, m.s)
  \/ /\ m.op = "drop" /\ ~m.ok
     /\ unstopped' = [unstopped EXCEPT ![k] = @ \cup {m.s}] /\ UNCHANGED adapter
  \/ /\ \/ m.op = "start" /\ (m.ok \/ k = "geofence")
        \/ m.op = "stop" /\ (m.ok \/ k # "batching")
     /\ UNCHANGED <<adapter, unstopped>>

\* reportResponse, which the answer of a dropped session does without.
HandleSessionAnswer(k) ==
  LET m == Head(queue[k])
  IN /\ Received(k, "answer")
     /\ AnswerOf(k, m)
     /\ IF m.op = "drop" THEN TellNobody ELSE Tell(k, {m.s.c})
     /\ NoCalls /\ UNCHANGED <<objectVars, capable>>

\* The sessions in the order of their keys, each in a call.
Ordered(S) ==
  {ss \in [1 .. Cardinality(S) -> S] :
     ToSet(ss) = S /\ \A i, j \in DOMAIN ss : i < j => ss[i].id < ss[j].id}
EachCalled(op, ss) == [i \in DOMAIN ss |-> LocCall(op, ss[i])]

\* LocApi need not be called for time based sessions that others outlast (GnssTracking).
Outlasted(k, mine) == IF k = "gnss" THEN SUBSET mine ELSE {{}}

\* Nobody waits for the answers of the calls that stop the sessions.
HandleRemove(k) ==
  LET c == Head(queue[k]).c
      mine == {s \in adapter[k].near : s.c = c}
      dropped == {s \in adapter[k].far : s.c = c}
  IN /\ Received(k, "remove")
     /\ \E S \in Outlasted(k, mine) : \E stops \in Ordered(mine \ S), drops \in Ordered(dropped) :
          MakeCalls(k, EachCalled("stop", stops) \o EachCalled("drop", drops))
     /\ adapter' = [adapter EXCEPT ![k].clients = @ \ {c}, ![k].near = @ \ mine]
     /\ OnRemoveClientComplete(c, k)
     /\ TellNobody /\ UNCHANGED <<capable, unstopped>>

\* All clients are told; what had to wait comes behind the messages already there.
HandleEngineUp(k) ==
  /\ Received(k, "up")
  /\ adapter' = [adapter EXCEPT ![k].known = TRUE]
  /\ Learn(adapter[k].clients)
  /\ NoCalls /\ UNCHANGED <<objectVars, unstopped>>

Handle(k) ==
  \/ HandleAdd(k) \/ HandleRemove(k) \/ HandleSessionAnswer(k)
  \/ ~MustWait(k) /\ (HandleCapabilities(k) \/ HandleStart(k))

AdapterRuns(k) ==
  /\ ~crashed /\ queue[k] # <<>>
  /\ \/ /\ Handle(k)
        /\ queue' = [queue EXCEPT ![k] = Tail(@)] /\ UNCHANGED kept
     \/ /\ HandleEngineUp(k)
        /\ queue' = [queue EXCEPT ![k] = Tail(@) \o kept[k]] /\ kept' = [kept EXCEPT ![k] = <<>>]
     \/ /\ MustWait(k)
        /\ queue' = [queue EXCEPT ![k] = Tail(@)]
        /\ kept' = [kept EXCEPT ![k] = Append(@, Head(queue[k]))]
        /\ UNCHANGED <<objectVars, locCalls, adapter, capable, strays, unstopped>>
  /\ UNCHANGED libraryVars

-----------------------------------------------------------------------------
(***************************************************************************)
(* LocApi, which posts answers and the engine's start to the adapters.     *)
(***************************************************************************)
AnswerCall(k) ==
  /\ ~crashed /\ locCalls[k] # <<>>
  /\ locCalls' = [locCalls EXCEPT ![k] = Tail(@)]
  /\ \E ok \in BOOLEAN : queue' = [queue EXCEPT ![k] = Append(@, AnswerMsg(Head(locCalls[k]), ok))]
  /\ UNCHANGED <<libraryVars, objectVars, kept, adapter, capable, strays, unstopped>>

\* Bound: the engine comes up once.  A restart of it tells the clients again.
ReportEngineUp(k) ==
  /\ ~crashed /\ k \in loaded /\ ~adapter[k].known /\ UpMsg \notin ToSet(queue[k])
  /\ queue' = [queue EXCEPT ![k] = Append(@, UpMsg)]
  /\ UNCHANGED <<libraryVars, objectVars, adapterData>>

ApiNext ==
  \/ \E c \in Apis :
       \/ \E kinds \in SUBSET Kinds : CreateInstance(c, kinds) \/ UpdateCallbacks(c, kinds)
       \/ \E k \in Kinds, far \in BOOLEAN, id \in SessionIds : StartSession(c, k, far, id)
       \/ \E withCallback \in BOOLEAN : Destroy(c, withCallback)
  \/ \E k \in Kinds : AdapterRuns(k) \/ AnswerCall(k) \/ ReportEngineUp(k)

ApiSpec == ApiInit /\ [][ApiNext]_apiVars

-----------------------------------------------------------------------------
(***************************************************************************)
(* Properties.                                                             *)
(***************************************************************************)
\* No callback of an object is called that was freed: no adapter knows it, and no
\* message is under way that adds it, or that removes the next object at its address.
\* Answers of LocApi and requests that wait for the engine may be, for long.
NoGhostClient ==
  /\ strays = {}
  /\ \A c \in Apis : object[c] = "free" =>
       \A k \in Kinds :
         /\ c \notin adapter[k].clients
         /\ \A i \in DOMAIN queue[k] : queue[k][i] \notin {Msg("add", c), Msg("remove", c)}

\* A session whose object is forgotten is on its way out of the table, unless LocApi
\* refused to stop it.
SessionsLeave ==
  \A k \in Kinds : \A s \in adapter[k].near \cup adapter[k].far :
    \/ s.c \in adapter[k].clients \/ s \in unstopped[k]
    \/ LocCall("drop", s) \in ToSet(locCalls[k])
    \/ \E ok \in BOOLEAN : AnswerMsg(LocCall("drop", s), ok) \in ToSet(queue[k])

\* The framework instance is there as long as one client is, and only then.
FrameworkServes == ~crashed => (osFramework <=> clientData # {})

\* Once nothing is under way, every client that had an adapter when it was created
\* knows what the device can do: the adapter that was asked knew the client.
CapabilitiesReach ==
  (\A k \in Kinds : queue[k] = <<>> /\ kept[k] = <<>>) => clientData \cap asked \subseteq capable

\* The framework instance serves the clients, and they know what it can do.
ApiServes == FrameworkServes /\ CapabilitiesReach

\* Once nothing is under way, every object that was destroyed with a callback has
\* been freed: the adapters that it waits for are those that were told.
Freed ==
  (\A k \in Kinds : queue[k] = <<>>) => \A c \in Apis : destroyData[c] = {}

\* "only when we have received all the needed callbacks from all the associated
\* stacks, we shall notify the client" (LocationAPI.cpp:302).
Notified == \A c \in owed : object[c] # "free"
=============================================================================
