----------------------------- MODULE SystemStatus -----------------------------
(***************************************************************************)
(* Data items of the framework on their way to those who subscribed to     *)
(* them: gps/core/SystemStatusOsObserver.cpp with its two maps of          *)
(* subscriptions and its cache, the history of network reports in          *)
(* gps/core/SystemStatus.cpp, and the observers of the GNSS adapter:       *)
(* NativeAgpsHandler and XtraSystemStatusObserver, which tells the XTRA    *)
(* daemon over a socket.                                                   *)
(*                                                                         *)
(* All of them run on the one MsgTask of the adapter; calls of others are  *)
(* queued to it.  The item "network" is a report on one network with the   *)
(* table of all of them, the other items are plain values.                 *)
(***************************************************************************)
EXTENDS SequencesExt, FiniteSetsExt

CONSTANTS
  Networks,     \* network handles
  TypeOf,       \* the type of each: [Networks -> types]
  Values,       \* values of the items that are not networks
  Changing,     \* those of these items that change
  Listeners,    \* observers besides the two of the adapter
  Listened,     \* items that these ask for
  TableSize,    \* MAX_NETWORK_HANDLES
  MaxItem,      \* SystemStatusItemBase::maxItem: reports kept in the history
  MaxTasks,     \* bound on the queue
  MayReset      \* the framework dies and comes back

ASSUME StatusAssumption ==
  /\ IsFiniteSet(Networks) /\ {"agps", "xtra"} \cap Listeners = {} /\ Changing \subseteq {"mccmnc", "tac", "lock"}
  /\ Listened \subseteq {"network", "mccmnc", "tac"} /\ MaxItem \in Nat \ {0}
  /\ TableSize \in Nat /\ TableSize >= Cardinality(Networks)

VARIABLES
  link,        \* networks that the framework has connected
  truth,       \* its values of the plain items
  fwItems,     \* items that the framework was told to report
  subscriptionObj,      \* mSubscriptionObj is set
  tasks,       \* messages of the adapter's MsgTask
  listeners,   \* mDataItemToClients
  wants,       \* mClientToDataItems
  history,     \* mCache.mNetworkInfo, the last reports
  items,       \* mDataItemCache, for the item "network" too
  seen,        \* what each observer was last notified of
  sentBefore,  \* mReqStatusReceived: the daemon has asked for the status
  daemon,      \* "down", "up" or "asked" (up, its request is under way)
  told,        \* what the daemon knows
  resetAt      \* index in the loop of resetNetworkInfo, 0 outside of it

statusVars == <<link, truth, fwItems, subscriptionObj, tasks, listeners, wants, history,
                items, seen, sentBefore, daemon, told, resetAt>>

None == [none |-> TRUE]
Plain == {"mccmnc", "tac", "lock"}
DataItems == {"network"} \cup Plain
\* The lock is told to the XTRA observer by the adapter, not by the framework.
FrameworkItems == DataItems \ {"lock"}
Observers == {"agps", "xtra"} \cup Listeners

Task(kind, who, what, value) == [kind |-> kind, who |-> who, what |-> what, value |-> value]
Types(S) == {TypeOf[n] : n \in S}

\* What a report says of its network, before it is collated.
NetworkReport(up, n) == [up |-> up, net |-> n, types |-> {TypeOf[n]}, table |-> <<n>>]
Reports == [up : BOOLEAN, net : Networks, types : SUBSET Types(Networks),
            table : BoundedSeq(Networks, TableSize)]

StatusTypeOK ==
  /\ link \subseteq Networks /\ truth \in [Plain -> Values]
  /\ fwItems \subseteq FrameworkItems /\ subscriptionObj \in BOOLEAN
  /\ listeners \in [FrameworkItems -> SUBSET Observers]
  /\ wants \in [Observers -> SUBSET FrameworkItems]
  /\ Len(history) <= MaxItem /\ \A i \in DOMAIN history : history[i] \in Reports
  /\ daemon \in {"down", "up", "asked"} /\ sentBefore \in BOOLEAN
  /\ resetAt \in 0 .. MaxItem + 1

\* The constructors of the two observers of the adapter subscribe.
StatusInit ==
  /\ link = {} /\ truth = [i \in Plain |-> CHOOSE v \in Values : TRUE]
  /\ fwItems = {} /\ subscriptionObj = FALSE
  /\ tasks = <<Task("subscribe", "xtra", {"network", "mccmnc"}, None),
               Task("request", "xtra", {"tac"}, None),
               Task("subscribe", "agps", {"network"}, None)>>
  /\ listeners = [i \in FrameworkItems |-> {}]
  /\ wants = [c \in Observers |-> {}]
  /\ history = <<>>
  /\ items = [i \in FrameworkItems |-> None]
  /\ seen = [c \in Observers |-> [i \in DataItems |-> None]]
  /\ sentBefore = FALSE
  /\ daemon = "down"
  /\ told = [i \in DataItems |-> None]
  /\ resetAt = 0

-----------------------------------------------------------------------------
(***************************************************************************)
(* The history of network reports.                                         *)
(***************************************************************************)
\* A network that comes is added to the table, unless it is there or the table
\* is full; the place of one that goes is taken by the last.
WithNetwork(table, n) ==
  IF n \in Range(table) \/ Len(table) = TableSize THEN table ELSE Append(table, n)
\* Slip: the last entry is cleared, and not moved to the place of the one that goes.
WithoutNetwork_NotMoved(table, n) == IF n \notin Range(table) THEN table ELSE Front(table)
WithoutNetwork(table, n) ==
  IF n \notin Range(table) THEN table
  ELSE LET i == CHOOSE j \in DOMAIN table : table[j] = n
       IN Front([table EXCEPT ![i] = Last(table)])

\* SystemStatusNetworkInfo::collate.  A type goes with the last network of it;
\* if others remain, the report keeps its own type alone.
Collated(r, cur) ==
  IF r.up THEN [r EXCEPT !.types = @ \cup cur.types, !.table = WithNetwork(cur.table, r.net)]
  ELSE [r EXCEPT !.types = IF \E n \in Range(cur.table) \ {r.net} : TypeOf[n] = TypeOf[r.net]
                           THEN @ ELSE cur.types \ @,
                 !.table = WithoutNetwork(cur.table, r.net)]

\* SystemStatusNetworkInfo::equals, without the APN.
SameReport(r, cur) == r.up = cur.up /\ r.table = cur.table

\* setIteminReport: the first report is taken as it is.
Arrived(r) == IF history = <<>> THEN r ELSE Collated(r, Last(history))
IsNews(r) == history = <<>> \/ ~SameReport(Arrived(r), Last(history))
Kept(h) == IF Len(h) > MaxItem THEN Tail(h) ELSE h

-----------------------------------------------------------------------------
(***************************************************************************)
(* The framework and others that queue messages.                           *)
(***************************************************************************)
CanQueue == Len(tasks) < MaxTasks
Queue(t) == tasks' = Append(tasks, t)

\* SystemStatus::eventConnectionStatus.
NetworkChanges(n) ==
  /\ CanQueue /\ resetAt = 0
  /\ link' = IF n \in link THEN link \ {n} ELSE link \cup {n}
  /\ Queue(Task("notify", "framework", {"network"}, NetworkReport(n \notin link, n)))
  /\ UNCHANGED <<truth, fwItems, subscriptionObj, listeners, wants, history, items, seen,
                 sentBefore, daemon, told, resetAt>>

\* A plain item changes; the framework reports it if it was told to.
ItemChanges(i, v) ==
  /\ CanQueue
  /\ truth[i] # v
  /\ truth' = [truth EXCEPT ![i] = v]
  /\ IF i = "lock" THEN Queue(Task("lock", "adapter", {}, v))
     ELSE IF i \in fwItems THEN Queue(Task("notify", "framework", {i}, v))
     ELSE UNCHANGED tasks
  /\ UNCHANGED <<link, fwItems, subscriptionObj, listeners, wants, history, items, seen,
                 sentBefore, daemon, told, resetAt>>

\* setSubscriptionObj, subscribe, unsubscribe, unsubscribeAll and requestData.
Asked(kinds, whats) == [kind : kinds, who : Listeners, what : whats, value : {None}]
Calls ==
  Asked({"unsubscribeAll"}, {{}})
    \cup Asked({"subscribe", "unsubscribe", "request"}, {{i} : i \in Listened})
    \cup (IF subscriptionObj \/ \E t \in Range(tasks) : t.kind = "setObject" THEN {}
          ELSE {Task("setObject", "framework", {}, None)})

Call(t) ==
  /\ CanQueue
  /\ Queue(t)
  /\ UNCHANGED <<link, truth, fwItems, subscriptionObj, listeners, wants, history, items, seen,
                 sentBefore, daemon, told, resetAt>>

\* Gnss::GnssDeathRecipient::serviceDied: the framework is gone with what it had
\* connected; resetNetworkInfo walks the history while the task goes on.
FrameworkDies ==
  /\ MayReset /\ resetAt = 0 /\ link # {}
  /\ link' = {}
  /\ resetAt' = 1
  /\ UNCHANGED <<truth, fwItems, subscriptionObj, tasks, listeners, wants, history, items,
                 seen, sentBefore, daemon, told>>

ResetNext ==
  /\ resetAt > 0
  /\ IF resetAt <= Len(history)
     THEN /\ CanQueue
          /\ Queue(Task("notify", "framework", {"network"},
                        NetworkReport(FALSE, history[resetAt].net)))
          /\ resetAt' = resetAt + 1
     ELSE resetAt' = 0 /\ UNCHANGED tasks
  /\ UNCHANGED <<link, truth, fwItems, subscriptionObj, listeners, wants, history, items, seen,
                 sentBefore, daemon, told>>

\* The XTRA daemon starts, asks for the status, and may stop at any time.
DaemonStarts ==
  /\ daemon = "down" /\ CanQueue
  /\ daemon' = "asked"
  /\ Queue(Task("status", "daemon", {}, None))
  /\ UNCHANGED <<link, truth, fwItems, subscriptionObj, listeners, wants, history, items, seen,
                 sentBefore, told, resetAt>>

DaemonStops ==
  /\ daemon # "down"
  /\ daemon' = "down"
  /\ told' = [i \in DataItems |-> None]
  /\ UNCHANGED <<link, truth, fwItems, subscriptionObj, tasks, listeners, wants, history, items,
                 seen, sentBefore, resetAt>>

-----------------------------------------------------------------------------
(***************************************************************************)
(* Messages of the task.                                                   *)
(***************************************************************************)
NextTask == Head(tasks)
\* The framework answers a subscription or a request with what it has.
Answers(S) ==
  [k \in 1 .. Cardinality(S \cap Plain) |->
     LET i == SetToSeq(S \cap Plain)[k] IN Task("notify", "framework", {i}, truth[i])]

\* sendCachedDataItems.  The XTRA observer copies the items into a message.
SeenBy(c, new, S) ==
  LET got == {i \in S : new[i] # None}
  IN IF c = "xtra" \/ got = {} THEN seen[c]
     ELSE [i \in DataItems |-> IF i \in got THEN new[i] ELSE seen[c][i]]
Copied(new, S) ==
  LET got == {i \in S : new[i] # None}
  IN IF got = {} THEN <<>> ELSE <<Task("update", "xtra", got, [i \in got |-> new[i]])>>

HandleSubscribe ==
  LET c == NextTask.who
      S == NextTask.what
      fresh == {i \in S : listeners[i] = {}}
      asked == IF ~subscriptionObj THEN {} ELSE IF NextTask.kind = "request" THEN S ELSE fresh
  IN /\ NextTask.kind \in {"subscribe", "request"}
     /\ listeners' = [i \in FrameworkItems |-> listeners[i] \cup IF i \in S THEN {c} ELSE {}]
     /\ wants' = [wants EXCEPT ![c] = @ \cup S]
     /\ seen' = [seen EXCEPT ![c] = SeenBy(c, items, S)]
     /\ fwItems' = IF NextTask.kind = "request" THEN fwItems ELSE fwItems \cup asked
     /\ tasks' = Tail(tasks) \o (IF c = "xtra" THEN Copied(items, S) ELSE <<>>)
                             \o Answers(asked)
     /\ UNCHANGED <<subscriptionObj, history, items, sentBefore, told>>

HandleUnsubscribe ==
  LET c == NextTask.who
      S == IF NextTask.kind = "unsubscribe" THEN wants[c] \cap NextTask.what ELSE wants[c]
      gone == {i \in S : listeners[i] = {c}}
  IN /\ NextTask.kind \in {"unsubscribe", "unsubscribeAll"}
     /\ wants' = [wants EXCEPT ![c] = @ \ S]
     /\ listeners' = [i \in FrameworkItems |-> listeners[i] \ IF i \in S THEN {c} ELSE {}]
     /\ fwItems' = IF subscriptionObj THEN fwItems \ gone ELSE fwItems
     /\ tasks' = Tail(tasks)
     /\ UNCHANGED <<subscriptionObj, history, items, seen, sentBefore, told>>

\* Slip: what was subscribed to before is not asked for.
HandleSetObject_FromNowOn ==
  /\ NextTask.kind = "setObject"
  /\ subscriptionObj' = TRUE
  /\ tasks' = Tail(tasks)
  /\ UNCHANGED <<fwItems, listeners, wants, history, items, seen, sentBefore, told>>
HandleSetObject ==
  LET S == {i \in FrameworkItems : listeners[i] # {}}
  IN /\ NextTask.kind = "setObject"
     /\ subscriptionObj' = TRUE
     /\ fwItems' = S
     /\ tasks' = Tail(tasks) \o Answers(S)
     /\ UNCHANGED <<listeners, wants, history, items, seen, sentBefore, told>>

\* HandleNotify with updateCache: an item that is new goes to its subscribers.
HandleNotify ==
  LET i == CHOOSE j \in NextTask.what : TRUE
      value == IF i = "network" THEN Arrived(NextTask.value) ELSE NextTask.value
      news == IF i = "network" THEN IsNews(NextTask.value) ELSE items[i] # value
      new == [items EXCEPT ![i] = value]
  IN /\ NextTask.kind = "notify"
     /\ history' = IF i = "network" /\ news THEN Kept(Append(history, value)) ELSE history
     /\ items' = IF news THEN new ELSE items
     /\ seen' = IF ~news THEN seen
                ELSE [c \in Observers |->
                        IF c \in listeners[i] THEN SeenBy(c, new, {i}) ELSE seen[c]]
     /\ tasks' = Tail(tasks) \o (IF news /\ "xtra" \in listeners[i] THEN Copied(new, {i})
                                 ELSE <<>>)
     /\ UNCHANGED <<subscriptionObj, fwItems, listeners, wants, sentBefore, told>>

\* updateConnections, updateMccMnc, updateTac and updateLockStatus: the daemon is told
\* at once when it has ever asked for the status.
Tells(S) == sentBefore /\ daemon # "down" /\ S # {}
HandleUpdate ==
  LET S == IF NextTask.kind = "lock" THEN {"lock"} ELSE NextTask.what
      value(i) == IF NextTask.kind = "lock" THEN NextTask.value ELSE NextTask.value[i]
  IN /\ NextTask.kind \in {"update", "lock"}
     /\ seen' = [seen EXCEPT !["xtra"] =
                   [i \in DataItems |-> IF i \in S THEN value(i) ELSE @[i]]]
     /\ told' = IF Tells(S)
                THEN [i \in DataItems |-> IF i \in S THEN value(i) ELSE told[i]]
                ELSE told
     /\ tasks' = Tail(tasks)
     /\ UNCHANGED <<subscriptionObj, fwItems, listeners, wants, history, items, sentBefore>>

HandleStatus ==
  /\ NextTask.kind = "status"
  /\ sentBefore' = TRUE
  /\ told' = IF daemon = "down" THEN told ELSE seen["xtra"]
  /\ tasks' = Tail(tasks)
  /\ UNCHANGED <<subscriptionObj, fwItems, listeners, wants, history, items, seen>>

HandleTask ==
  /\ tasks # <<>>
  /\ \/ HandleSubscribe \/ HandleUnsubscribe \/ HandleSetObject
     \/ HandleNotify \/ HandleUpdate \/ HandleStatus
  /\ daemon' = IF NextTask.kind = "status" /\ daemon = "asked" THEN "up" ELSE daemon
  /\ UNCHANGED <<link, truth, resetAt>>

-----------------------------------------------------------------------------
StatusNext ==
  \/ \E n \in Networks : NetworkChanges(n)
  \/ \E i \in Changing, v \in Values : ItemChanges(i, v)
  \/ \E t \in Calls : Call(t)
  \/ FrameworkDies \/ ResetNext
  \/ DaemonStarts \/ DaemonStops
  \/ HandleTask

StatusSpec == StatusInit /\ [][StatusNext]_statusVars

-----------------------------------------------------------------------------
(***************************************************************************)
(* Properties.                                                             *)
(***************************************************************************)
StatusQuiet == tasks = <<>> /\ resetAt = 0

\* When nothing is under way, the last report lists exactly the networks that
\* the framework has connected, each once, with their types.
NetworksAgree ==
  StatusQuiet /\ history # <<>> =>
    /\ Range(Last(history).table) = link
    /\ Len(Last(history).table) = Cardinality(link)
    /\ Last(history).types = Types(link)

\* The two maps of subscriptions are inverse to each other in every state, and
\* an item is reported by the framework as long as somebody wants it.
MapsInverse ==
  /\ \A c \in Observers, i \in FrameworkItems : i \in wants[c] <=> c \in listeners[i]
  /\ subscriptionObj => fwItems = {i \in FrameworkItems : listeners[i] # {}}

\* When nothing is under way, every observer has what the framework says last
\* of each item it wants, whenever it subscribed.
ItemsReach ==
  StatusQuiet /\ subscriptionObj => \A c \in Observers : \A i \in wants[c] :
    /\ seen[c][i] = items[i]
    /\ i \in Plain => seen[c][i] = truth[i]

\* The running XTRA daemon knows what its observer knows, also after it was
\* started again and for what changed while it asked.
DaemonTold == StatusQuiet /\ daemon = "up" => told = seen["xtra"]
=============================================================================
