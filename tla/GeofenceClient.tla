---------------------------- MODULE GeofenceClient ----------------------------
(***************************************************************************)
(* The framework's geofences: GnssGeofencing, GeofenceAPIClient, and the   *)
(* geofence table and request queue of LocationAPIClientBase.              *)
(*                                                                         *)
(* The table maps the framework's ids to sessions of the adapter.  An      *)
(* answer of the adapter does not name its request: it is given to the     *)
(* oldest one in the queue, whatever was asked.                            *)
(***************************************************************************)
EXTENDS Naturals, Sequences

CONSTANTS
  FenceIds,        \* the framework's ids
  FenceSessions,   \* session ids of the adapter; those in use nowhere are fresh
  NoFence,
  Transitions,     \* what a geofence may report
  MayRefuse,       \* the commands that the modem may refuse
  MaxCommands      \* bound: what is under way when the framework calls

ASSUME FenceAssumption == NoFence \notin FenceIds /\ NoFence \notin FenceSessions

VARIABLES
  forward,      \* mForwardMap of mGeofenceBiDict
  backward,     \* mBackwardMap
  breachTypes,  \* mExtMap: what each session reports
  opened,       \* the request queue has its session id
  commands,     \* mRequestQueues[REQUEST_GEOFENCE]
  apiQueue,     \* turns and calls of LocApi
  answersDue,   \* messages of the adapter
  fenced,       \* sessions that the adapter and the modem have
  monitored,    \* what the framework last asked each id to report
  awaited,      \* each kind of command: how many were taken and not answered
  orphaned,     \* sessions whose removal was refused, by the modem or by the adapter
  telling,      \* the breach looked up under mMutex whose callback is not called yet
  lastBreach    \* the breach that the framework was last told

fenceVars == <<forward, backward, breachTypes, opened, commands, apiQueue, answersDue,
               fenced, monitored, awaited, orphaned, telling, lastBreach>>

Commands == {"add", "remove", "pause", "resume"}
FenceCall(step, k, s) == [step |-> step, k |-> k, s |-> s, ok |-> TRUE]
FenceCalls == [step : {"turn", "call", "answer", "breach"}, k : Commands \cup Transitions,
               s : FenceSessions, ok : BOOLEAN]

\* What is told of a geofence; "late": taken back after the look-up.
NoBreach == [id |-> NoFence, t |-> NoFence, late |-> FALSE]
Breaches == [id : FenceIds \cup {NoFence}, t : Transitions \cup {NoFence}, late : BOOLEAN]

GeofenceClientTypeOK ==
  /\ forward \in [FenceIds -> FenceSessions \cup {NoFence}]
  /\ backward \in [FenceSessions -> FenceIds \cup {NoFence}]
  /\ breachTypes \in [FenceSessions -> SUBSET Transitions]
  /\ opened \in BOOLEAN /\ commands \in Seq(Commands)
  /\ apiQueue \in Seq(FenceCalls) /\ answersDue \in Seq(FenceCalls)
  /\ fenced \subseteq FenceSessions /\ orphaned \subseteq FenceSessions
  /\ monitored \in [FenceIds -> SUBSET Transitions]
  /\ awaited \in [Commands -> Nat]
  /\ telling \in Breaches
  /\ lastBreach \in [told : Breaches, asked : SUBSET Transitions]

GeofenceClientInit ==
  /\ forward = [i \in FenceIds |-> NoFence] /\ backward = [s \in FenceSessions |-> NoFence]
  /\ breachTypes = [s \in FenceSessions |-> {}]
  /\ opened = FALSE /\ commands = <<>>
  /\ apiQueue = <<>> /\ answersDue = <<>> /\ fenced = {} /\ orphaned = {}
  /\ monitored = [i \in FenceIds |-> {}] /\ awaited = [k \in Commands |-> 0]
  /\ telling = NoBreach /\ lastBreach = [told |-> NoBreach, asked |-> {}]

-----------------------------------------------------------------------------
(***************************************************************************)
(* Commands of the framework.                                              *)
(***************************************************************************)
RoomForCommand == Len(apiQueue) + Len(answersDue) < MaxCommands

FreshFences ==
  {s \in FenceSessions \ fenced :
     /\ backward[s] = NoFence
     /\ \A i \in DOMAIN apiQueue : apiQueue[i].s # s
     /\ \A i \in DOMAIN answersDue : answersDue[i].s # s}

\* mGeofenceBiDict.set
Enter(id, s, mask) ==
  /\ forward' = [forward EXCEPT ![id] = s] /\ backward' = [backward EXCEPT ![s] = id]
  /\ breachTypes' = [breachTypes EXCEPT ![s] = mask]

\* mGeofenceBiDict.rmBySession
Forget(s) ==
  /\ forward' = [forward EXCEPT ![backward[s]] = NoFence]
  /\ backward' = [backward EXCEPT ![s] = NoFence]
  /\ breachTypes' = [breachTypes EXCEPT ![s] = {}]

\* A request in the queue, and its turn asked of LocApi.
Issue(queue, k, s) ==
  /\ commands' = Append(queue, k)
  /\ apiQueue' = Append(apiQueue, FenceCall("turn", k, s))
  /\ awaited' = [awaited EXCEPT ![k] = @ + 1]
  /\ UNCHANGED <<answersDue, fenced, lastBreach>>

\* The queue that the first addition opens.
Waiting == IF opened THEN commands ELSE <<>>

AddGeofence(id, mask) ==
  /\ RoomForCommand /\ forward[id] = NoFence
  /\ opened' = TRUE /\ monitored' = [monitored EXCEPT ![id] = mask] /\ UNCHANGED telling
  /\ \E s \in FreshFences :
       Enter(id, s, mask) /\ Issue(Waiting, "add", s) /\ orphaned' = orphaned \ {s}

\* An id that is not in the table is ignored, and the framework not answered.
Command(id, k) ==
  /\ RoomForCommand
  /\ \/ opened /\ forward[id] # NoFence /\ Issue(commands, k, forward[id])
     \/ /\ ~opened \/ forward[id] = NoFence
        /\ UNCHANGED <<commands, apiQueue, awaited, answersDue, fenced, lastBreach>>
  /\ UNCHANGED <<opened, orphaned>>

\* A breach on its way to the framework that no longer asks for it.
TakeBack(id, mask) ==
  telling' = [telling EXCEPT !.late = @ \/ (telling.id = id /\ telling.t \notin mask)]

\* The id is free again before the modem has removed the geofence.
RemoveGeofence(id) ==
  /\ Command(id, "remove")
  /\ IF forward[id] = NoFence THEN UNCHANGED <<forward, backward, breachTypes>>
     ELSE Forget(forward[id])
  /\ monitored' = [monitored EXCEPT ![id] = {}] /\ TakeBack(id, {})

PauseGeofence(id) ==
  Command(id, "pause") /\ UNCHANGED <<forward, backward, breachTypes, monitored, telling>>

\* The new mask stays in the table; the modem keeps the one of the addition.
ResumeGeofence(id, mask) ==
  /\ Command(id, "resume")
  /\ IF forward[id] = NoFence
     THEN UNCHANGED <<forward, backward, breachTypes, monitored, telling>>
     ELSE /\ Enter(id, forward[id], mask) /\ monitored' = [monitored EXCEPT ![id] = mask]
          /\ TakeBack(id, mask)

-----------------------------------------------------------------------------
(***************************************************************************)
(* Callbacks, on the adapter's thread.                                     *)
(***************************************************************************)
\* onCollectiveResponseCb: the callback is that of the oldest request.
OnCollectiveResponseCb ==
  \/ /\ commands # <<>> /\ commands' = Tail(commands)
     /\ awaited' = [awaited EXCEPT ![Head(commands)] = @ - 1]
  \/ commands = <<>> /\ UNCHANGED <<commands, awaited>>

\* beforeGeofenceBreachCb, under mMutex: the id of the session, when it reports this.
BeforeGeofenceBreachCb(s, t) ==
  telling' = IF t \in breachTypes[s] THEN [id |-> backward[s], t |-> t, late |-> FALSE]
             ELSE NoBreach

\* And its callback, after the unlock.
GeofenceBreachCb ==
  /\ telling # NoBreach /\ telling' = NoBreach
  /\ lastBreach' = [told |-> telling,
                    asked |-> IF telling.id = NoFence THEN {} ELSE monitored[telling.id]]
  /\ UNCHANGED <<forward, backward, breachTypes, opened, commands, apiQueue, answersDue,
                 fenced, monitored, awaited, orphaned>>

Due == Head(answersDue)

\* Slip: a command for a geofence that the adapter does not have is dropped.
HandleTurn_Silent ==
  /\ answersDue # <<>> /\ Due.step = "turn"
  /\ apiQueue' = IF Due.k = "add" \/ Due.s \in fenced
                 THEN Append(apiQueue, FenceCall("call", Due.k, Due.s)) ELSE apiQueue
  /\ orphaned' = IF Due.k = "remove" /\ Due.s \notin fenced THEN orphaned \cup {Due.s}
                 ELSE orphaned
  /\ UNCHANGED <<commands, awaited, fenced, telling>>

HandleTurn ==
  /\ answersDue # <<>> /\ Due.step = "turn"
  /\ \/ /\ Due.k = "add" \/ Due.s \in fenced
        /\ apiQueue' = Append(apiQueue, FenceCall("call", Due.k, Due.s))
        /\ UNCHANGED <<commands, awaited>>
     \/ /\ Due.k # "add" /\ Due.s \notin fenced
        /\ OnCollectiveResponseCb /\ UNCHANGED apiQueue
  /\ orphaned' = IF Due.k = "remove" /\ Due.s \notin fenced THEN orphaned \cup {Due.s}
                 ELSE orphaned
  /\ UNCHANGED <<fenced, telling>>

\* The adapter's table follows the modem's answer.
HandleAnswer ==
  /\ answersDue # <<>> /\ Due.step = "answer"
  /\ fenced' = IF Due.ok /\ Due.k = "add" THEN fenced \cup {Due.s}
               ELSE IF Due.ok /\ Due.k = "remove" THEN fenced \ {Due.s} ELSE fenced
  /\ orphaned' = IF Due.k # "remove" THEN orphaned
                 ELSE IF Due.ok THEN orphaned \ {Due.s} ELSE orphaned \cup {Due.s}
  /\ OnCollectiveResponseCb
  /\ UNCHANGED <<apiQueue, telling>>

HandleBreach ==
  /\ answersDue # <<>> /\ Due.step = "breach"
  /\ IF Due.s \in fenced THEN BeforeGeofenceBreachCb(Due.s, Due.k)
     ELSE UNCHANGED telling
  /\ UNCHANGED <<commands, awaited, apiQueue, fenced, orphaned>>

\* The thread is in the callback until it returns.
FenceAdapter ==
  /\ telling = NoBreach
  /\ HandleTurn \/ HandleAnswer \/ HandleBreach
  /\ answersDue' = Tail(answersDue)
  /\ UNCHANGED <<forward, backward, breachTypes, opened, monitored, lastBreach>>

-----------------------------------------------------------------------------
(***************************************************************************)
(* LocApi and the modem.                                                   *)
(***************************************************************************)
FenceLocApi ==
  /\ apiQueue # <<>> /\ apiQueue' = Tail(apiQueue)
  /\ LET c == Head(apiQueue)
     IN \E ok \in {TRUE} \cup (IF c.step = "call" /\ c.k \in MayRefuse THEN {FALSE} ELSE {}) :
          answersDue' = Append(answersDue, [c EXCEPT !.ok = ok,
                                              !.step = IF @ = "turn" THEN "turn" ELSE "answer"])
  /\ UNCHANGED <<forward, backward, breachTypes, opened, commands, fenced, monitored,
                 awaited, orphaned, telling, lastBreach>>

Breach(s, t) ==
  /\ s \in fenced /\ Len(answersDue) < MaxCommands
  /\ answersDue' = Append(answersDue, FenceCall("breach", t, s))
  /\ UNCHANGED <<forward, backward, breachTypes, opened, commands, apiQueue, fenced,
                 monitored, awaited, orphaned, telling, lastBreach>>

GeofenceClientNext ==
  \/ \E id \in FenceIds :
       \/ \E mask \in SUBSET Transitions : AddGeofence(id, mask) \/ ResumeGeofence(id, mask)
       \/ RemoveGeofence(id) \/ PauseGeofence(id)
  \/ FenceAdapter \/ GeofenceBreachCb \/ FenceLocApi
  \/ \E s \in FenceSessions, t \in Transitions : Breach(s, t)

GeofenceClientSpec == GeofenceClientInit /\ [][GeofenceClientNext]_fenceVars

-----------------------------------------------------------------------------
(***************************************************************************)
(* Properties.                                                             *)
(***************************************************************************)
FencesSettled == apiQueue = <<>> /\ answersDue = <<>>

\* Once nothing is under way, each command that was taken has had one callback of
\* its kind, although answers overtake one another and are given to the oldest
\* request, whatever its kind.
CommandsAnswered == FencesSettled => commands = <<>> /\ \A k \in Commands : awaited[k] = 0

\* Once nothing is under way, every geofence that the modem has is in the table
\* under its id, so that the framework can pause and remove it, unless its removal
\* was refused: by the modem, or by the adapter, that does not have it yet while the
\* modem adds it.
FencesHeld ==
  FencesSettled =>
    \A s \in fenced \ orphaned : backward[s] # NoFence /\ forward[backward[s]] = s

\* A breach that the framework is told is one of a geofence of its own, of a kind that it
\* asks for as it is told; only one that was looked up before the framework removed the id
\* or asked for other kinds, and whose callback comes after that, is told all the same.
BreachAsked ==
  LET br == lastBreach.told
  IN br # NoBreach => br.id # NoFence /\ (br.late \/ br.t \in lastBreach.asked)

\* The framework's commands are answered, its geofences stay in its reach, and it is
\* told the breaches that it asks for.
FencesServed == CommandsAnswered /\ FencesHeld /\ BreachAsked
=============================================================================
