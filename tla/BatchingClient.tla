---------------------------- MODULE BatchingClient ----------------------------
(***************************************************************************)
(* The framework's batching session: GnssBatching, BatchingAPIClient and   *)
(* the session table and request queue of LocationAPIClientBase.           *)
(*                                                                         *)
(* The framework has one session at a time.  An answer of the adapter does *)
(* not name its request: it is given to the oldest one in the queue.       *)
(* Locations come without a request too, and those of a session that is    *)
(* being stopped are kept until the next report.                           *)
(***************************************************************************)
EXTENDS Naturals, Sequences, SequencesExt

CONSTANTS
  Sessions,      \* session ids of the adapter; those in use nowhere are fresh
  NoSession,
  MayFail,       \* the modem may refuse a call
  CallsLate,     \* the framework may flush or stop a session it has just stopped
  MaxLocations,  \* bound: locations that the modem reports
  MaxUnderway    \* bound: what is under way, or in the queue, when the framework calls

VARIABLES
  mState,     \* mState: "STARTED", "STOPPING" or "STOPPED"
  cache,      \* mBatchedLocationInCache; locations are numbered as they come
  delivered,  \* the locations given to onBatchingCb so far
  reported,   \* what the framework has got
  flushing,   \* detached threads of flushes
  dict,       \* mSessionBiDict: the session of the framework's id
  queued,     \* mRequestQueues[REQUEST_SESSION]
  pc,         \* where stopSession of the framework's thread is
  inbox,      \* messages of the adapter
  runs,       \* sessions the adapter has
  apiCalls,   \* calls of LocApi
  wanted,     \* what the framework was last told: that the session is started
  refused,    \* the modem has refused a call
  flushOwed   \* a flush that was not followed by a report

clientVars == <<mState, cache, delivered, reported, flushing, dict, queued, pc>>
externalVars == <<inbox, runs, apiCalls>>
batchingVars == <<clientVars, externalVars, wanted, refused, flushOwed>>

Requests == {"start", "stop", "get"}
Item(k, s, ok) == [k |-> k, s |-> s, ok |-> ok]
Items == [k : Requests \cup {"started", "stopped", "got", "locations"},
          s : Sessions \cup {NoSession}, ok : BOOLEAN]

BatchingClientTypeOK ==
  /\ mState \in {"STARTED", "STOPPING", "STOPPED"}
  /\ delivered \in 0 .. MaxLocations
  /\ cache \in Seq(1 .. delivered) /\ reported \in Seq(1 .. delivered)
  /\ flushing \in Nat /\ dict \in Sessions \cup {NoSession}
  /\ queued \in Seq(Requests) /\ pc \in {"idle", "get", "stop"}
  /\ inbox \in Seq(Items) /\ runs \subseteq Sessions /\ apiCalls \in Seq(Items)
  /\ {wanted, refused, flushOwed} \subseteq BOOLEAN

BatchingClientInit ==
  /\ mState = "STOPPED" /\ cache = <<>> /\ delivered = 0 /\ reported = <<>>
  /\ flushing = 0 /\ dict = NoSession /\ queued = <<>> /\ pc = "idle"
  /\ inbox = <<>> /\ runs = {} /\ apiCalls = <<>>
  /\ wanted = FALSE /\ refused = FALSE /\ flushOwed = FALSE

-----------------------------------------------------------------------------
(***************************************************************************)
(* Calls of the framework.                                                 *)
(***************************************************************************)
Room ==
  /\ Len(inbox) + Len(apiCalls) + flushing <= MaxUnderway
  /\ Len(queued) <= MaxUnderway + 1

Fresh ==
  {s \in Sessions \ (runs \cup {dict}) :
     \A i \in DOMAIN (inbox \o apiCalls) : (inbox \o apiCalls)[i].s # s}

\* A request is put in the queue, and its call made.
Request(k, s) ==
  /\ queued' = Append(queued, k)
  /\ inbox' = Append(inbox, Item(k, s, TRUE))

\* GnssBatching::start.  The state changes even when the start is refused.
StartSession ==
  /\ pc = "idle" /\ Room
  /\ mState' = "STARTED"
  /\ \/ /\ dict = NoSession
        /\ \E s \in Fresh : dict' = s /\ Request("start", s)
        /\ wanted' = TRUE
     \/ dict # NoSession /\ UNCHANGED <<dict, queued, inbox, wanted>>
  /\ UNCHANGED <<cache, delivered, reported, flushing, pc, runs, apiCalls, refused, flushOwed>>

\* GnssBatching::stop and cleanup: three calls that lock one by one.
StopSession ==
  /\ pc = "idle" /\ Room
  /\ CallsLate \/ wanted \/ dict = NoSession
  /\ mState' = "STOPPING" /\ pc' = "get"
  /\ UNCHANGED <<cache, delivered, reported, flushing, dict, queued, externalVars,
                 wanted, refused, flushOwed>>

StopGets ==
  /\ pc = "get" /\ pc' = "stop"
  /\ \/ dict # NoSession /\ Request("get", dict)
     \/ dict = NoSession /\ UNCHANGED <<queued, inbox>>
  /\ UNCHANGED <<mState, cache, delivered, reported, flushing, dict, runs, apiCalls,
                 wanted, refused, flushOwed>>

StopStops ==
  /\ pc = "stop" /\ pc' = "idle"
  /\ \/ dict # NoSession /\ Request("stop", dict) /\ wanted' = FALSE
     \/ dict = NoSession /\ UNCHANGED <<queued, inbox, wanted>>
  /\ UNCHANGED <<mState, cache, delivered, reported, flushing, dict, runs, apiCalls,
                 refused, flushOwed>>

\* GnssBatching::flush: without a session a thread reports an empty batch.
Flush ==
  /\ pc = "idle" /\ Room
  /\ CallsLate \/ wanted \/ dict = NoSession
  /\ \/ dict # NoSession /\ Request("get", dict) /\ UNCHANGED flushing
     \/ dict = NoSession /\ flushing' = flushing + 1 /\ UNCHANGED <<queued, inbox>>
  /\ flushOwed' = TRUE
  /\ UNCHANGED <<mState, cache, delivered, reported, dict, pc, runs, apiCalls,
                 wanted, refused>>

-----------------------------------------------------------------------------
(***************************************************************************)
(* Callbacks.                                                              *)
(***************************************************************************)
\* The first batch of a session that is being stopped is kept for the next report.
OnBatchingCb(n) ==
  LET new == [i \in 1 .. n |-> delivered + i]
  IN /\ delivered' = delivered + n
     /\ \/ /\ mState = "STOPPING" /\ mState' = "STOPPED"
           /\ cache' = cache \o new /\ UNCHANGED <<reported, flushOwed>>
        \/ /\ mState # "STOPPING" /\ UNCHANGED mState
           /\ reported' = reported \o cache \o new /\ cache' = <<>> /\ flushOwed' = FALSE

FlushThread ==
  /\ flushing > 0 /\ flushing' = flushing - 1
  /\ OnBatchingCb(0)
  /\ UNCHANGED <<dict, queued, pc, externalVars, wanted, refused>>

\* Slip: a session is forgotten whichever request succeeds.
OnResponse_AnyForgets(request, ok) == IF request # "start" /\ ok THEN NoSession ELSE dict

\* What is left of the session after a failed start, or a stop.
OnResponse(request, ok) ==
  IF (request = "start" /\ ~ok) \/ (request = "stop" /\ ok) THEN NoSession ELSE dict

\* onResponseCb: the oldest request is taken, if the session is known.
OnResponseCb(s, ok) ==
  \/ /\ s = dict /\ queued # <<>>
     /\ queued' = Tail(queued) /\ dict' = OnResponse(Head(queued), ok)
  \/ s # dict /\ UNCHANGED <<queued, dict>>
  \/ queued = <<>> /\ UNCHANGED <<queued, dict>>

-----------------------------------------------------------------------------
(***************************************************************************)
(* The adapter and LocApi.                                                 *)
(***************************************************************************)
Received(k) == inbox # <<>> /\ Head(inbox).k = k

HandleStart ==
  /\ Received("start")
  /\ runs' = runs \cup {Head(inbox).s} /\ apiCalls' = Append(apiCalls, Head(inbox))
  /\ UNCHANGED <<mState, cache, delivered, reported, dict, queued, flushOwed>>

\* The locations of a session that is gone are not asked for.
HandleGet ==
  /\ Received("get")
  /\ \/ /\ Head(inbox).s \in runs
        /\ apiCalls' = Append(apiCalls, Head(inbox)) /\ UNCHANGED <<dict, queued>>
     \/ Head(inbox).s \notin runs /\ UNCHANGED apiCalls /\ OnResponseCb(Head(inbox).s, FALSE)
  /\ UNCHANGED <<mState, cache, delivered, reported, runs, flushOwed>>

\* The stop of a session that is gone is not answered.
HandleStop ==
  /\ Received("stop")
  /\ \/ /\ Head(inbox).s \in runs /\ runs' = runs \ {Head(inbox).s}
        /\ apiCalls' = Append(apiCalls, Head(inbox))
     \/ Head(inbox).s \notin runs /\ UNCHANGED <<runs, apiCalls>>
  /\ UNCHANGED <<mState, cache, delivered, reported, dict, queued, flushOwed>>

\* A failed start is erased, a failed stop saved again.
HandleAnswer ==
  LET m == Head(inbox)
  IN /\ Received("started") \/ Received("stopped") \/ Received("got")
     /\ runs' = IF m.ok THEN runs
                ELSE IF m.k = "started" THEN runs \ {m.s}
                ELSE IF m.k = "stopped" THEN runs \cup {m.s} ELSE runs
     /\ OnResponseCb(m.s, m.ok)
     /\ UNCHANGED <<mState, cache, delivered, reported, apiCalls, flushOwed>>

HandleLocations ==
  /\ Received("locations")
  /\ \E n \in 0 .. 1 : delivered + n <= MaxLocations /\ OnBatchingCb(n)
  /\ UNCHANGED <<dict, queued, runs, apiCalls>>

AdapterRuns ==
  /\ HandleStart \/ HandleGet \/ HandleStop \/ HandleAnswer \/ HandleLocations
  /\ inbox' = Tail(inbox)
  /\ UNCHANGED <<flushing, pc, wanted, refused>>

AnswerTo == [start |-> "started", stop |-> "stopped", get |-> "got"]

LocApiRuns ==
  /\ apiCalls # <<>> /\ apiCalls' = Tail(apiCalls)
  /\ LET c == Head(apiCalls)
     IN \E ok \in {TRUE} \cup {~MayFail} :
          /\ inbox' = inbox \o (IF c.k = "get" /\ ok THEN <<Item("locations", c.s, TRUE)>> ELSE <<>>)
                            \o <<Item(AnswerTo[c.k], c.s, ok)>>
          /\ refused' = (refused \/ ~ok)
  /\ UNCHANGED <<clientVars, runs, wanted, flushOwed>>

\* The modem's store is full.
Full ==
  /\ runs # {} /\ Len(inbox) < MaxUnderway
  /\ inbox' = Append(inbox, Item("locations", NoSession, TRUE))
  /\ UNCHANGED <<clientVars, runs, apiCalls, wanted, refused, flushOwed>>

BatchingClientNext ==
  \/ StartSession \/ StopSession \/ StopGets \/ StopStops \/ Flush
  \/ FlushThread \/ AdapterRuns \/ LocApiRuns \/ Full

BatchingClientSpec == BatchingClientInit /\ [][BatchingClientNext]_batchingVars

-----------------------------------------------------------------------------
(***************************************************************************)
(* Properties.                                                             *)
(***************************************************************************)
\* The framework gets each location once and in order, those kept while the
\* session was being stopped included.
InOrder == reported \o cache = [i \in 1 .. delivered |-> i]

Settled == inbox = <<>> /\ apiCalls = <<>> /\ pc = "idle" /\ flushing = 0

\* As long as no call is refused and nothing but a start follows a stop: once nothing is under way, a session that the
\* adapter runs is the one that the framework can stop, and the adapter runs one
\* just if the framework was told so.  Although answers may meet requests of
\* others, no answer makes the client forget a session that goes on.
SessionHeld ==
  Settled /\ ~refused => /\ runs \subseteq {dict}
                         /\ wanted <=> runs # {}

\* "flush() always trigger report, even on a stopped session"
\* (BatchingAPIClient.cpp:224).
FlushReports == Settled => ~flushOwed
=============================================================================
