--------------------------- MODULE GeofenceAdapter ---------------------------
(***************************************************************************)
(* The geofences of gps/geofence/GeofenceAdapter.cpp.                      *)
(*                                                                         *)
(* A request names one or more geofences.  Each of them takes a turn of    *)
(* its own through the queue of LocApi (addToCallQueue) before the adapter *)
(* looks up its hardware id and calls the modem; the answer updates the    *)
(* tables.  The request is answered as a whole at its last geofence.       *)
(*                                                                         *)
(* The adapter's and LocApi's threads are queues as in GnssTracking.       *)
(* Requests of clients are handled at once: one may arrive in any state.   *)
(***************************************************************************)
EXTENDS Integers, Sequences, FiniteSets, SequencesExt

CONSTANTS
  Clients, Ids, HwIds, Reqs,
  None,       \* no geofence, no request
  Owner,      \* the client to which an id is handed out
  Opts,       \* options of a geofence
  Multi,      \* kinds of request that may name two geofences
  MayFail,    \* the modem may refuse a call
  MaxSsr      \* bound: subsystem restarts of the modem

Kinds == {"add", "remove", "pause", "resume", "modify"}

ASSUME IdsAssumption ==
  /\ Ids \subseteq Nat /\ HwIds \subseteq Nat
  /\ IsFiniteSet(Ids) /\ IsFiniteSet(HwIds)
ASSUME NoneAssumption == None \notin Ids \cup HwIds \cup Reqs \cup Opts
ASSUME OwnerAssumption == Owner \in [Ids -> Clients]
ASSUME BoundsAssumption == Multi \subseteq Kinds /\ MayFail \in BOOLEAN /\ MaxSsr \in Nat

VARIABLES
  clients,    \* mClientData
  used,       \* ids that generateSessionId has handed out
  geofences,  \* mGeofences, by hardware id
  idMap,      \* mGeofenceIds, by id
  reqs,       \* requests, with the array of errors their callbacks share
  msgs,       \* the adapter's queue
  calls,      \* the queue of LocApi
  modem,      \* the geofences of the modem, by hardware id
  modemUp, ssrs

tables == <<geofences, idMap>>
modemVars == <<modem, modemUp, ssrs>>
vars == <<clients, used, tables, reqs, msgs, calls, modemVars>>

Fences == [id : Ids, opt : Opts, paused : BOOLEAN]
Absent == [id |-> None, opt |-> None, paused |-> FALSE]
Errors == {"none", "ok", "failed", "unknown"}

\* errs is what the callbacks wrote, real how each call ended.
Requests == [kind : Kinds, ids : Seq(Ids), opt : Opts, errs : Seq(Errors),
             real : Seq(Errors), sent : {0, 1}]
NoRequest == [kind |-> None, ids |-> <<>>, opt |-> None, errs |-> <<>>,
              real |-> <<>>, sent |-> 0]

Call(op, hw, fence, cb, r, i) ==
  [op |-> op, hw |-> hw, fence |-> fence, cb |-> cb, r |-> r, i |-> i]
OpenCall == Call("open", None, Absent, "engineUp", None, 0)
Calls == [op : Kinds \cup {"turn", "open"}, hw : HwIds \cup {None},
          fence : [id : Ids \cup {None}, opt : Opts \cup {None}, paused : BOOLEAN],
          cb : {"turn", "done", "readd", "drop", "ignore", "engineUp"},
          r : Reqs \cup {None}, i : Nat]

TypeOK ==
  /\ clients \subseteq Clients /\ used \subseteq Ids
  /\ geofences \in [HwIds -> Fences \cup {Absent}]
  /\ idMap \in [Ids -> HwIds \cup {None}]
  /\ reqs \in [Reqs -> Requests \cup {NoRequest}]
  /\ calls \in Seq(Calls)
  /\ \A j \in DOMAIN msgs : msgs[j].ok \in BOOLEAN /\ msgs[j].call \in Calls
  /\ modem \in [HwIds -> Fences \cup {Absent}]
  /\ modemUp \in BOOLEAN /\ ssrs \in 0 .. MaxSsr

Init ==
  /\ clients = Clients /\ used = {}
  /\ geofences = [hw \in HwIds |-> Absent] /\ idMap = [id \in Ids |-> None]
  /\ reqs = [r \in Reqs |-> NoRequest]
  /\ msgs = <<>> /\ calls = <<OpenCall>>
  /\ modem = [hw \in HwIds |-> Absent] /\ modemUp = FALSE /\ ssrs = 0

\* The members of a set of numbers from the least to the greatest.
InOrder(S) ==
  {q \in [1 .. Cardinality(S) -> S] : \A i, j \in DOMAIN q : i < j => q[i] < q[j]}

-----------------------------------------------------------------------------
(***************************************************************************)
(* The tables.                                                             *)
(***************************************************************************)
Saved(hw, fence) ==
  /\ geofences' = [geofences EXCEPT ![hw] = [fence EXCEPT !.paused = FALSE]]
  /\ idMap' = [idMap EXCEPT ![fence.id] = hw]

\* Nothing is removed unless the geofence is in both tables.
Removed(hw) ==
  LET id == geofences[hw].id
  IN IF id # None /\ idMap[id] # None
     THEN /\ idMap' = [idMap EXCEPT ![id] = None]
          /\ geofences' = [geofences EXCEPT ![hw] = Absent]
     ELSE UNCHANGED tables

Changed(hw, fence) ==
  /\ geofences' = IF geofences[hw] = Absent THEN geofences
                  ELSE [geofences EXCEPT ![hw] = fence]
  /\ UNCHANGED idMap

-----------------------------------------------------------------------------
(***************************************************************************)
(* Requests.                                                               *)
(***************************************************************************)
Request(r, kind, ids, opt) ==
  /\ reqs[r] = NoRequest
  /\ \E c \in clients : \A j \in DOMAIN ids : Owner[ids[j]] = c
  /\ LET n == Len(ids)
         blank == [j \in 1 .. n |-> "none"]
     IN /\ reqs' = [reqs EXCEPT ![r] = [kind |-> kind, ids |-> ids, opt |-> opt,
                                        errs |-> blank, real |-> blank, sent |-> 0]]
        /\ calls' = calls \o [j \in 1 .. n |-> Call("turn", None, Absent, "turn", r, j)]
  /\ UNCHANGED <<clients, tables, msgs, modemVars>>

Batches(kind, S) ==
  {<<id>> : id \in S} \cup
  {q \in S \X S : kind \in Multi /\ q[1] # q[2]}

AddGeofences(r) ==
  /\ \E ids \in Batches("add", Ids \ used), opt \in Opts :
       /\ Request(r, "add", ids, opt)
       /\ used' = used \cup {ids[j] : j \in DOMAIN ids}

\* Of the ids a client was given, those it has removed included.
ChangeGeofences(r, kind) ==
  /\ \E ids \in Batches(kind, used), opt \in Opts : Request(r, kind, ids, opt)
  /\ UNCHANGED used

Received(cb) ==
  /\ msgs # <<>> /\ Head(msgs).call.cb = cb
  /\ msgs' = Tail(msgs)
  /\ UNCHANGED <<used, modemVars>>

\* The callback of item i writes err, unless it forgets to, and reports the
\* whole request if i is its last.
Ended(r, i, err, writes, reports) ==
  reqs' = [reqs EXCEPT ![r].real[i] = err,
                       ![r].errs[i] = IF writes THEN err ELSE @,
                       ![r].sent = IF reports /\ i = Len(reqs[r].ids) THEN @ + 1 ELSE @]

\* Slip: an id that is not known ends the request in silence.
HandleTurn_Silent ==
  /\ Received("turn")
  /\ LET m == Head(msgs).call
         q == reqs[m.r]
         id == q.ids[m.i]
         Calling(hw, fence) ==
           calls' = Append(calls, Call(q.kind, hw, fence, "done", m.r, m.i))
     IN \/ /\ q.kind = "add"
           /\ Calling(None, [id |-> id, opt |-> q.opt, paused |-> FALSE])
           /\ UNCHANGED reqs
        \/ /\ q.kind # "add" /\ idMap[id] = None
           /\ Ended(m.r, m.i, "unknown", TRUE, FALSE)
           /\ UNCHANGED calls
        \/ /\ q.kind # "add" /\ idMap[id] # None
           /\ Calling(idMap[id], [id |-> id, opt |-> q.opt, paused |-> FALSE])
           /\ reqs' = [reqs EXCEPT ![m.r].errs[m.i] = "ok"]
  /\ UNCHANGED <<clients, tables>>

\* The turn of a geofence: an addition goes to the modem at once, the others
\* look up the hardware id first, and take that for a success so far.
HandleTurn ==
  /\ Received("turn")
  /\ LET m == Head(msgs).call
         q == reqs[m.r]
         id == q.ids[m.i]
         Calling(hw, fence) ==
           calls' = Append(calls, Call(q.kind, hw, fence, "done", m.r, m.i))
     IN \/ /\ q.kind = "add"
           /\ Calling(None, [id |-> id, opt |-> q.opt, paused |-> FALSE])
           /\ UNCHANGED reqs
        \/ /\ q.kind # "add" /\ idMap[id] = None
           /\ Ended(m.r, m.i, "unknown", TRUE, TRUE)
           /\ UNCHANGED calls
        \/ /\ q.kind # "add" /\ idMap[id] # None
           /\ Calling(idMap[id], [id |-> id, opt |-> q.opt, paused |-> FALSE])
           /\ reqs' = [reqs EXCEPT ![m.r].errs[m.i] = "ok"]
  /\ UNCHANGED <<clients, tables>>

\* After the report the options of the request are freed: modify then reads
\* anything.
OptionsRead(r) == IF reqs[r].sent = 0 THEN {reqs[r].opt} ELSE Opts

\* What a successful call does to the tables.
Succeeded(m) ==
  LET hw == m.hw
      f == geofences[hw]
  IN CASE m.op = "add" -> Saved(hw, m.fence)
       [] m.op = "remove" -> Removed(hw)
       [] m.op = "pause" -> Changed(hw, [f EXCEPT !.paused = TRUE])
       [] m.op = "resume" -> Changed(hw, [f EXCEPT !.paused = FALSE])
       [] m.op = "modify" -> \E o \in OptionsRead(m.r) : Changed(hw, [f EXCEPT !.opt = o])

\* Slip: as resume and modify, the others do not write the error either.
HandleAnswer_NotWritten ==
  /\ Received("done")
  /\ LET m == Head(msgs).call
         ok == Head(msgs).ok
     IN /\ IF ok THEN Succeeded(m) ELSE UNCHANGED tables
        /\ Ended(m.r, m.i, IF ok THEN "ok" ELSE "failed", ok, ok \/ m.op # "resume")
  /\ UNCHANGED <<clients, calls>>

\* resume neither writes nor reports an error; modify reports without writing.
HandleAnswer ==
  /\ Received("done")
  /\ LET m == Head(msgs).call
         ok == Head(msgs).ok
     IN /\ IF ok THEN Succeeded(m) ELSE UNCHANGED tables
        /\ Ended(m.r, m.i, IF ok THEN "ok" ELSE "failed",
                 ok \/ m.op \notin {"resume", "modify"}, ok \/ m.op # "resume")
  /\ UNCHANGED <<clients, calls>>

-----------------------------------------------------------------------------
(***************************************************************************)
(* Removal of a client, and restarts of the modem.                         *)
(***************************************************************************)
\* stopClientSessions, then eraseClient.
RemoveClient(c) ==
  /\ c \in clients /\ clients' = clients \ {c}
  /\ LET mine == {id \in Ids : Owner[id] = c /\ idMap[id] # None}
         Drop(id) == Call("remove", idMap[id], [Absent EXCEPT !.id = id], "drop", None, 0)
     IN /\ \E q \in InOrder(mine) : calls' = calls \o [j \in DOMAIN q |-> Drop(q[j])]
        /\ idMap' = [id \in Ids |-> IF id \in mine THEN None ELSE idMap[id]]
  /\ UNCHANGED <<used, geofences, reqs, msgs, modemVars>>

HandleDrop ==
  /\ Received("drop")
  /\ geofences' = IF Head(msgs).ok THEN [geofences EXCEPT ![Head(msgs).call.hw] = Absent]
                  ELSE geofences
  /\ UNCHANGED <<clients, idMap, reqs, calls>>

\* restartGeofences adds what the table has, and starts from empty tables.
Readds ==
  {[j \in DOMAIN q |-> Call("add", None, geofences[q[j]], "readd", None, 0)] :
     q \in InOrder({hw \in HwIds : geofences[hw] # Absent})}

HandleEngineUp ==
  /\ Received("engineUp")
  /\ \/ /\ \A hw \in HwIds : geofences[hw] = Absent
        /\ UNCHANGED <<tables, calls>>
     \/ /\ \E hw \in HwIds : geofences[hw] # Absent
        /\ \E readds \in Readds : calls' = calls \o readds
        /\ geofences' = [hw \in HwIds |-> Absent]
        /\ idMap' = [id \in Ids |-> None]
  /\ UNCHANGED <<clients, reqs>>

\* Slip: the geofence is saved only if it was paused.
HandleReadd_PausedOnly ==
  /\ Received("readd")
  /\ LET m == Head(msgs).call
     IN \/ /\ Head(msgs).ok /\ m.fence.paused
           /\ Saved(m.hw, m.fence)
           /\ calls' = Append(calls, Call("pause", m.hw, m.fence, "ignore", None, 0))
        \/ ~(Head(msgs).ok /\ m.fence.paused) /\ UNCHANGED <<tables, calls>>
  /\ UNCHANGED <<clients, reqs>>

\* A geofence that was paused is paused again, and saved as one that is not.
HandleReadd ==
  /\ Received("readd")
  /\ LET m == Head(msgs).call
     IN \/ /\ Head(msgs).ok
           /\ Saved(m.hw, m.fence)
           /\ calls' = IF m.fence.paused
                       THEN Append(calls, Call("pause", m.hw, m.fence, "ignore", None, 0))
                       ELSE calls
        \/ ~Head(msgs).ok /\ UNCHANGED <<tables, calls>>
  /\ UNCHANGED <<clients, reqs>>

-----------------------------------------------------------------------------
(***************************************************************************)
(* The LocApi thread and the modem, which gives out hardware ids.          *)
(***************************************************************************)
NextCall(ops) ==
  /\ calls # <<>> /\ Head(calls).op \in ops
  /\ calls' = Tail(calls)
  /\ UNCHANGED <<clients, used, tables, reqs, ssrs>>

\* An answer that is ignored is left out.
Posted(call, ok) ==
  msgs' = IF call.cb = "ignore" THEN msgs ELSE Append(msgs, [ok |-> ok, call |-> call])

Known(call) == modemUp /\ modem[call.hw].id = call.fence.id

Executed(call) ==
  modem' = [modem EXCEPT ![call.hw] =
              CASE call.op = "remove" -> Absent
                [] call.op = "pause" -> [@ EXCEPT !.paused = TRUE]
                [] call.op = "resume" -> [@ EXCEPT !.paused = FALSE]
                [] call.op = "modify" -> [@ EXCEPT !.opt = call.fence.opt]]

ModemTurn ==
  /\ NextCall({"turn"})
  /\ Posted(Head(calls), TRUE)
  /\ UNCHANGED <<modem, modemUp>>

ModemAdd ==
  /\ NextCall({"add"})
  /\ \E hw \in HwIds :
       /\ modemUp /\ modem[hw] = Absent
       /\ modem' = [modem EXCEPT ![hw] = [Head(calls).fence EXCEPT !.paused = FALSE]]
       /\ Posted([Head(calls) EXCEPT !.hw = hw], TRUE)
  /\ UNCHANGED modemUp

ModemChange ==
  /\ NextCall(Kinds \ {"add"})
  /\ Known(Head(calls)) /\ Executed(Head(calls))
  /\ Posted(Head(calls), TRUE)
  /\ UNCHANGED modemUp

ModemRefuse ==
  /\ NextCall(Kinds)
  /\ \/ MayFail \/ ~modemUp
     \/ Head(calls).op = "add" /\ \A hw \in HwIds : modem[hw] # Absent
     \/ Head(calls).op # "add" /\ ~Known(Head(calls))
  /\ Posted(Head(calls), FALSE)
  /\ UNCHANGED <<modem, modemUp>>

ModemOpen ==
  /\ NextCall({"open"})
  /\ Posted(Head(calls), TRUE)
  /\ modemUp' = TRUE /\ UNCHANGED modem

\* The calls ahead of the open message fail.
ModemDown ==
  /\ modemUp /\ ssrs < MaxSsr
  /\ modemUp' = FALSE /\ ssrs' = ssrs + 1
  /\ modem' = [hw \in HwIds |-> Absent]
  /\ calls' = Append(calls, OpenCall)
  /\ UNCHANGED <<clients, used, tables, reqs, msgs>>

Client ==
  \/ \E r \in Reqs : AddGeofences(r) \/ \E kind \in Kinds \ {"add"} : ChangeGeofences(r, kind)
  \/ \E c \in Clients : RemoveClient(c)
Adapter == HandleTurn \/ HandleAnswer \/ HandleDrop \/ HandleEngineUp \/ HandleReadd
LocApi == ModemTurn \/ ModemAdd \/ ModemChange \/ ModemRefuse \/ ModemOpen

Next == Client \/ Adapter \/ LocApi \/ ModemDown

Spec == Init /\ [][Next]_vars

-----------------------------------------------------------------------------
Quiescent == calls = <<>> /\ msgs = <<>>

\* The two maps of the adapter agree: the hardware id kept for an id is that of
\* the id's own geofence, whatever was restarted, refused or removed meanwhile.
\* A breach is reported by the one map and requests are served by the other.
MapsAgree == \A id \in Ids : idMap[id] # None => geofences[idMap[id]].id = id

\* Once nothing is under way, clients can reach exactly the geofences that the
\* modem has for them, with their options; one said to be paused is paused.
FencesAgree ==
  Quiescent =>
    /\ \A id \in Ids : idMap[id] # None =>
         LET f == geofences[idMap[id]]
             g == modem[idMap[id]]
         IN g.id = id /\ g.opt = f.opt /\ (f.paused => g.paused)
    /\ \A hw \in HwIds : modem[hw] # Absent /\ Owner[modem[hw].id] \in clients
                           => idMap[modem[hw].id] = hw

\* Once nothing is under way every request was answered, by a call of
\* reportResponse, but for a resume whose last geofence failed.
Answered ==
  Quiescent => \A r \in Reqs :
    LET q == reqs[r]
    IN q = NoRequest \/ q.sent = 1 \/ (q.kind = "resume" /\ Last(q.real) = "failed")

\* All of it: the maps of geofences agree with each other and, when nothing is
\* under way, with what the modem runs; and every command is answered.
GeofencesAgree == TypeOK /\ MapsAgree /\ FencesAgree /\ Answered

\* A request is answered when all of its geofences have been, and an error of
\* the array is that of its geofence.
AnswersTrue(kinds) ==
  \A r \in Reqs : reqs'[r].kind \in kinds /\ reqs'[r].sent # reqs[r].sent
                    => reqs'[r].errs = reqs'[r].real /\ "none" \notin Range(reqs'[r].errs)

\* Additions, removals and pauses are answered truthfully.
AnswerTrue == [][AnswersTrue({"add", "remove", "pause"})]_vars

=============================================================================
