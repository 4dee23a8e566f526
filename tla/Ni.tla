---------------------------------- MODULE Ni ----------------------------------
(***************************************************************************)
(* Network initiated location requests (gps/gnss/GnssAdapter.cpp).         *)
(*                                                                         *)
(* The modem asks whether the network may locate the user.  The adapter    *)
(* decides by the configuration, or asks a client and starts a thread that *)
(* waits for the answer or a time-out.  There is one session for emergency *)
(* SUPL requests ("es") and one for all others ("plain").                  *)
(*                                                                         *)
(* The adapter's thread looks at a session before it takes its lock, and   *)
(* the session's thread cleans up after it has released the lock.          *)
(***************************************************************************)
EXTENDS Naturals, Sequences, FiniteSets

CONSTANTS
  NiClients, Notifs,
  None,         \* no notification
  DenyLocked,   \* a lock is set, and NI_SUPL_DENY_ON_NFW_LOCKED
  SuplEsNo,     \* SUPL_ES: emergency SUPL is accepted outside emergencies
  CpMtlrEs      \* control plane requests are accepted in emergencies

ASSUME NoneAssumption == None \notin Notifs

Sessions == {"plain", "es"}
Types == {"supl", "emergency_supl", "control_plane", "other"}
UserResponses == {"accept", "deny"}
Responses == UserResponses \cup {"no_response", "ignore"}

VARIABLES
  listening,    \* clients with a gnssNiCb
  reqIDCounter,
  rawRequest, reqID, resp, respRecvd,   \* the members of each NiSession
  waiter,       \* the thread of each session: none, starting or waiting
  leaving,      \* threads that have released the lock
  stores,       \* responses the adapter's thread is about to store
  answers,      \* what the modem was told of each notification
  freed,        \* notifications dropped without an answer
  given         \* what users answered to each notification

session == <<rawRequest, reqID, resp, respRecvd, waiter>>
history == <<answers, freed, given>>
niVars == <<listening, reqIDCounter, session, leaving, stores, history>>

Leaving == [s : Sessions, n : Notifs, resp : Responses]

NiTypeOK ==
  /\ listening \subseteq NiClients /\ reqIDCounter \in Nat
  /\ rawRequest \in [Sessions -> Notifs \cup {None}]
  /\ reqID \in [Sessions -> Nat]
  /\ resp \in [Sessions -> Responses] /\ respRecvd \in [Sessions -> BOOLEAN]
  /\ waiter \in [Sessions -> {"none", "starts", "waits"}]
  /\ leaving \subseteq Leaving
  /\ stores \in Seq(Sessions \X Responses)
  /\ answers \in [Notifs -> Seq(Responses)]
  /\ freed \subseteq Notifs /\ given \subseteq Notifs \X UserResponses

NiInit ==
  /\ listening \in SUBSET NiClients /\ reqIDCounter = 0
  /\ rawRequest = [s \in Sessions |-> None] /\ reqID = [s \in Sessions |-> 0]
  /\ resp = [s \in Sessions |-> "no_response"]
  /\ respRecvd = [s \in Sessions |-> FALSE]
  /\ waiter = [s \in Sessions |-> "none"] /\ leaving = {} /\ stores = <<>>
  /\ answers = [n \in Notifs |-> <<>>] /\ freed = {} /\ given = {}

-----------------------------------------------------------------------------
(***************************************************************************)
(* The adapter's thread.  It handles one message at a time, and is in the  *)
(* middle of one as long as it has something to store.                     *)
(***************************************************************************)
Told(n, r) == answers' = [answers EXCEPT ![n] = Append(@, r)]

\* What becomes of a request of this type.
Verdict(type, emergency, override) ==
  CASE type \in {"supl", "emergency_supl"} /\ ~emergency /\ ~override /\ DenyLocked -> "deny"
    [] type = "emergency_supl" /\ (emergency \/ SuplEsNo) -> "ask"
    [] type = "emergency_supl" -> "deny"
    [] type = "control_plane" /\ emergency /\ CpMtlrEs -> "accept"
    [] OTHER -> "ask"

SessionOf(type) == IF type = "emergency_supl" THEN "es" ELSE "plain"

\* requestNiNotify: a plain request is dropped while any other is under way, an
\* emergency request only while another emergency request is.
Busy(s) == \E q \in Sessions : rawRequest[q] # None /\ (q = s \/ s = "plain")

Ask(n, s) ==
  \/ /\ Busy(s) /\ freed' = freed \cup {n}
     /\ UNCHANGED <<reqIDCounter, session>>
  \/ /\ ~Busy(s)
     /\ reqIDCounter' = reqIDCounter + 1
     /\ rawRequest' = [rawRequest EXCEPT ![s] = n]
     /\ reqID' = [reqID EXCEPT ![s] = reqIDCounter + 1]
     /\ waiter' = [waiter EXCEPT ![s] = "starts"]
     /\ UNCHANGED <<resp, respRecvd, freed>>

\* An accepted emergency request ends the plain one.
IgnorePlain == IF rawRequest["plain"] = None THEN <<>> ELSE <<<<"plain", "ignore">>>>

\* With nobody to ask, an emergency request is accepted and others are kept
\* without an answer.
AskNobody(n, type) ==
  /\ IF type = "emergency_supl"
     THEN Told(n, "accept") /\ stores' = IgnorePlain
     ELSE UNCHANGED <<answers, stores>>
  /\ UNCHANGED <<reqIDCounter, session, freed>>

Unused(n) ==
  /\ answers[n] = <<>> /\ n \notin freed
  /\ \A s \in Sessions : rawRequest[s] # n
  /\ \A t \in leaving : t.n # n

RequestNiNotify(n) ==
  /\ stores = <<>> /\ Unused(n)
  /\ \E type \in Types, emergency, override \in BOOLEAN :
       LET v == Verdict(type, emergency, override)
       IN \/ /\ v # "ask" /\ Told(n, v)
             /\ UNCHANGED <<reqIDCounter, session, stores, freed>>
          \/ /\ v = "ask" /\ listening # {}
             /\ Ask(n, SessionOf(type))
             /\ UNCHANGED <<answers, stores>>
          \/ /\ v = "ask" /\ listening = {} /\ AskNobody(n, type)
  /\ UNCHANGED <<listening, leaving, given>>

\* gnssNiResponseCommand.  Answers to ids that are not active are refused.
GnssNiResponse(c, id, r) ==
  /\ stores = <<>> /\ c \in listening
  /\ \E s \in Sessions :
       /\ reqID[s] = id /\ rawRequest[s] # None
       /\ stores' = (IF s = "es" /\ r = "accept" THEN IgnorePlain ELSE <<>>) \o <<<<s, r>>>>
       /\ given' = given \cup {<<rawRequest[s], r>>}
  /\ UNCHANGED <<listening, reqIDCounter, session, leaving, answers, freed>>

\* Under the lock of the session.
Store ==
  /\ stores # <<>>
  /\ LET s == Head(stores)[1]
     IN /\ resp' = [resp EXCEPT ![s] = Head(stores)[2]]
        /\ respRecvd' = [respRecvd EXCEPT ![s] = TRUE]
  /\ stores' = Tail(stores)
  /\ UNCHANGED <<listening, reqIDCounter, rawRequest, reqID, waiter, leaving, history>>

\* Clients come with a callback, and go.
ClientChanges(c) ==
  /\ stores = <<>>
  /\ listening' = IF c \in listening THEN listening \ {c} ELSE listening \cup {c}
  /\ UNCHANGED <<reqIDCounter, session, leaving, stores, history>>

-----------------------------------------------------------------------------
(***************************************************************************)
(* niThreadProc.                                                           *)
(***************************************************************************)
\* Slip: the request is not taken out of the session.
Leave_Keeps(s, r) ==
  /\ waiter' = [waiter EXCEPT ![s] = "none"]
  /\ respRecvd' = [respRecvd EXCEPT ![s] = FALSE]
  /\ resp' = [resp EXCEPT ![s] = r]
  /\ leaving' = leaving \cup {[s |-> s, n |-> rawRequest[s], resp |-> r]}
  /\ UNCHANGED <<listening, reqIDCounter, rawRequest, reqID, stores, history>>

\* The thread takes the response and the request, and releases the lock.
Leave(s, r) ==
  /\ waiter' = [waiter EXCEPT ![s] = "none"]
  /\ respRecvd' = [respRecvd EXCEPT ![s] = FALSE]
  /\ resp' = [resp EXCEPT ![s] = r]
  /\ leaving' = leaving \cup {[s |-> s, n |-> rawRequest[s], resp |-> r]}
  /\ rawRequest' = [rawRequest EXCEPT ![s] = None]
  /\ UNCHANGED <<listening, reqIDCounter, reqID, stores, history>>

ThreadWaits(s) ==
  /\ waiter[s] = "starts" /\ ~respRecvd[s]
  /\ waiter' = [waiter EXCEPT ![s] = "waits"]
  /\ UNCHANGED <<listening, reqIDCounter, rawRequest, reqID, resp, respRecvd, leaving, stores, history>>

ThreadAnswered(s) == waiter[s] # "none" /\ respRecvd[s] /\ Leave(s, resp[s])

\* Slip: only the session of plain requests has a time-out.
ThreadTimesOut_Plain(s) == s = "plain" /\ waiter[s] = "waits" /\ Leave(s, "no_response")

\* The wait may time out although a response was just stored.
ThreadTimesOut(s) == waiter[s] = "waits" /\ Leave(s, "no_response")

\* The members are reset without the lock.
ThreadEnds(t) ==
  /\ leaving' = leaving \ {t}
  /\ reqID' = [reqID EXCEPT ![t.s] = 0]
  /\ IF t.resp = "ignore" THEN freed' = freed \cup {t.n} /\ UNCHANGED answers
     ELSE Told(t.n, t.resp) /\ UNCHANGED freed
  /\ UNCHANGED <<listening, reqIDCounter, rawRequest, resp, respRecvd, waiter, stores, given>>

Thread(s) ==
  \/ ThreadWaits(s) \/ ThreadAnswered(s) \/ ThreadTimesOut(s)
  \/ \E t \in leaving : t.s = s /\ ThreadEnds(t)

NiNext ==
  \/ \E n \in Notifs : RequestNiNotify(n)
  \/ \E c \in NiClients, id \in 1 .. reqIDCounter, r \in UserResponses : GnssNiResponse(c, id, r)
  \/ Store
  \/ \E c \in NiClients : ClientChanges(c)
  \/ \E s \in Sessions : Thread(s)

\* The adapter's thread and the thread of a session do not stop in the middle.
NiFair == WF_niVars(Store) /\ \A s \in Sessions : WF_niVars(Thread(s))

NiSpec == NiInit /\ [][NiNext]_niVars /\ NiFair

-----------------------------------------------------------------------------
(***************************************************************************)
(* Properties.                                                             *)
(***************************************************************************)
\* Whatever users, time-outs and emergency requests do to a session, the modem
\* gets at most one answer to a notification, and none to one whose data was
\* freed: a second answer would use memory that was given back.
OneAnswer ==
  \A n \in Notifs :
    /\ Len(answers[n]) <= 1
    /\ n \in freed => answers[n] = <<>>
    /\ \A s \in Sessions : rawRequest[s] = n => answers[n] = <<>> /\ n \notin freed

\* A user is asked and never answers, answers late, answers twice or goes away:
\* the notification is always answered or dropped, and the session is free again.
Resolved(n) == answers[n] # <<>> \/ n \in freed
NiAnswered ==
  \A n \in Notifs : (\E s \in Sessions : rawRequest[s] = n) ~> Resolved(n)
=============================================================================
