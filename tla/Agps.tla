--------------------------------- MODULE Agps ---------------------------------
(***************************************************************************)
(* The state machine of gps/gnss/Agps.cpp for one kind of data connection. *)
(*                                                                         *)
(* The modem asks for and gives back connections by handle (requestATL and *)
(* releaseATL); every handle in use is a subscriber.  The first one makes  *)
(* the machine ask the framework for the connection, the last one makes it *)
(* give the connection back.  The framework answers later, by messages on  *)
(* the adapter's thread, and may report a lost connection at any time.     *)
(*                                                                         *)
(* A subscriber always waits for the close (requestATL passes true), so it *)
(* is not deleted when it unsubscribes but stays in the list, inactive.    *)
(* The framework and the modem are external.                               *)
(***************************************************************************)
EXTENDS Naturals, Sequences

CONSTANTS
  Handles,    \* the connection handles of the modem
  MayFail,    \* may the framework fail to open a connection?
  MayLose,    \* may the framework lose an open connection?
  UsesWds,    \* is the PDN type of an APN looked up by a library (async)?
  MayBadApn,  \* may the framework pass an APN that is rejected?
  MaxSsr,     \* bound: restarts of the modem
  MaxQueue    \* bound: no request or loss when this much is under way

ASSUME FlagsAssumption == {MayFail, MayLose, UsesWds, MayBadApn} \subseteq BOOLEAN
ASSUME BoundsAssumption == MaxSsr \in Nat /\ MaxQueue \in Nat \ {0}

VARIABLES
  state,      \* mState
  subs,       \* mSubscriberList: is each handle in it, and is it inactive?
  atl,        \* what the modem was told of, or asked for, each handle
  toFw,       \* requests of the machine the framework has not handled
  fromFw,     \* answers of the framework queued for the adapter
  wds,        \* open results whose PDN type is being looked up
  connected,  \* the framework has the connection open
  ssrs        \* restarts of the modem so far

vars == <<state, subs, atl, toFw, fromFw, wds, connected, ssrs>>

States == {"RELEASED", "PENDING", "ACQUIRED", "RELEASING"}
SubStates == {"none", "active", "inactive"}
AtlStates == {"idle", "waiting", "open", "closing", "refused"}
Commands == {"REQUEST", "RELEASE"}
Answers == {"open", "pdn", "failed", "closed"}

TypeOK ==
  /\ state \in States
  /\ subs \in [Handles -> SubStates]
  /\ atl \in [Handles -> AtlStates]
  /\ toFw \in Seq(Commands)
  /\ fromFw \in Seq(Answers)
  /\ wds \in Nat
  /\ connected \in BOOLEAN
  /\ ssrs \in 0 .. MaxSsr

Init ==
  /\ state = "RELEASED"
  /\ subs = [h \in Handles |-> "none"]
  /\ atl = [h \in Handles |-> "idle"]
  /\ toFw = <<>>
  /\ fromFw = <<>>
  /\ wds = 0
  /\ connected = FALSE
  /\ ssrs = 0

-----------------------------------------------------------------------------
Active(s) == {h \in Handles : s[h] = "active"}
InUse(s) == {h \in Handles : s[h] # "none"}

\* addSubscriber keeps a handle that is already listed as it is.
Added(h) == [subs EXCEPT ![h] = IF @ = "none" THEN "active" ELSE @]
Inactivated(h) == [subs EXCEPT ![h] = "inactive"]
Without(S) == [h \in Handles |-> IF h \in S THEN "none" ELSE subs[h]]

\* What atlOpenStatus and atlCloseStatus mean to the modem for the handles of
\* S: an open status ends a wait; a failed open or a close ends any use.
ToldOpen(S) ==
  [h \in Handles |-> IF h \in S /\ atl[h] = "waiting" THEN "open" ELSE atl[h]]
ToldEnd(S, end) ==
  [h \in Handles |-> IF h \in S /\ atl[h] \in {"waiting", "open", "closing"}
                     THEN end ELSE atl[h]]

-----------------------------------------------------------------------------
Room == Len(toFw) + Len(fromFw) + wds < MaxQueue

(***************************************************************************)
(* Requests of the modem.  They are messages of the adapter as well, and   *)
(* are modelled when they are handled; the release of a handle that has    *)
(* left the list meanwhile changes nothing.                                *)
(***************************************************************************)
\* requestATL: processAgpsEventSubscribe.
RequestATL(h) ==
  /\ Room
  /\ atl[h] \in {"idle", "refused"}
  /\ subs' = Added(h)
  /\ \/ /\ state = "RELEASED"
        /\ state' = "PENDING" /\ toFw' = Append(toFw, "REQUEST")
        /\ atl' = [atl EXCEPT ![h] = "waiting"]
     \/ /\ state \in {"PENDING", "RELEASING"}
        /\ atl' = [atl EXCEPT ![h] = "waiting"]
        /\ UNCHANGED <<state, toFw>>
     \/ /\ state = "ACQUIRED"
        /\ atl' = [atl EXCEPT ![h] = "open"]
        /\ UNCHANGED <<state, toFw>>
  /\ UNCHANGED <<fromFw, wds, connected, ssrs>>

\* Slip: the connection is given back whoever still uses it.
ReleaseATL_Always(h) ==
  /\ Room
  /\ atl[h] \in {"waiting", "open"}
  /\ subs[h] # "none"
  /\ atl' = [atl EXCEPT ![h] = "closing"]
  /\ subs' = Inactivated(h)
  /\ state' = "RELEASING" /\ toFw' = Append(toFw, "RELEASE")
  /\ UNCHANGED <<fromFw, wds, connected, ssrs>>

\* Slip: the connection is kept while anyone is listed, active or not.
ReleaseATL_AnyListed(h) ==
  /\ Room
  /\ atl[h] \in {"waiting", "open"}
  /\ subs[h] # "none"
  /\ atl' = [atl EXCEPT ![h] = "closing"]
  /\ subs' = Inactivated(h)
  /\ IF state \in {"PENDING", "ACQUIRED"} /\ InUse(Inactivated(h)) = {}
     THEN state' = "RELEASING" /\ toFw' = Append(toFw, "RELEASE")
     ELSE UNCHANGED <<state, toFw>>
  /\ UNCHANGED <<fromFw, wds, connected, ssrs>>

\* releaseATL: processAgpsEventUnsubscribe.
ReleaseATL(h) ==
  /\ Room
  /\ atl[h] \in {"waiting", "open"}
  /\ subs[h] # "none"
  /\ atl' = [atl EXCEPT ![h] = "closing"]
  /\ subs' = Inactivated(h)
  /\ IF state \in {"PENDING", "ACQUIRED"} /\ Active(Inactivated(h)) = {}
     THEN state' = "RELEASING" /\ toFw' = Append(toFw, "RELEASE")
     ELSE UNCHANGED <<state, toFw>>
  /\ UNCHANGED <<fromFw, wds, connected, ssrs>>

\* The modem restarts and forgets its handles.  AgpsManager::handleModemSSR
\* would drop the subscribers, but nothing calls it.
ModemRestart ==
  /\ ssrs < MaxSsr
  /\ ssrs' = ssrs + 1
  /\ atl' = [h \in Handles |-> "idle"]
  /\ UNCHANGED <<state, subs, toFw, fromFw, wds, connected>>

-----------------------------------------------------------------------------
(***************************************************************************)
(* The events of the machine.  cmds are the requests the framework still   *)
(* has to handle apart from those the event adds.                          *)
(***************************************************************************)
Granted ==
  /\ IF state = "PENDING"
     THEN state' = "ACQUIRED" /\ atl' = ToldOpen(Active(subs))
     ELSE UNCHANGED <<state, atl>>
  /\ UNCHANGED subs

\* Slip: subscribers that came while the connection was closing are forgotten.
ReleasingEnds_NoNewRequest(cmds) ==
  LET inactive == InUse(subs) \ Active(subs)
  IN /\ subs' = Without(inactive)
     /\ atl' = ToldEnd(inactive, "idle")
     /\ state' = "RELEASED" /\ toFw' = cmds

\* RELEASING ends: the inactive subscribers are told and removed; those that
\* came meanwhile make the machine ask again.
ReleasingEnds(cmds) ==
  LET inactive == InUse(subs) \ Active(subs)
  IN /\ subs' = Without(inactive)
     /\ atl' = ToldEnd(inactive, "idle")
     /\ IF Active(subs) # {}
        THEN state' = "PENDING" /\ toFw' = Append(cmds, "REQUEST")
        ELSE state' = "RELEASED" /\ toFw' = cmds

\* Slip: those that wait for the close are not told of a lost connection.
EverybodyEnds_ActiveOnly(end, cmds) ==
  /\ state' = "RELEASED"
  /\ subs' = Without(Active(subs))
  /\ atl' = ToldEnd(Active(subs), end)
  /\ toFw' = cmds

EverybodyEnds(end, cmds) ==
  /\ state' = "RELEASED"
  /\ subs' = Without(Handles)
  /\ atl' = ToldEnd(InUse(subs), end)
  /\ toFw' = cmds

Ignored(cmds) == toFw' = cmds /\ UNCHANGED <<state, subs, atl>>

\* Slip: a close that comes late ends the requests made since.
Released_AlsoPending(cmds) ==
  \/ state \in {"PENDING", "ACQUIRED"} /\ EverybodyEnds("idle", cmds)
  \/ state = "RELEASING" /\ ReleasingEnds(cmds)
  \/ state = "RELEASED" /\ Ignored(cmds)

Released(cmds) ==
  \/ state = "ACQUIRED" /\ EverybodyEnds("idle", cmds)
  \/ state = "RELEASING" /\ ReleasingEnds(cmds)
  \/ state \in {"RELEASED", "PENDING"} /\ Ignored(cmds)

Denied(cmds) ==
  \/ state = "PENDING" /\ EverybodyEnds("refused", cmds)
  \/ state = "RELEASING" /\ ReleasingEnds(cmds)
  \/ state \in {"RELEASED", "ACQUIRED"} /\ Ignored(cmds)

-----------------------------------------------------------------------------
(***************************************************************************)
(* Messages of the adapter.                                                *)
(***************************************************************************)
NextAnswer(a) == fromFw # <<>> /\ Head(fromFw) = a /\ fromFw' = Tail(fromFw)

\* AgpsMsgAtlOpenSuccess: with the WDS library the machine learns of the grant
\* only from reportPdnTypeFromWds, a message of its own.
HandleOpen ==
  /\ NextAnswer("open")
  /\ IF UsesWds THEN wds' = wds + 1 /\ UNCHANGED <<state, subs, atl>>
     ELSE Granted /\ UNCHANGED wds
  /\ UNCHANGED <<toFw, connected, ssrs>>

\* Slip: a result ends a lookup once more.
HandlePdnType_Counts ==
  /\ NextAnswer("pdn") /\ Granted
  /\ wds' = wds - 1
  /\ UNCHANGED <<toFw, connected, ssrs>>

HandlePdnType ==
  /\ NextAnswer("pdn") /\ Granted
  /\ UNCHANGED <<toFw, wds, connected, ssrs>>

HandleFailed ==
  /\ NextAnswer("failed") /\ Denied(toFw)
  /\ UNCHANGED <<wds, connected, ssrs>>

HandleClosed ==
  /\ NextAnswer("closed") /\ Released(toFw)
  /\ UNCHANGED <<wds, connected, ssrs>>

-----------------------------------------------------------------------------
(***************************************************************************)
(* The framework and the WDS library.                                      *)
(***************************************************************************)
PdnTypeFound ==
  /\ wds > 0
  /\ wds' = wds - 1
  /\ fromFw' = Append(fromFw, "pdn")
  /\ UNCHANGED <<state, subs, atl, toFw, connected, ssrs>>

FwRequest ==
  /\ toFw # <<>> /\ Head(toFw) = "REQUEST"
  /\ toFw' = Tail(toFw)
  /\ \/ connected' = TRUE /\ fromFw' = Append(fromFw, "open")
     \/ MayFail /\ connected' = FALSE /\ fromFw' = Append(fromFw, "failed")
  /\ UNCHANGED <<state, subs, atl, wds, ssrs>>

\* dataConnOpenCommand rejects the APN and reports a close at once, on the
\* framework's thread.
FwBadApn ==
  /\ MayBadApn
  /\ toFw # <<>> /\ Head(toFw) = "REQUEST"
  /\ connected' = TRUE
  /\ Released(Tail(toFw))
  /\ UNCHANGED <<fromFw, wds, ssrs>>

FwRelease ==
  /\ toFw # <<>> /\ Head(toFw) = "RELEASE"
  /\ toFw' = Tail(toFw)
  /\ connected' = FALSE
  /\ fromFw' = Append(fromFw, "closed")
  /\ UNCHANGED <<state, subs, atl, wds, ssrs>>

FwLost ==
  /\ MayLose /\ Room
  /\ connected /\ connected' = FALSE
  /\ fromFw' = Append(fromFw, "closed")
  /\ UNCHANGED <<state, subs, atl, toFw, wds, ssrs>>

Handle == HandleOpen \/ HandlePdnType \/ HandleFailed \/ HandleClosed
Framework == FwRequest \/ FwBadApn \/ FwRelease

Next == \/ \E h \in Handles : RequestATL(h) \/ ReleaseATL(h)
        \/ Handle \/ Framework \/ PdnTypeFound \/ FwLost \/ ModemRestart

\* The adapter's thread, the framework and the WDS library go on; the modem
\* need not ask for anything and connections need not be lost.
Fairness == WF_vars(Handle) /\ WF_vars(Framework) /\ WF_vars(PdnTypeFound)

Spec == Init /\ [][Next]_vars
FairSpec == Spec /\ Fairness

-----------------------------------------------------------------------------
\* "Subscriber list should be empty if we are in released state", and the
\* connection is asked for or held only on behalf of an active subscriber.
ListMatchesState ==
  /\ state = "RELEASED" => InUse(subs) = {}
  /\ state \in {"PENDING", "ACQUIRED"} => Active(subs) # {}
  /\ state = "RELEASING" => InUse(subs) # {}

\* The modem and the machine agree on every handle: in use by the modem iff an
\* active subscriber, open iff the connection is held as well, closing iff an
\* inactive subscriber.
ModemAgrees ==
  \A h \in Handles :
    /\ atl[h] = "open" <=> subs[h] = "active" /\ state = "ACQUIRED"
    /\ atl[h] = "waiting" <=> subs[h] = "active" /\ state # "ACQUIRED"
    /\ atl[h] = "closing" <=> subs[h] = "inactive"

\* The machine tells the modem that a connection is open only while the
\* framework has it open: "We already have the data connection setup".
HeldIsOpen == state = "ACQUIRED" => connected

\* Every handle the modem asks for is answered, or given up by the modem.
RequestsAnswered == \A h \in Handles : atl[h] = "waiting" ~> atl[h] # "waiting"

\* A handle given back is closed once nobody uses the connection.
ClosesAnswered ==
  \A h \in Handles :
    atl[h] = "closing" ~> \/ atl[h] # "closing"
                          \/ \E g \in Handles : atl[g] \in {"waiting", "open"}

\* The modem gets every answer it waits for.
AtlAnswered == RequestsAnswered /\ ClosesAnswered

\* The machine does what AtlService promises the modem.
Atl == INSTANCE AtlService WITH up <- (state = "ACQUIRED")
AtlSpec == Atl!Spec

=============================================================================
